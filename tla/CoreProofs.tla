----------------------------- MODULE CoreProofs -----------------------------
(***************************************************************************)
(* Proofs about the event loop of Core, for any sets of users and fds and  *)
(* any limits.                                                             *)
(*                                                                         *)
(* Closing, the invariant of deferred destruction, says that epoll watches *)
(* exactly the connections that are not waiting to be destroyed, and that  *)
(* none waits twice.  With it, the connection being handled is always one  *)
(* that epoll watches (Handling), since handle_client closes it only at    *)
(* its very end.  The types rest on that and on the invariant of the users *)
(* group (UsersGroupProofs).  Inv, the three together, carries the rest:   *)
(* bindings, interest masks, replies, faults and routing.                  *)
(***************************************************************************)
EXTENDS Core, SequenceTheorems, FiniteSetTheorems, TLAPS

Distinct(s) == \A i, j \in DOMAIN s : s[i] = s[j] => i = j

Closing ==
    /\ DOMAIN conns \subseteq Fd /\ IsFiniteSet(DOMAIN conns)
    /\ pending_close \in Seq(Fd)
    /\ Distinct(pending_close)
    /\ ToSet(pending_close) \subseteq DOMAIN conns
    /\ DOMAIN epoll = DOMAIN conns \ ToSet(pending_close)

Event == [fd : Fd \cup {ListenFd}, events : SUBSET {"in", "out", "hup"}]

Handling ==
    /\ batch \in Seq(Event)
    /\ pc \in {"wait", "dispatch", "write", "read", "drain", "close"}
    /\ pc \in {"write", "read", "drain"} => batch # <<>> /\ cur \in DOMAIN epoll

Struct == Closing /\ Handling

-----------------------------------------------------------------------------
(* Facts about sequences *)

LEMMA ToSetAppend ==
    ASSUME NEW Elem, NEW s \in Seq(Elem), NEW e \in Elem
    PROVE  ToSet(Append(s, e)) = ToSet(s) \cup {e}
<1>1. /\ Append(s, e) \in Seq(Elem)
      /\ Len(Append(s, e)) = Len(s) + 1
      /\ \A i \in 1..Len(s) : Append(s, e)[i] = s[i]
      /\ Append(s, e)[Len(s) + 1] = e
  BY AppendProperties
<1> QED
  BY <1>1 DEF ToSet

LEMMA DistinctAppend ==
    ASSUME NEW Elem, NEW s \in Seq(Elem), NEW e \in Elem, Distinct(s), e \notin ToSet(s)
    PROVE  Distinct(Append(s, e))
<1>1. /\ Append(s, e) \in Seq(Elem)
      /\ Len(Append(s, e)) = Len(s) + 1
      /\ \A i \in 1..Len(s) : Append(s, e)[i] = s[i]
      /\ Append(s, e)[Len(s) + 1] = e
  BY AppendProperties
<1> QED
  BY <1>1 DEF ToSet, Distinct

LEMMA DistinctTail ==
    ASSUME NEW Elem, NEW s \in Seq(Elem), s # <<>>, Distinct(s)
    PROVE  /\ Tail(s) \in Seq(Elem)
           /\ Distinct(Tail(s))
           /\ Head(s) \in ToSet(s)
           /\ ToSet(Tail(s)) = ToSet(s) \ {Head(s)}
<1>1. /\ Tail(s) \in Seq(Elem)
      /\ Len(Tail(s)) = Len(s) - 1
      /\ \A i \in 1..Len(Tail(s)) : Tail(s)[i] = s[i + 1]
      /\ Len(s) \in Nat \ {0}
      /\ Head(s) = s[1]
  BY HeadTailProperties, EmptySeq
<1> DEFINE t == Tail(s)
<1> HIDE DEF t
<1>2. DOMAIN s = 1..Len(s) /\ DOMAIN t = 1..Len(t)
  BY <1>1 DEF t
<1>3. Distinct(t)
  BY <1>1, <1>2 DEF t, Distinct
<1>4. Head(s) \in ToSet(s)
  BY <1>1 DEF ToSet
<1>5. ASSUME NEW x \in ToSet(t)
      PROVE  x \in ToSet(s) /\ x # Head(s)
  <2>1. PICK i \in 1..Len(t) : x = t[i]
    BY <1>2 DEF ToSet
  <2>2. i + 1 \in DOMAIN s /\ i + 1 # 1 /\ x = s[i + 1]
    BY <1>1, <1>2, <2>1 DEF t
  <2> QED
    BY <1>1, <1>2, <2>2 DEF ToSet, Distinct
<1>6. ASSUME NEW x \in ToSet(s), x # Head(s)
      PROVE  x \in ToSet(t)
  <2>1. PICK i \in 1..Len(s) : x = s[i]
    BY <1>2 DEF ToSet
  <2>2. i - 1 \in 1..Len(t) /\ x = t[i - 1]
    BY <1>1, <1>6, <2>1 DEF t
  <2> QED
    BY <1>2, <2>2 DEF ToSet
<1> QED
  BY <1>1, <1>3, <1>4, <1>5, <1>6 DEF t

-----------------------------------------------------------------------------
(* Closing *)

LEMMA CloseClient ==
    ASSUME Closing, NEW fd \in DOMAIN epoll, close_client(fd),
           DOMAIN conns' = DOMAIN conns
    PROVE  Closing' /\ DOMAIN epoll' = DOMAIN epoll \ {fd}
<1>1. /\ fd \in Fd /\ fd \notin ToSet(pending_close)
      /\ pending_close' = Append(pending_close, fd)
      /\ DOMAIN epoll' = DOMAIN epoll \ {fd}
  BY DEF Closing, close_client, is_pending_close, Restrict
<1>2. /\ pending_close' \in Seq(Fd)
      /\ Distinct(pending_close')
      /\ ToSet(pending_close') = ToSet(pending_close) \cup {fd}
  BY <1>1, ToSetAppend, DistinctAppend, AppendProperties DEF Closing
<1> QED
  BY <1>1, <1>2 DEF Closing

LEMMA KeepOpen ==
    ASSUME Closing, UNCHANGED pending_close,
           DOMAIN epoll' = DOMAIN epoll, DOMAIN conns' = DOMAIN conns
    PROVE  Closing'
BY DEF Closing
-----------------------------------------------------------------------------
(* Handling *)

LEMMA NextEventInv ==
    ASSUME batch \in Seq(Event), batch # <<>>, NextEvent
    PROVE  batch' \in Seq(Event) /\ pc' = "dispatch"
BY HeadTailProperties DEF NextEvent

LEMMA EpollWaitInv == Struct /\ EpollWait => Struct'
<1> SUFFICES ASSUME Struct, EpollWait
             PROVE  Struct'
  OBVIOUS
<1>1. IsFiniteSet(Ready) /\ Cardinality(Ready) \in Nat
  <2>1. IsFiniteSet(DOMAIN epoll)
    BY FS_Subset DEF Struct, Closing
  <2>2. Ready \subseteq DOMAIN epoll \cup {ListenFd}
    BY DEF Ready
  <2> QED
    BY <2>1, <2>2, FS_AddElement, FS_Subset, FS_CardinalityType
<1>2. PICK chosen \in kSubset(Min({MaxEvents, Cardinality(Ready)}), Ready) :
         \E order \in SetToSeqs(chosen) :
            batch' = [i \in DOMAIN order |->
                        [fd |-> order[i],
                         events |-> IF order[i] = ListenFd THEN {"in"} ELSE EventsOf(order[i])]]
  BY DEF EpollWait
<1>3. PICK order \in SetToSeqs(chosen) :
         batch' = [i \in DOMAIN order |->
                     [fd |-> order[i],
                      events |-> IF order[i] = ListenFd THEN {"in"} ELSE EventsOf(order[i])]]
  BY <1>2
<1>4. chosen \subseteq Ready /\ Cardinality(chosen) \in Nat
  <2>1. chosen \subseteq Ready
    BY DEF kSubset
  <2> QED
    BY <1>1, <2>1, FS_Subset, FS_CardinalityType
<1>5. order \in [1..Cardinality(chosen) -> chosen]
  BY DEF SetToSeqs
<1>6. \A fd \in Ready : fd = ListenFd \/ (fd \in Fd /\ EventsOf(fd) \subseteq {"in", "out", "hup"})
  BY DEF Ready, EventsOf, Struct, Closing
<1>7. batch' \in [1..Cardinality(chosen) -> Event]
  BY <1>3, <1>4, <1>5, <1>6 DEF Event
<1>8. batch' \in Seq(Event)
  BY <1>4, <1>7, IsASeq
<1>9. Closing'
  BY KeepOpen DEF EpollWait, Struct
<1> QED
  BY <1>8, <1>9 DEF EpollWait, Struct, Handling

LEMMA AcceptInv == Struct /\ Accept => Struct'
<1> SUFFICES ASSUME Struct, Accept
             PROVE  Struct'
  OBVIOUS
<1>1. PICK fd \in Fd \ DOMAIN conns :
         /\ DOMAIN conns' = DOMAIN conns \cup {fd}
         /\ DOMAIN epoll' = DOMAIN epoll \cup {fd}
  BY DEF Accept, Watch
<1>2. Closing'
  BY <1>1, FS_AddElement DEF Accept, Struct, Closing
<1> QED
  BY <1>2 DEF Accept, Struct, Handling, loop

LEMMA AcceptEndsInv == Struct /\ AcceptEnds => Struct'
BY NextEventInv, KeepOpen DEF AcceptEnds, Struct, Handling

LEMMA SkipEventInv == Struct /\ SkipEvent => Struct'
BY NextEventInv, KeepOpen DEF SkipEvent, Struct, Handling

LEMMA HandleClientInv == Struct /\ HandleClient => Struct'
<1> SUFFICES ASSUME Struct, HandleClient
             PROVE  Struct'
  OBVIOUS
<1>1. cur \in DOMAIN epoll /\ batch # <<>>
  BY DEF HandleClient, Struct, Closing
<1>2. CASE close_client(cur) /\ NextEvent
  BY <1>1, <1>2, CloseClient, NextEventInv DEF HandleClient, Struct, Handling
<1>3. CASE pc' \in {"write", "read"} /\ UNCHANGED <<batch, epoll, pending_close>>
  BY <1>1, <1>3, KeepOpen DEF HandleClient, Struct, Handling, cur
<1> QED
  BY <1>2, <1>3 DEF HandleClient

LEMMA HandleWriteInv == Struct /\ HandleWrite => Struct'
<1> SUFFICES ASSUME Struct, HandleWrite
             PROVE  Struct'
  OBVIOUS
<1>1. cur \in DOMAIN epoll /\ batch # <<>>
  BY DEF HandleWrite, Struct, Handling
<1>2. DOMAIN conns' = DOMAIN conns
  BY DEF HandleWrite, Written
<1>3. CASE close_client(cur) /\ NextEvent
  BY <1>1, <1>2, <1>3, CloseClient, NextEventInv DEF Struct, Handling
<1>4. CASE pc' = "read" /\ UNCHANGED <<batch, epoll, pending_close>>
  BY <1>1, <1>2, <1>4, KeepOpen DEF Struct, Handling, cur
<1>5. CASE update_events(cur, conns'[cur]) /\ NextEvent
  <2>1. CASE close_client(cur)
    BY <1>1, <1>2, <1>5, <2>1, CloseClient, NextEventInv DEF Struct, Handling
  <2>2. CASE DOMAIN epoll' = DOMAIN epoll /\ UNCHANGED pending_close
    BY <1>1, <1>2, <1>5, <2>2, KeepOpen, NextEventInv DEF Struct, Handling
  <2> QED
    BY <1>5, <2>1, <2>2 DEF update_events
<1> QED
  BY <1>3, <1>4, <1>5 DEF HandleWrite

LEMMA HandleReadInv == Struct /\ HandleRead => Struct'
<1> SUFFICES ASSUME Struct, HandleRead
             PROVE  Struct'
  OBVIOUS
<1>1. DOMAIN conns' = DOMAIN conns
  BY DEF HandleRead
<1> QED
  BY <1>1, KeepOpen DEF HandleRead, Struct, Handling, cur

LEMMA DrainFrameInv == Struct /\ DrainFrame => Struct'
BY KeepOpen DEF DrainFrame, Struct, Handling, cur

(* Frames are sent to connections that epoll watches, and a failure closes *)
(* one only if it is not the connection being handled.                     *)
LEMMA SendFrameInv == Struct /\ SendFrame => Struct'
<1> SUFFICES ASSUME Struct, SendFrame
             PROVE  Struct'
  OBVIOUS
<1> DEFINE item == Head(send_queue)
<1>1. /\ pc = "drain" /\ pc' = pc /\ batch' = batch
      /\ cur \in DOMAIN epoll /\ batch # <<>>
      /\ DOMAIN conns' = DOMAIN conns
  BY DEF SendFrame, Written, Struct, Handling
<1>2. ~ Undeliverable(item) => item.to \in DOMAIN epoll
  BY DEF Undeliverable, Struct, Closing
<1>3. \/ UNCHANGED pending_close /\ DOMAIN epoll' = DOMAIN epoll
      \/ /\ item.to \in DOMAIN epoll /\ item.to # cur
         /\ close_client(item.to)
  <2>1. \/ UNCHANGED <<epoll, pending_close>>
        \/ ~ Undeliverable(item) /\ (Rearm(item.to, "would_block") \/ SendFailed(item.to))
    BY DEF SendFrame, Rearm
  <2> QED
    BY <1>2, <2>1 DEF Rearm, SendFailed, update_events
<1> HIDE DEF item
<1>4. CASE UNCHANGED pending_close /\ DOMAIN epoll' = DOMAIN epoll
  BY <1>1, <1>4, KeepOpen DEF Struct, Handling, cur
<1>5. CASE item.to \in DOMAIN epoll /\ item.to # cur /\ close_client(item.to)
  BY <1>1, <1>5, CloseClient DEF Struct, Handling, cur
<1> QED
  BY <1>3, <1>4, <1>5

LEMMA FinishClientInv == Struct /\ FinishClient => Struct'
<1> SUFFICES ASSUME Struct, FinishClient
             PROVE  Struct'
  OBVIOUS
<1>1. cur \in DOMAIN epoll /\ batch # <<>>
  BY DEF FinishClient, Struct, Handling
<1>2. \/ close_client(cur)
      \/ DOMAIN epoll' = DOMAIN epoll /\ UNCHANGED pending_close
  BY DEF FinishClient, update_events
<1>3. CASE close_client(cur)
  BY <1>1, <1>3, CloseClient, NextEventInv DEF FinishClient, Struct, Handling
<1>4. CASE DOMAIN epoll' = DOMAIN epoll /\ UNCHANGED pending_close
  BY <1>1, <1>4, KeepOpen, NextEventInv DEF FinishClient, Struct, Handling
<1> QED
  BY <1>2, <1>3, <1>4

LEMMA EndBatchInv == Struct /\ EndBatch => Struct'
BY KeepOpen DEF EndBatch, Struct, Handling

LEMMA DrainPendingCloseInv == Struct /\ DrainPendingClose => Struct'
<1> SUFFICES ASSUME Struct, DrainPendingClose
             PROVE  Struct'
  OBVIOUS
<1>1. CASE pending_close # <<>>
  <2>1. /\ DOMAIN conns' = DOMAIN conns \ {Head(pending_close)}
        /\ pending_close' = Tail(pending_close)
        /\ UNCHANGED <<epoll, pc, batch>>
    BY <1>1 DEF DrainPendingClose, Restrict
  <2>2. Closing'
    BY <1>1, <2>1, DistinctTail, FS_Subset DEF Struct, Closing
  <2> QED
    BY <2>1, <2>2 DEF DrainPendingClose, Struct, Handling
<1>2. CASE pending_close = <<>>
  BY <1>2, KeepOpen DEF DrainPendingClose, Struct, Handling
<1> QED
  BY <1>1, <1>2

LEMMA PeersInv == Struct /\ Peers => Struct'
BY KeepOpen DEF Peers, Connect, PeerSends, PeerReads, PeerShutsDown, PeerResets, PeerStep,
                Struct, Handling, cur, loop

LEMMA StructInit == Init => Struct
<1> SUFFICES ASSUME Init
             PROVE  Struct
  OBVIOUS
<1>1. /\ DOMAIN conns = {} /\ DOMAIN epoll = {}
      /\ pending_close = <<>> /\ batch = <<>> /\ pc = "wait"
  BY DEF Init
<1>2. ToSet(pending_close) = {} /\ Distinct(pending_close)
  BY <1>1 DEF ToSet, Distinct
<1> QED
  BY <1>1, <1>2, FS_EmptySet DEF Struct, Closing, Handling

LEMMA StructNext == Struct /\ [Next]_vars => Struct'
<1> SUFFICES ASSUME Struct, [Next]_vars
             PROVE  Struct'
  OBVIOUS
<1>1. CASE Server
  BY <1>1, EpollWaitInv, AcceptInv, AcceptEndsInv, SkipEventInv, HandleClientInv,
     HandleWriteInv, HandleReadInv, DrainFrameInv, SendFrameInv, FinishClientInv,
     EndBatchInv, DrainPendingCloseInv DEF Server
<1>2. CASE Peers
  BY <1>2, PeersInv
<1>3. CASE UNCHANGED vars
  BY <1>3, KeepOpen DEF vars, loop, Struct, Handling, cur
<1> QED
  BY <1>1, <1>2, <1>3 DEF Next

LEMMA StructAlways == Spec => []Struct
  BY StructInit, StructNext, PTL DEF Spec

(* A connection waits for destruction at most once, exists until then, and *)
(* is not reported by epoll meanwhile: it reports one disconnect and frees *)
(* one fd (core.cpp:308-343).                                              *)
THEOREM ClosedOnlyOnce == Spec => []ClosedOnce
<1>1. Struct => ClosedOnce
  BY DEF Struct, Closing, ClosedOnce, Distinct
<1> QED
  BY <1>1, StructAlways, PTL

(* The reference handle_client holds never dangles, and it never works on  *)
(* a connection that is doomed already (core.cpp:162-175).                 *)
THEOREM ReferenceAlive == Spec => []HandledIsAlive
<1>1. Struct => HandledIsAlive
  BY DEF Struct, Closing, Handling, HandledIsAlive
<1> QED
  BY <1>1, StructAlways, PTL

-----------------------------------------------------------------------------
(* Types *)

UGP == INSTANCE UsersGroupProofs

(* TypeOK in parts.  That the kernel never holds more than TxCap is needed *)
(* for what flush() leaves to be a sequence.                               *)
Conn == [write_buf : Seq(Outbound), peer_closed : BOOLEAN]
Socket == [rx : Seq(Inbound), tx : Seq(Outbound), eof : BOOLEAN, reset : BOOLEAN]

ConnsOK == conns \in [DOMAIN conns -> Conn]
EpollOK == epoll \in [DOMAIN epoll -> SUBSET {"in", "out"}]
SockOK ==
    /\ sock \in [Fd -> Socket]
    /\ \A fd \in Fd : Len(sock[fd].tx) <= TxCap
LoopOK ==
    /\ read_buf \in Seq(Inbound)
    /\ rst \in {"ok", "would_block", "closed", "error"}
    /\ fatal \in BOOLEAN
    /\ send_queue \in Seq([frame : Outbound, to : Fd])
EnvOK ==
    /\ backlog \in Nat
    /\ budget \in [connects : Nat, frames : Nat]
HistoryOK ==
    /\ loginOf \in [Fd -> Uid \cup {NoUser}]
    /\ greeting \in [Fd -> {"none", "sent", "dropped"}]
    /\ owed \in Seq(Login \cup Request)

Data == ConnsOK /\ EpollOK /\ SockOK /\ LoopOK /\ EnvOK /\ HistoryOK

Inv == Struct /\ Data /\ UGP!Inv

LEMMA InvTypes == Inv => TypeOK
BY DEF Inv, Data, Struct, Closing, Handling, ConnsOK, EpollOK, SockOK, LoopOK, EnvOK,
       HistoryOK, Conn, Socket, Event, TypeOK, UG!TypeOK, UGP!Inv, UGP!TypeOK

-----------------------------------------------------------------------------
(* The users group.  Two instances of one module have their own operators. *)

LEMMA SameDelete == \A s, e : UG!delete_device(s, e) = UGP!delete_device(s, e)
BY Zenon DEF UG!delete_device, UGP!delete_device, UG!RemoveFirst, UGP!RemoveFirst,
             UG!RemoveAt, UGP!RemoveAt, UG!SelectInSeq, UGP!SelectInSeq, UG!Min, UGP!Min

LEMMA SameDeleteFd ==
    ASSUME NEW fd
    PROVE  UG!delete_fd(fd) <=> UGP!delete_fd(fd)
BY SameDelete, Zenon
   DEF UG!delete_fd, UGP!delete_fd, UG!DropFd, UGP!DropFd, UG!has_fd, UGP!has_fd,
       UG!online, UGP!online, UG!vars, UGP!vars, UG!Restrict, UGP!Restrict

LEMMA SameRegister ==
    ASSUME NEW uid, NEW fd
    PROVE  UG!register_user(uid, fd) <=> UGP!register_user(uid, fd)
BY DEF UG!register_user, UGP!register_user, UG!RegisterResult, UGP!RegisterResult,
       UG!AddFd, UGP!AddFd, UG!has_fd, UGP!has_fd, UG!query_all, UGP!query_all,
       UG!online, UGP!online, UG!vars, UGP!vars

LEMMA InboundFields ==
    ASSUME NEW in \in Inbound
    PROVE  /\ in.op = "login" => in \in Login
           /\ in.op = "request" => in \in Request
           /\ in.op = "ack" => in \in Ack
BY DEF Inbound, Login, Request, Ack, Response, Garbled

LEMMA HeadInbound ==
    ASSUME LoopOK, read_buf # <<>>
    PROVE  Head(read_buf) \in Inbound /\ Tail(read_buf) \in Seq(Inbound)
BY HeadTailProperties DEF LoopOK

(* A step of the server that touches the tables is one operation of the    *)
(* users group on a user and an fd that exist.                             *)
LEMMA TablesStep == Struct /\ LoopOK /\ [Next]_vars => [UG!Next]_tables
<1> SUFFICES ASSUME Struct, LoopOK, Next, ~ UNCHANGED tables
             PROVE  UG!Next
  BY DEF vars
<1>1. CASE DrainFrame
  <2> DEFINE in == Head(read_buf)
  <2>1. process(cur, in) /\ read_buf # <<>> /\ cur \in Fd
    BY <1>1 DEF DrainFrame, Struct, Closing, Handling
  <2>2. in.op = "login" /\ UG!register_user(in.uid, cur)
    BY <2>1 DEF process, tables
  <2>3. in.uid \in Uid
    BY <2>1, <2>2, HeadInbound, InboundFields DEF Login
  <2> QED
    BY <2>1, <2>2, <2>3 DEF UG!Next
<1>2. CASE DrainPendingClose
  <2>1. pending_close # <<>> /\ UG!delete_fd(Head(pending_close))
    BY <1>2 DEF DrainPendingClose, delete_fd
  <2>2. Head(pending_close) \in Fd
    BY <2>1, HeadTailProperties DEF Struct, Closing
  <2> QED
    BY <2>1, <2>2 DEF UG!Next
<1>3. CASE Peers
  BY <1>3 DEF Peers, Connect, PeerSends, PeerReads, PeerShutsDown, PeerResets, PeerStep
<1>4. CASE Server /\ ~ DrainFrame /\ ~ DrainPendingClose
  BY <1>4 DEF Server, EpollWait, Accept, AcceptEnds, SkipEvent, HandleClient,
              HandleWrite, HandleRead, SendFrame, FinishClient, EndBatch
<1> QED
  BY <1>1, <1>2, <1>3, <1>4 DEF Next

LEMMA TablesInv == UGP!Inv /\ [UG!Next]_tables => UGP!Inv'
<1> SUFFICES ASSUME UGP!Inv, [UG!Next]_tables
             PROVE  UGP!Inv'
  OBVIOUS
<1>1. UG!Next => UGP!Next
  BY SameRegister, SameDeleteFd DEF UG!Next, UGP!Next
<1>2. UNCHANGED tables => UNCHANGED UGP!vars
  BY DEF tables, UGP!vars
<1> QED
  BY <1>1, <1>2, UGP!NextInv

-----------------------------------------------------------------------------
(* The data of connections and sockets *)

LEMMA MinOfTwo ==
    ASSUME NEW a \in Int, NEW b \in Int
    PROVE  Min({a, b}) = IF a <= b THEN a ELSE b
<1> DEFINE m == IF a <= b THEN a ELSE b
<1>1. m \in {a, b} /\ \A y \in {a, b} : m =< y
  OBVIOUS
<1>2. \A x \in {a, b} : (\A y \in {a, b} : x =< y) => x = m
  OBVIOUS
<1> QED
  BY <1>1, <1>2 DEF Min

LEMMA MinBelowBoth ==
    ASSUME NEW a \in Nat, NEW b \in Nat
    PROVE  Min({a, b}) \in 0..a /\ Min({a, b}) <= b
BY MinOfTwo

LEMMA CutSeq ==
    ASSUME NEW Elem, NEW s \in Seq(Elem), NEW n \in 0..Len(s)
    PROVE  /\ SubSeq(s, 1, n) \in Seq(Elem) /\ Len(SubSeq(s, 1, n)) = n
           /\ SubSeq(s, n + 1, Len(s)) \in Seq(Elem)
<1>1. \A i \in 1..Len(s) : s[i] \in Elem
  BY ElementOfSeq
<1> QED
  BY <1>1, SubSeqProperties

(* What flush() takes fits into the kernel, and it keeps the rest. *)
LEMMA FlushOK ==
    ASSUME SockOK, NEW fd \in Fd, NEW buf \in Seq(Outbound)
    PROVE  /\ flush(fd, buf).tx \in Seq(Outbound)
           /\ Len(flush(fd, buf).tx) <= TxCap
           /\ flush(fd, buf).rest \in Seq(Outbound)
<1> DEFINE tx == sock[fd].tx
           n == IF sock[fd].reset THEN 0 ELSE Min({Len(buf), TxCap - Len(tx)})
<1>1. tx \in Seq(Outbound) /\ Len(tx) \in Nat /\ Len(tx) <= TxCap /\ TxCap \in Nat
  BY LimitsAssumption DEF SockOK, Socket
<1>2. n \in 0..Len(buf) /\ n <= TxCap - Len(tx)
  <2>1. Len(buf) \in Nat /\ TxCap - Len(tx) \in Nat
    BY <1>1, LenProperties
  <2> HIDE DEF tx, n
  <2>2. /\ Min({Len(buf), TxCap - Len(tx)}) \in 0..Len(buf)
        /\ Min({Len(buf), TxCap - Len(tx)}) <= TxCap - Len(tx)
    BY <2>1, MinBelowBoth
  <2> QED
    BY <2>1, <2>2 DEF n
<1>3. /\ flush(fd, buf).tx = tx \o SubSeq(buf, 1, n)
      /\ flush(fd, buf).rest = SubSeq(buf, n + 1, Len(buf))
  BY DEF flush
<1> HIDE DEF n, tx
<1> QED
  BY <1>1, <1>2, <1>3, CutSeq, ConcatProperties

LEMMA SendOK ==
    ASSUME SockOK, ConnsOK, NEW fd \in Fd, fd \in DOMAIN conns, NEW frame \in Outbound
    PROVE  /\ send(fd, frame).tx \in Seq(Outbound)
           /\ Len(send(fd, frame).tx) <= TxCap
           /\ send(fd, frame).rest \in Seq(Outbound)
<1>1. conns[fd].write_buf \in Seq(Outbound)
  BY DEF ConnsOK, Conn
<1>2. Append(conns[fd].write_buf, frame) \in Seq(Outbound)
  BY <1>1, AppendProperties
<1>3. sock[fd].tx \in Seq(Outbound) /\ Len(sock[fd].tx) <= TxCap
  BY DEF SockOK, Socket
<1> QED
  BY <1>1, <1>2, <1>3, FlushOK DEF send

LEMMA OnWriteableOK ==
    ASSUME SockOK, ConnsOK, NEW fd \in Fd, fd \in DOMAIN conns
    PROVE  /\ on_writeable(fd).tx \in Seq(Outbound)
           /\ Len(on_writeable(fd).tx) <= TxCap
           /\ on_writeable(fd).rest \in Seq(Outbound)
<1> DEFINE w == flush(fd, conns[fd].write_buf)
<1>1. w.tx \in Seq(Outbound) /\ Len(w.tx) <= TxCap /\ w.rest \in Seq(Outbound)
  BY FlushOK DEF ConnsOK, Conn
<1>2. on_writeable(fd).tx = w.tx /\ on_writeable(fd).rest = w.rest
  BY DEF on_writeable, flush
<1> QED
  BY <1>1, <1>2

LEMMA WrittenOK ==
    ASSUME SockOK, ConnsOK, NEW fd \in Fd, fd \in DOMAIN conns, NEW w,
           w.tx \in Seq(Outbound), Len(w.tx) <= TxCap, w.rest \in Seq(Outbound),
           Written(fd, w)
    PROVE  SockOK' /\ ConnsOK'
<1>1. [sock[fd] EXCEPT !.tx = w.tx] \in Socket
  BY DEF SockOK, Socket
<1>2. sock' = [sock EXCEPT ![fd] = [sock[fd] EXCEPT !.tx = w.tx]]
  BY DEF Written, SockOK
<1>3. [conns[fd] EXCEPT !.write_buf = w.rest] \in Conn
  BY DEF ConnsOK, Conn
<1>4. conns' = [conns EXCEPT ![fd] = [conns[fd] EXCEPT !.write_buf = w.rest]]
  BY DEF Written, ConnsOK
<1>5. SockOK'
  BY <1>1, <1>2 DEF SockOK
<1>6. ConnsOK'
  BY <1>3, <1>4 DEF ConnsOK
<1> QED
  BY <1>5, <1>6

(* epoll after close_client or update_events. *)
LEMMA EpollStep ==
    ASSUME EpollOK, NEW fd,
           \/ UNCHANGED epoll
           \/ close_client(fd)
           \/ \E mask \in SUBSET {"in", "out"} : epoll' = [epoll EXCEPT ![fd] = mask]
    PROVE  EpollOK'
BY DEF EpollOK, close_client, Restrict

-----------------------------------------------------------------------------
(* Each step keeps the types *)

LEMMA SameDataOK ==
    ASSUME Data
    PROVE  /\ UNCHANGED conns => ConnsOK'
           /\ UNCHANGED epoll => EpollOK'
           /\ UNCHANGED sock => SockOK'
           /\ UNCHANGED <<read_buf, rst, fatal, send_queue>> => LoopOK'
           /\ UNCHANGED <<backlog, budget>> => EnvOK'
           /\ UNCHANGED history => HistoryOK'
BY DEF Data, ConnsOK, EpollOK, SockOK, LoopOK, EnvOK, HistoryOK, history

LEMMA SocketsKept ==
    ASSUME SockOK, NEW fd \in Fd, NEW s \in Socket, Len(s.tx) <= TxCap,
           sock' = [sock EXCEPT ![fd] = s]
    PROVE  SockOK'
BY DEF SockOK

LEMMA NewSocketOK == NewSocket \in Socket /\ Len(NewSocket.tx) <= TxCap
<1>1. <<>> \in Seq(Inbound) /\ <<>> \in Seq(Outbound) /\ Len(<<>>) = 0
  BY EmptySeq
<1> QED
  BY <1>1, LimitsAssumption DEF NewSocket, Socket

LEMMA MaskOK == \A conn : MaskOf(conn) \in SUBSET {"in", "out"}
BY DEF MaskOf

LEMMA UpdateEventsOK ==
    ASSUME EpollOK, NEW fd, NEW conn, update_events(fd, conn)
    PROVE  EpollOK'
BY EpollStep, MaskOK DEF update_events

LEMMA AcceptData == Struct /\ Data /\ Accept => Data'
<1> SUFFICES ASSUME Struct, Data, Accept
             PROVE  Data'
  OBVIOUS
<1>1. PICK fd \in Fd \ DOMAIN conns :
         /\ conns' = [f \in DOMAIN conns \cup {fd} |->
                         IF f = fd THEN NewConnection ELSE conns[f]]
         /\ Watch(fd)
         /\ sock' = [sock EXCEPT ![fd] = NewSocket]
  BY DEF Accept
<1>2. NewConnection \in Conn
  BY EmptySeq DEF NewConnection, Conn
<1>3. ConnsOK'
  BY <1>1, <1>2 DEF Data, ConnsOK
<1>4. EpollOK'
  BY <1>1 DEF Watch, Data, EpollOK
<1>5. SockOK'
  BY <1>1, NewSocketOK, SocketsKept DEF Data
<1>6. EnvOK'
  BY DEF Accept, Data, EnvOK
<1> QED
  BY <1>3, <1>4, <1>5, <1>6, SameDataOK DEF Accept, loop, Data

LEMMA QuietData ==
    Struct /\ Data /\ (EpollWait \/ AcceptEnds \/ SkipEvent \/ EndBatch) => Data'
<1> SUFFICES ASSUME Struct, Data, EpollWait \/ AcceptEnds \/ SkipEvent \/ EndBatch
             PROVE  Data'
  OBVIOUS
<1>1. CASE AcceptEnds
  <2>1. EnvOK'
    BY <1>1 DEF AcceptEnds, Data, EnvOK
  <2> QED
    BY <1>1, <2>1, SameDataOK DEF AcceptEnds, Data
<1>2. CASE ~ AcceptEnds
  BY <1>2, SameDataOK DEF EpollWait, SkipEvent, EndBatch, Data
<1> QED
  BY <1>1, <1>2

LEMMA HandleClientData == Struct /\ Data /\ HandleClient => Data'
<1> SUFFICES ASSUME Struct, Data, HandleClient
             PROVE  Data'
  OBVIOUS
<1>1. EpollOK'
  BY EpollStep DEF HandleClient, Data
<1> QED
  BY <1>1, SameDataOK DEF HandleClient, Data

LEMMA HandleWriteData == Struct /\ Data /\ HandleWrite => Data'
<1> SUFFICES ASSUME Struct, Data, HandleWrite
             PROVE  Data'
  OBVIOUS
<1>1. cur \in Fd /\ cur \in DOMAIN conns
  BY DEF HandleWrite, Struct, Closing, Handling
<1>2. SockOK' /\ ConnsOK'
  BY <1>1, OnWriteableOK, WrittenOK DEF HandleWrite, Data
<1>3. EpollOK'
  BY EpollStep, UpdateEventsOK DEF HandleWrite, Data
<1> QED
  BY <1>2, <1>3, SameDataOK DEF HandleWrite, Data

LEMMA HandleReadData == Struct /\ Data /\ HandleRead => Data'
<1> SUFFICES ASSUME Struct, Data, HandleRead
             PROVE  Data'
  OBVIOUS
<1> DEFINE rx == sock[cur].rx
           n == Min({ReadCap, Len(rx)})
           rest == SubSeq(rx, n + 1, Len(rx))
<1>1. cur \in Fd /\ cur \in DOMAIN conns
  BY DEF HandleRead, Struct, Closing, Handling
<1>2. rx \in Seq(Inbound) /\ Len(rx) \in Nat
  BY <1>1 DEF Data, SockOK, Socket
<1>3. n \in 0..Len(rx)
  <2> HIDE DEF rx
  <2>1. ReadCap \in Nat
    BY LimitsAssumption
  <2>2. {ReadCap, Len(rx)} = {Len(rx), ReadCap}
    OBVIOUS
  <2> QED
    BY <1>2, <2>1, <2>2, MinBelowBoth
<1>4. /\ read_buf' = SubSeq(rx, 1, n)
      /\ sock' = [sock EXCEPT ![cur].rx = rest]
      /\ conns' = [conns EXCEPT ![cur].peer_closed = @ \/ rst' = "closed"]
      /\ rst' \in {"ok", "error", "closed", "would_block"}
      /\ UNCHANGED <<fatal, send_queue>>
  BY DEF HandleRead
<1> HIDE DEF n
<1>5. read_buf' \in Seq(Inbound) /\ rest \in Seq(Inbound)
  BY <1>2, <1>3, <1>4, CutSeq
<1>6. LoopOK'
  BY <1>4, <1>5 DEF Data, LoopOK
<1> HIDE DEF rest, rx
<1>7. SockOK'
  <2> DEFINE s == [sock[cur] EXCEPT !.rx = rest]
  <2>1. s \in Socket /\ s.tx = sock[cur].tx
    BY <1>1, <1>5 DEF Data, SockOK, Socket
  <2>2. sock' = [sock EXCEPT ![cur] = s]
    BY <1>1, <1>4 DEF Data, SockOK
  <2> HIDE DEF s
  <2> QED
    BY <1>1, <2>1, <2>2, SocketsKept DEF Data, SockOK
<1>8. ConnsOK'
  <2>1. conns[cur].peer_closed \in BOOLEAN
    BY <1>1 DEF Data, ConnsOK, Conn
  <2> DEFINE closed == conns[cur].peer_closed \/ rst' = "closed"
             c == [conns[cur] EXCEPT !.peer_closed = closed]
  <2>2. closed \in BOOLEAN
    BY <2>1
  <2> HIDE DEF closed
  <2>3. c \in Conn
    BY <1>1, <2>2 DEF Data, ConnsOK, Conn
  <2>4. conns' = [conns EXCEPT ![cur] = c]
    BY <1>1, <1>4 DEF Data, ConnsOK, closed
  <2> HIDE DEF c
  <2> QED
    BY <1>1, <2>3, <2>4 DEF Data, ConnsOK
<1> QED
  BY <1>6, <1>7, <1>8, SameDataOK DEF HandleRead, Data

(* What process() answers: every item is addressed to a connection.        *)
LEMMA QueueOK ==
    ASSUME UGP!Inv, NEW fd \in Fd, NEW in \in Inbound, Decodable(in)
    PROVE  out_queue(fd, in) \in Seq([frame : Outbound, to : Fd])
<1> DEFINE Entry == [frame : Outbound, to : Fd]
<1>1. ASSUME NEW ok PROVE StatusOf(ok) \in {"ok", "fail"}
  BY DEF StatusOf
<1>2. ASSUME NEW frame \in Outbound, NEW to \in Fd
      PROVE  Item(frame, to) \in Entry
  BY DEF Item
<1> HIDE DEF Entry
<1>3. CASE in.op = "login"
  <2>1. assemble_login_result(in, StatusOf(login_ok(fd, in))) \in Outbound
    BY <1>1, <1>3, InboundFields DEF assemble_login_result, Outbound, Reply
  <2>2. out_queue(fd, in)
          = <<Item(assemble_login_result(in, StatusOf(login_ok(fd, in))), fd)>>
    BY <1>3 DEF out_queue
  <2> HIDE DEF out_queue
  <2> QED
    BY <1>2, <2>1, <2>2 DEF Entry
<1>4. CASE in.op = "ack" /\ UG!has_fd(fd)
  <2>1. assemble_ack(in) \in Outbound
    BY <1>4, InboundFields DEF assemble_ack, Outbound, AckReply
  <2>2. out_queue(fd, in) = <<Item(assemble_ack(in), fd)>>
    BY <1>4 DEF out_queue
  <2> QED
    BY <1>2, <2>1, <2>2 DEF Entry
<1>5. CASE in.op = "request" /\ UG!has_fd(fd)
  <2>1. UG!query_all(in.uid) \in Seq(Fd)
    BY EmptySeq DEF UG!query_all, UG!online, UGP!Inv, UGP!TypeOK
  <2>2. in \in Outbound
    BY <1>5, InboundFields DEF Outbound
  <2>3. forwards(in) \in Seq(Entry)
    <3> DEFINE fds == UG!query_all(in.uid)
    <3>1. Len(fds) \in Nat /\ \A i \in 1..Len(fds) : fds[i] \in Fd
      BY <2>1, ElementOfSeq
    <3>2. forwards(in) = [i \in 1..Len(fds) |-> Item(in, fds[i])]
      BY DEF forwards
    <3> HIDE DEF fds
    <3>3. [i \in 1..Len(fds) |-> Item(in, fds[i])] \in [1..Len(fds) -> Entry]
      BY <1>2, <2>2, <3>1
    <3> QED
      BY <3>1, <3>2, <3>3, IsASeq
  <2>4. assemble_response(in, StatusOf(UG!online(in.uid))) \in Outbound
    BY <1>1, <1>5, InboundFields DEF assemble_response, Outbound, Reply
  <2>5. out_queue(fd, in)
          = Append(forwards(in), Item(assemble_response(in, StatusOf(UG!online(in.uid))), fd))
    BY <1>5 DEF out_queue
  <2> QED
    BY <1>2, <2>3, <2>4, <2>5, AppendProperties DEF Entry
<1>6. CASE /\ in.op # "login"
           /\ ~ (in.op = "ack" /\ UG!has_fd(fd))
           /\ ~ (in.op = "request" /\ UG!has_fd(fd))
  <2>1. out_queue(fd, in) = <<>>
    BY <1>6 DEF out_queue
  <2> QED
    BY <2>1, EmptySeq
<1> QED
  BY <1>3, <1>4, <1>5, <1>6

LEMMA DrainFrameData == Struct /\ Data /\ UGP!Inv /\ DrainFrame => Data'
<1> SUFFICES ASSUME Struct, Data, UGP!Inv, DrainFrame
             PROVE  Data'
  OBVIOUS
<1> DEFINE in == Head(read_buf)
<1>1. /\ UNCHANGED <<conns, epoll, rst, sock, backlog, budget, greeting>>
      /\ cur \in Fd
      /\ in \in Inbound /\ Tail(read_buf) \in Seq(Inbound)
  BY HeadInbound DEF DrainFrame, Data, Struct, Closing, Handling, history
<1>2. CASE fatal' = TRUE /\ UNCHANGED <<read_buf, send_queue, history>>
  <2>1. LoopOK'
    BY <1>1, <1>2 DEF Data, LoopOK
  <2> QED
    BY <1>1, <1>2, <2>1, SameDataOK DEF Data
<1>3. CASE Decodable(in)
  <2>1. /\ read_buf' = Tail(read_buf)
        /\ send_queue' = out_queue(cur, in)
        /\ loginOf' \in {loginOf, [loginOf EXCEPT ![cur] = in.uid]}
        /\ loginOf' # loginOf => in.op = "login"
        /\ \/ owed' = <<>>
           \/ owed' = <<in>> /\ in.op \in {"login", "request"}
        /\ UNCHANGED fatal
    BY <1>3 DEF DrainFrame
  <2>2. LoopOK'
    BY <1>1, <1>3, <2>1, QueueOK DEF Data, LoopOK
  <2>3. loginOf' \in [Fd -> Uid \cup {NoUser}]
    BY <1>1, <2>1, InboundFields DEF Data, HistoryOK, Login
  <2>4. owed' \in Seq(Login \cup Request)
    <3>1. <<>> \in Seq(Login \cup Request)
      BY EmptySeq
    <3>2. CASE owed' = <<in>> /\ in \in Login \cup Request
      BY <3>2
    <3> QED
      BY <1>1, <2>1, <3>1, <3>2, InboundFields
  <2>5. HistoryOK'
    BY <1>1, <2>3, <2>4 DEF Data, HistoryOK
  <2> QED
    BY <1>1, <2>2, <2>5, SameDataOK DEF Data
<1> QED
  BY <1>2, <1>3 DEF DrainFrame

LEMMA SendFrameData == Struct /\ Data /\ SendFrame => Data'
<1> SUFFICES ASSUME Struct, Data, SendFrame
             PROVE  Data'
  OBVIOUS
<1> DEFINE item == Head(send_queue)
           w == send(item.to, item.frame)
<1>1. /\ item.to \in Fd /\ item.frame \in Outbound
      /\ Tail(send_queue) \in Seq([frame : Outbound, to : Fd])
  <2>1. item \in [frame : Outbound, to : Fd]
    BY HeadTailProperties DEF SendFrame, Data, LoopOK
  <2> QED
    BY <2>1, HeadTailProperties DEF SendFrame, Data, LoopOK
<1>2. SockOK' /\ ConnsOK'
  <2>1. CASE UNCHANGED <<conns, sock>>
    BY <2>1, SameDataOK
  <2>2. CASE ~ Undeliverable(item) /\ Written(item.to, w)
    <3>1. item.to \in DOMAIN conns
      BY <2>2 DEF Undeliverable
    <3> QED
      BY <1>1, <2>2, <3>1, SendOK, WrittenOK DEF Data
  <2> QED
    BY <2>1, <2>2 DEF SendFrame
<1>3. EpollOK'
  <2>1. \/ UNCHANGED epoll
        \/ close_client(item.to)
        \/ update_events(item.to, conns'[item.to])
    BY DEF SendFrame, Rearm, SendFailed
  <2> QED
    BY <2>1, EpollStep, UpdateEventsOK DEF Data
<1>4. LoopOK'
  <2>1. /\ send_queue' \in {Tail(send_queue), <<>>}
        /\ fatal' \in {TRUE, fatal}
        /\ UNCHANGED <<read_buf, rst>>
    BY DEF SendFrame, SendFailed
  <2>2. <<>> \in Seq([frame : Outbound, to : Fd])
    BY EmptySeq
  <2> QED
    BY <1>1, <2>1, <2>2 DEF Data, LoopOK
<1>5. HistoryOK'
  <2>1. /\ greeting' \in {greeting, [greeting EXCEPT ![item.to] = "sent"],
                          [greeting EXCEPT ![item.to] = "dropped"]}
        /\ owed' \in {owed, <<>>}
        /\ UNCHANGED loginOf
    BY DEF SendFrame, Accepted, Dropped
  <2>2. <<>> \in Seq(Login \cup Request)
    BY EmptySeq
  <2> QED
    BY <1>1, <2>1, <2>2 DEF Data, HistoryOK
<1>6. EnvOK'
  BY SameDataOK DEF SendFrame
<1> QED
  BY <1>2, <1>3, <1>4, <1>5, <1>6 DEF Data

LEMMA FinishClientData == Struct /\ Data /\ FinishClient => Data'
<1> SUFFICES ASSUME Struct, Data, FinishClient
             PROVE  Data'
  OBVIOUS
<1>1. EpollOK'
  BY EpollStep, UpdateEventsOK DEF FinishClient, Data
<1>2. <<>> \in Seq(Inbound) /\ <<>> \in Seq(Login \cup Request)
  BY EmptySeq
<1>3. LoopOK' /\ HistoryOK'
  BY <1>2 DEF FinishClient, Data, LoopOK, HistoryOK
<1> QED
  BY <1>1, <1>3, SameDataOK DEF FinishClient, Data

LEMMA DrainPendingCloseData == Struct /\ Data /\ DrainPendingClose => Data'
<1> SUFFICES ASSUME Struct, Data, DrainPendingClose
             PROVE  Data'
  OBVIOUS
<1>1. CASE pending_close # <<>>
  <2> DEFINE fd == Head(pending_close)
  <2>1. fd \in Fd
    BY <1>1, HeadTailProperties DEF Struct, Closing
  <2>2. /\ conns' = Restrict(conns, DOMAIN conns \ {fd})
        /\ sock' = [sock EXCEPT ![fd] = NewSocket]
        /\ loginOf' = [loginOf EXCEPT ![fd] = NoUser]
        /\ greeting' = [greeting EXCEPT ![fd] = "none"]
        /\ UNCHANGED <<epoll, read_buf, rst, fatal, send_queue, backlog, budget, owed>>
    BY <1>1 DEF DrainPendingClose
  <2> HIDE DEF fd
  <2>3. ConnsOK'
    BY <2>2 DEF Data, ConnsOK, Restrict
  <2>4. SockOK'
    BY <2>1, <2>2, NewSocketOK, SocketsKept DEF Data
  <2>5. HistoryOK'
    BY <2>1, <2>2 DEF Data, HistoryOK
  <2> QED
    BY <2>2, <2>3, <2>4, <2>5, SameDataOK DEF Data
<1>2. CASE pending_close = <<>>
  BY <1>2, SameDataOK DEF DrainPendingClose, Data, history
<1> QED
  BY <1>1, <1>2

LEMMA PeersData == Struct /\ Data /\ Peers => Data'
<1> SUFFICES ASSUME Struct, Data, Peers
             PROVE  Data'
  OBVIOUS
<1>1. /\ UNCHANGED <<conns, epoll, read_buf, rst, fatal, send_queue, history>>
  BY DEF Peers, Connect, PeerSends, PeerReads, PeerShutsDown, PeerResets, PeerStep, loop
<1>2. EnvOK'
  <2>1. /\ backlog' \in {backlog, backlog + 1}
        /\ \/ UNCHANGED budget
           \/ /\ budget.connects > 0
              /\ budget' = [budget EXCEPT !.connects = @ - 1]
           \/ /\ budget.frames > 0
              /\ budget' = [budget EXCEPT !.frames = @ - 1]
    BY DEF Peers, Connect, PeerSends, PeerReads, PeerShutsDown, PeerResets, PeerStep
  <2> QED
    BY <2>1 DEF Data, EnvOK
<1>3. ASSUME NEW fd \in Fd, fd \in DOMAIN conns,
             PeerSends(fd) \/ PeerReads(fd) \/ PeerShutsDown(fd) \/ PeerResets(fd)
      PROVE  SockOK'
  <2> DEFINE s == sock[fd]
  <2>1. s \in Socket /\ Len(s.tx) <= TxCap
    BY DEF Data, SockOK
  <2>2. CASE PeerSends(fd)
    <3>1. PICK frame \in PeerFrames : sock' = [sock EXCEPT ![fd].rx = Append(@, frame)]
      BY <2>2 DEF PeerSends
    <3>2. Append(s.rx, frame) \in Seq(Inbound)
      <4>1. s.rx \in Seq(Inbound) /\ frame \in Inbound
        BY <2>1, LimitsAssumption DEF Socket
      <4> QED
        BY <4>1, AppendProperties
    <3> DEFINE t == [s EXCEPT !.rx = Append(s.rx, frame)]
    <3>3. t \in Socket /\ t.tx = s.tx
      BY <2>1, <3>2 DEF Socket
    <3>4. sock' = [sock EXCEPT ![fd] = t]
      BY <3>1 DEF Data, SockOK
    <3> HIDE DEF t
    <3> QED
      BY <2>1, <3>3, <3>4, SocketsKept DEF Data
  <2>3. CASE PeerReads(fd)
    <3>1. s.tx # <<>> /\ sock' = [sock EXCEPT ![fd].tx = Tail(@)]
      BY <2>3 DEF PeerReads
    <3>2. Tail(s.tx) \in Seq(Outbound) /\ Len(Tail(s.tx)) <= TxCap
      <4>1. s.tx \in Seq(Outbound) /\ s.tx # <<>> /\ Len(s.tx) \in Nat /\ TxCap \in Nat
        BY <2>1, <3>1, LimitsAssumption, LenProperties DEF Socket
      <4>2. Tail(s.tx) \in Seq(Outbound) /\ Len(Tail(s.tx)) = Len(s.tx) - 1
        BY <4>1, HeadTailProperties
      <4> QED
        BY <2>1, <4>1, <4>2
    <3> DEFINE t == [s EXCEPT !.tx = Tail(s.tx)]
    <3>3. t \in Socket /\ Len(t.tx) <= TxCap
      BY <2>1, <3>2 DEF Socket
    <3>4. sock' = [sock EXCEPT ![fd] = t]
      BY <3>1 DEF Data, SockOK
    <3> HIDE DEF t
    <3> QED
      BY <3>3, <3>4, SocketsKept DEF Data
  <2>4. CASE PeerShutsDown(fd)
    <3> DEFINE t == [s EXCEPT !.eof = TRUE]
    <3>1. t \in Socket /\ t.tx = s.tx
      BY <2>1 DEF Socket
    <3>2. sock' = [sock EXCEPT ![fd] = t]
      BY <2>4 DEF PeerShutsDown, Data, SockOK
    <3> HIDE DEF t
    <3> QED
      BY <2>1, <3>1, <3>2, SocketsKept DEF Data
  <2>5. CASE PeerResets(fd)
    <3> DEFINE t == [s EXCEPT !.reset = TRUE, !.tx = <<>>]
    <3>1. <<>> \in Seq(Outbound) /\ Len(<<>>) <= TxCap
      BY LimitsAssumption, EmptySeq
    <3>2. t \in Socket /\ t.tx = <<>>
      BY <2>1, <3>1 DEF Socket
    <3>3. sock' = [sock EXCEPT ![fd] = t]
      BY <2>5 DEF PeerResets, Data, SockOK
    <3> HIDE DEF t
    <3> QED
      BY <3>1, <3>2, <3>3, SocketsKept DEF Data
  <2> QED
    BY <1>3, <2>2, <2>3, <2>4, <2>5
<1>4. SockOK'
  <2>1. CASE Connect
    BY <2>1, SameDataOK DEF Connect
  <2> QED
    BY <1>3, <2>1 DEF Peers, PeerSends, PeerReads, PeerShutsDown, PeerResets, PeerStep
<1> QED
  BY <1>1, <1>2, <1>4, SameDataOK DEF Data

-----------------------------------------------------------------------------
LEMMA InvInit == Init => Inv
<1> SUFFICES ASSUME Init
             PROVE  Inv
  OBVIOUS
<1>1. /\ <<>> \in Seq(Inbound) /\ <<>> \in Seq([frame : Outbound, to : Fd])
      /\ <<>> \in Seq(Login \cup Request)
  BY EmptySeq
<1>2. ConnsOK /\ EpollOK /\ LoopOK /\ HistoryOK
  BY <1>1 DEF Init, ConnsOK, EpollOK, LoopOK, HistoryOK
<1>3. EnvOK
  BY LimitsAssumption DEF Init, EnvOK
<1>4. SockOK
  BY NewSocketOK DEF Init, SockOK
<1>5. UGP!Init
  BY DEF Init, UG!Init, UGP!Init
<1> QED
  BY <1>2, <1>3, <1>4, <1>5, UGP!InitInv, StructInit DEF Inv, Data

LEMMA InvNext == Inv /\ [Next]_vars => Inv'
<1> SUFFICES ASSUME Inv, [Next]_vars
             PROVE  Inv'
  OBVIOUS
<1> USE DEF Inv
<1>1. Struct'
  BY StructNext
<1>2. UGP!Inv'
  BY TablesStep, TablesInv DEF Data
<1>3. Data'
  <2>1. CASE Server
    BY <2>1, QuietData, AcceptData, HandleClientData, HandleWriteData, HandleReadData,
       DrainFrameData, SendFrameData, FinishClientData, DrainPendingCloseData DEF Server
  <2>2. CASE Peers
    BY <2>2, PeersData
  <2>3. CASE UNCHANGED vars
    BY <2>3, SameDataOK DEF vars, loop, Data
  <2> QED
    BY <2>1, <2>2, <2>3 DEF Next
<1> QED
  BY <1>1, <1>2, <1>3

LEMMA InvAlways == Spec => []Inv
  BY InvInit, InvNext, PTL DEF Spec

(* Every part of the server's state keeps its type; in particular every    *)
(* frame the coordination layer answers with is a frame the server may     *)
(* send, addressed to a connection (controller.cpp:28-130).                *)
THEOREM TypeCorrect == Spec => []TypeOK
  BY InvTypes, InvAlways, PTL

-----------------------------------------------------------------------------
(* Bindings.  loginOf is reset when a connection is destroyed, fd_to_uid   *)
(* by the disconnect that is reported then: that the two agree on every fd *)
(* (Bound) is inductive with Inv.                                          *)

Bound ==
    /\ BindingsAreCurrent
    /\ \A fd \in Fd \ DOMAIN fd_to_uid : loginOf[fd] = NoUser

LEMMA DrainFrameBound == Inv /\ Bound /\ DrainFrame => Bound'
<1> SUFFICES ASSUME Inv, Bound, DrainFrame
             PROVE  Bound'
  OBVIOUS
<1> DEFINE in == Head(read_buf)
<1>1. cur \in Fd /\ cur \in DOMAIN conns /\ UNCHANGED conns
  BY DEF DrainFrame, Inv, Struct, Closing, Handling
<1>2. loginOf \in [Fd -> Uid \cup {NoUser}] /\ fd_to_uid \in [DOMAIN fd_to_uid -> Uid]
  BY DEF Inv, Data, HistoryOK, UGP!Inv, UGP!TypeOK
<1>3. CASE UNCHANGED <<fd_to_uid, loginOf>>
  BY <1>1, <1>3 DEF Bound, BindingsAreCurrent
<1>4. CASE in.op = "login" /\ auth(in) /\ UG!register_user(in.uid, cur)
  <2>1. in.uid \in Uid
    BY <1>4, HeadInbound, InboundFields DEF DrainFrame, Inv, Data, Login
  <2>2. /\ loginOf[cur] = NoUser <=> cur \notin DOMAIN fd_to_uid
        /\ loginOf' = IF loginOf[cur] = NoUser
                      THEN [loginOf EXCEPT ![cur] = in.uid] ELSE loginOf
    <3>1. loginOf[cur] = NoUser <=> cur \notin DOMAIN fd_to_uid
      BY <1>1, <1>2, FreshAssumption DEF Bound, BindingsAreCurrent
    <3>2. CASE Decodable(in)
      BY <1>4, <3>1, <3>2 DEF DrainFrame
    <3>3. CASE ~ Decodable(in)
      BY <1>4, <3>3 DEF Decodable, Garbled
    <3> QED
      BY <3>1, <3>2, <3>3
  <2>3. CASE cur \in DOMAIN fd_to_uid
    <3>1. UNCHANGED fd_to_uid
      BY <1>4, <2>3 DEF UG!register_user, UG!RegisterResult, UG!has_fd, UG!vars
    <3> QED
      BY <1>3, <2>2, <2>3, <3>1
  <2>4. CASE cur \notin DOMAIN fd_to_uid
    <3>1. fd_to_uid' = [f \in DOMAIN fd_to_uid \cup {cur} |->
                           IF f \in DOMAIN fd_to_uid THEN fd_to_uid[f] ELSE in.uid]
      BY <1>4, <2>4 DEF UG!register_user, UG!RegisterResult, UG!has_fd, UG!AddFd
    <3> QED
      BY <1>1, <1>2, <2>2, <2>4, <3>1 DEF Bound, BindingsAreCurrent
  <2> QED
    BY <2>3, <2>4
<1> QED
  BY <1>3, <1>4 DEF DrainFrame, process, tables, history

LEMMA DrainPendingCloseBound == Inv /\ Bound /\ DrainPendingClose => Bound'
<1> SUFFICES ASSUME Inv, Bound, DrainPendingClose
             PROVE  Bound'
  OBVIOUS
<1>1. CASE UNCHANGED <<conns, tables, loginOf>>
  BY <1>1 DEF tables, Bound, BindingsAreCurrent
<1>2. CASE pending_close # <<>>
  <2> DEFINE fd == Head(pending_close)
  <2>1. fd \in Fd
    BY <1>2, HeadTailProperties DEF Inv, Struct, Closing
  <2>2. /\ conns' = Restrict(conns, DOMAIN conns \ {fd})
        /\ UGP!delete_fd(fd)
        /\ loginOf' = [loginOf EXCEPT ![fd] = NoUser]
    BY <1>2, SameDeleteFd DEF DrainPendingClose, delete_fd
  <2> HIDE DEF fd
  <2>3. fd_to_uid' = Restrict(fd_to_uid, DOMAIN fd_to_uid \ {fd})
    <3>1. CASE fd \in DOMAIN fd_to_uid
      <4>1. UGP!has_fd(fd) /\ UGP!online(fd_to_uid[fd])
        BY <3>1 DEF Inv, UGP!Inv, UGP!InvariantsOk, UGP!BackwardExact, UGP!has_fd
      <4> QED
        BY <2>2, <4>1 DEF UGP!delete_fd, UGP!DropFd, UGP!Restrict, Restrict
    <3>2. CASE fd \notin DOMAIN fd_to_uid
      <4>1. UNCHANGED fd_to_uid
        BY <2>2, <3>2 DEF UGP!delete_fd, UGP!has_fd, UGP!vars
      <4>2. fd_to_uid = [f \in DOMAIN fd_to_uid |-> fd_to_uid[f]]
        BY DEF Inv, UGP!Inv, UGP!TypeOK
      <4> QED
        BY <3>2, <4>1, <4>2 DEF Restrict
    <3> QED
      BY <3>1, <3>2
  <2>4. loginOf \in [Fd -> Uid \cup {NoUser}] /\ DOMAIN fd_to_uid \subseteq Fd
    BY DEF Inv, Data, HistoryOK, UGP!Inv, UGP!TypeOK
  <2> QED
    BY <2>1, <2>2, <2>3, <2>4 DEF Bound, BindingsAreCurrent, Restrict
<1> QED
  BY <1>1, <1>2 DEF DrainPendingClose

LEMMA BoundNext == Inv /\ Bound /\ [Next]_vars => Bound'
<1> SUFFICES ASSUME Inv, Bound, [Next]_vars
             PROVE  Bound'
  OBVIOUS
<1>1. CASE DrainFrame \/ DrainPendingClose
  BY <1>1, DrainFrameBound, DrainPendingCloseBound
<1>2. CASE Accept \/ Peers \/ UNCHANGED vars
           \/ (Server /\ ~ DrainFrame /\ ~ DrainPendingClose)
  <2>1. /\ UNCHANGED <<fd_to_uid, loginOf>>
        /\ DOMAIN conns \subseteq DOMAIN conns'
    BY <1>2 DEF Server, EpollWait, Accept, AcceptEnds, SkipEvent, HandleClient,
                HandleWrite, HandleRead, SendFrame, FinishClient, EndBatch, Written,
                Peers, Connect, PeerSends, PeerReads, PeerShutsDown, PeerResets, PeerStep,
                vars, tables, history
  <2> QED
    BY <2>1 DEF Bound, BindingsAreCurrent
<1> QED
  BY <1>1, <1>2 DEF Next

LEMMA BoundInit == Init => Bound
BY DEF Init, UG!Init, Bound, BindingsAreCurrent

(* A binding never outlives its connection: an fd in fd_to_uid is open and *)
(* bound to the user that logged in since it was accepted, however often   *)
(* the kernel gives the number out again (main.cpp:33, core.cpp:309-311).  *)
THEOREM BindingsCurrent == Spec => []BindingsAreCurrent
<1>1. Bound => BindingsAreCurrent
  BY DEF Bound
<1>2. Init => Inv /\ Bound
  BY InvInit, BoundInit
<1>3. Inv /\ Bound /\ [Next]_vars => (Inv /\ Bound)'
  BY InvNext, BoundNext
<1> QED
  BY <1>1, <1>2, <1>3, PTL DEF Spec

-----------------------------------------------------------------------------
(* What the event loop owes its connections: none is forgotten by epoll,   *)
(* none is closed for what another one did, and whoever asks is answered   *)
(* or closed.                                                              *)

Busy == pc \in {"write", "read", "drain"}

-----------------------------------------------------------------------------
(* Interest masks.  Between two events every connection that epoll reports *)
(* is watched for what it waits for; the one being handled is re-armed, or *)
(* closed, when that is over.                                              *)

Covers(mask, conn) == MaskOf(conn) \subseteq mask /\ mask # {}

Watching ==
    /\ \A fd \in DOMAIN epoll : (Busy => fd # cur) => Covers(epoll[fd], conns[fd])
    /\ pc = "wait" => pending_close = <<>>

(* Closing or re-arming fd leaves the other masks alone. *)
OthersKept(fd) ==
    \A f \in DOMAIN epoll' \ {fd} : f \in DOMAIN epoll /\ epoll'[f] = epoll[f]

LEMMA CloseKeepsOthers ==
    ASSUME NEW fd, close_client(fd)
    PROVE  OthersKept(fd) /\ fd \notin DOMAIN epoll'
BY DEF close_client, Restrict, OthersKept

LEMMA UpdateCovers ==
    ASSUME NEW fd, update_events(fd, conns'[fd])
    PROVE  OthersKept(fd) /\ (fd \in DOMAIN epoll' => Covers(epoll'[fd], conns'[fd]))
<1>1. CASE MaskOf(conns'[fd]) = {}
  BY <1>1, CloseKeepsOthers DEF update_events
<1>2. CASE MaskOf(conns'[fd]) # {}
  <2>1. epoll' = [epoll EXCEPT ![fd] = MaskOf(conns'[fd])]
    BY <1>2 DEF update_events
  <2>2. fd \in DOMAIN epoll' => epoll'[fd] = MaskOf(conns'[fd])
    BY <2>1
  <2> QED
    BY <1>2, <2>1, <2>2 DEF OthersKept, Covers
<1> QED
  BY <1>1, <1>2

(* The end of handling the current connection. *)
LEMMA HandledThenCovered ==
    ASSUME Watching, Busy, pc' = "dispatch", OthersKept(cur),
           cur \in DOMAIN epoll' => Covers(epoll'[cur], conns'[cur]),
           \A f \in DOMAIN epoll \ {cur} : conns'[f] = conns[f]
    PROVE  Watching'
BY DEF Watching, Busy, OthersKept

LEMMA EmptyFlush ==
    ASSUME NEW fd, NEW buf \in Seq(Outbound), SockOK, fd \in Fd,
           flush(fd, buf).st = "ok"
    PROVE  flush(fd, buf).rest = <<>>
<1> DEFINE n == IF sock[fd].reset THEN 0 ELSE Min({Len(buf), TxCap - Len(sock[fd].tx)})
<1>1. n = Len(buf) /\ flush(fd, buf).rest = SubSeq(buf, n + 1, Len(buf))
  BY DEF flush
<1> HIDE DEF n
<1>2. Len(buf) \in Nat
  OBVIOUS
<1>3. SubSeq(buf, Len(buf) + 1, Len(buf)) = <<>>
  BY <1>2, SubSeqProperties, EmptySeq
<1> QED
  BY <1>1, <1>3

LEMMA SendFrameWatching == Inv /\ Watching /\ SendFrame => Watching'
<1> SUFFICES ASSUME Inv, Watching, SendFrame
             PROVE  Watching'
  OBVIOUS
<1> DEFINE item == Head(send_queue)
           to == item.to
           w == send(to, item.frame)
<1>1. /\ pc = "drain" /\ pc' = "drain" /\ UNCHANGED batch
      /\ Struct /\ Data
  BY DEF SendFrame, Inv
<1>2. to \in Fd /\ item.frame \in Outbound
  <2>1. item \in [frame : Outbound, to : Fd]
    BY HeadTailProperties DEF SendFrame, Inv, Data, LoopOK
  <2> QED
    BY <2>1
<1>3. CASE UNCHANGED <<conns, epoll>>
  BY <1>1, <1>3 DEF Watching, Busy, cur
<1>4. CASE ~ Undeliverable(item) /\ Written(to, w)
  <2>1. /\ to \in DOMAIN conns /\ to \in DOMAIN epoll
        /\ conns' = [conns EXCEPT ![to].write_buf = w.rest]
        /\ conns \in [DOMAIN conns -> Conn]
    BY <1>1, <1>4 DEF Undeliverable, Written, Struct, Closing, Data, ConnsOK
  <2>2. /\ \A f \in DOMAIN epoll \ {to} : conns'[f] = conns[f]
        /\ conns'[to] = [conns[to] EXCEPT !.write_buf = w.rest]
    BY <1>1, <2>1 DEF Struct, Closing
  <2>3. OthersKept(to)
    BY <1>4, CloseKeepsOthers, UpdateCovers
       DEF SendFrame, SendFailed, Rearm, OthersKept
  <2>4. to # cur => (to \in DOMAIN epoll' => Covers(epoll'[to], conns'[to]))
    <3> SUFFICES ASSUME to # cur, to \in DOMAIN epoll'
                 PROVE  Covers(epoll'[to], conns'[to])
      OBVIOUS
    <3>1. CASE w.st \in {"closed", "error"}
      BY <1>4, <3>1, CloseKeepsOthers DEF SendFrame, SendFailed
    <3>2. CASE w.st = "would_block"
      BY <1>4, <3>2, UpdateCovers DEF SendFrame, Rearm
    <3>3. CASE w.st = "ok"
      <4>1. UNCHANGED epoll
        BY <1>4, <3>3 DEF SendFrame, Rearm
      <4>2. w.rest = <<>>
        <5> DEFINE buf == Append(conns[to].write_buf, item.frame)
        <5>1. w = flush(to, buf)
          BY <3>3 DEF send
        <5>2. buf \in Seq(Outbound)
          BY <1>2, <2>1, AppendProperties DEF Conn
        <5> QED
          BY <1>1, <1>2, <3>3, <5>1, <5>2, EmptyFlush DEF Data
      <4>3. MaskOf(conns'[to]) \subseteq MaskOf(conns[to])
        BY <2>1, <2>2, <4>2 DEF MaskOf, want_write, Conn
      <4>4. Covers(epoll[to], conns[to])
        BY <1>1, <2>1 DEF Watching
      <4> QED
        BY <4>1, <4>3, <4>4 DEF Covers
    <3> QED
      BY <1>4, <3>1, <3>2, <3>3 DEF SendFrame
  <2>5. ASSUME NEW f \in DOMAIN epoll', f # cur, f # to
        PROVE  Covers(epoll'[f], conns'[f])
    <3>1. f \in DOMAIN epoll /\ epoll'[f] = epoll[f] /\ conns'[f] = conns[f]
      BY <2>2, <2>3, <2>5 DEF OthersKept
    <3>2. Covers(epoll[f], conns[f])
      BY <1>1, <2>5, <3>1 DEF Watching
    <3> QED
      BY <3>1, <3>2
  <2>6. cur' = cur
    BY <1>1 DEF cur
  <2> QED
    BY <1>1, <2>4, <2>5, <2>6 DEF Watching, Busy
<1> QED
  BY <1>3, <1>4 DEF SendFrame

LEMMA AcceptWatching == Inv /\ Watching /\ Accept => Watching'
<1> SUFFICES ASSUME Inv, Watching, Accept
             PROVE  Watching'
  OBVIOUS
<1>1. PICK fd \in Fd \ DOMAIN conns :
         /\ conns' = [f \in DOMAIN conns \cup {fd} |->
                         IF f = fd THEN NewConnection ELSE conns[f]]
         /\ epoll' = [f \in DOMAIN epoll \cup {fd} |-> IF f = fd THEN {"in"} ELSE epoll[f]]
  BY DEF Accept, Watch
<1>2. pc = "dispatch" /\ pc' = "dispatch" /\ DOMAIN epoll \subseteq DOMAIN conns
  BY DEF Accept, loop, Inv, Struct, Closing
<1>3. Covers(epoll'[fd], conns'[fd])
  BY <1>1 DEF Covers, MaskOf, want_write, NewConnection
<1>4. ASSUME NEW f \in DOMAIN epoll
      PROVE  Covers(epoll'[f], conns'[f])
  BY <1>1, <1>2 DEF Watching, Busy
<1> QED
  BY <1>1, <1>2, <1>3, <1>4 DEF Watching

LEMMA HandleClientWatching == Inv /\ Watching /\ HandleClient => Watching'
<1> SUFFICES ASSUME Inv, Watching, HandleClient
             PROVE  Watching'
  OBVIOUS
<1>1. pc = "dispatch" /\ UNCHANGED conns
  BY DEF HandleClient
<1>2. CASE close_client(cur) /\ NextEvent
  BY <1>1, <1>2, CloseKeepsOthers DEF Watching, Busy, NextEvent, OthersKept
<1>3. CASE pc' \in {"write", "read"} /\ UNCHANGED <<batch, epoll, pending_close>>
  BY <1>1, <1>3 DEF Watching, Busy, cur
<1> QED
  BY <1>2, <1>3 DEF HandleClient

LEMMA HandleWriteWatching == Inv /\ Watching /\ HandleWrite => Watching'
<1> SUFFICES ASSUME Inv, Watching, HandleWrite
             PROVE  Watching'
  OBVIOUS
<1>1. /\ pc = "write" /\ DOMAIN epoll \subseteq DOMAIN conns
      /\ \A f \in DOMAIN epoll \ {cur} : conns'[f] = conns[f]
  BY DEF HandleWrite, Written, Inv, Struct, Closing
<1>2. CASE close_client(cur) /\ NextEvent
  BY <1>1, <1>2, CloseKeepsOthers, HandledThenCovered DEF Busy, NextEvent
<1>3. CASE pc' = "read" /\ UNCHANGED <<batch, epoll, pending_close>>
  BY <1>1, <1>3 DEF Watching, Busy, cur
<1>4. CASE update_events(cur, conns'[cur]) /\ NextEvent
  BY <1>1, <1>4, UpdateCovers, HandledThenCovered DEF Busy, NextEvent
<1> QED
  BY <1>2, <1>3, <1>4 DEF HandleWrite

LEMMA HandleReadWatching == Inv /\ Watching /\ HandleRead => Watching'
<1> SUFFICES ASSUME Inv, Watching, HandleRead
             PROVE  Watching'
  OBVIOUS
<1>1. /\ pc = "read" /\ pc' = "drain" /\ DOMAIN epoll \subseteq DOMAIN conns
      /\ \A f \in DOMAIN epoll \ {cur} : conns'[f] = conns[f]
      /\ UNCHANGED <<batch, epoll, pending_close>>
  BY DEF HandleRead, Inv, Struct, Closing
<1> QED
  BY <1>1 DEF Watching, Busy, cur

LEMMA FinishClientWatching == Inv /\ Watching /\ FinishClient => Watching'
<1> SUFFICES ASSUME Inv, Watching, FinishClient
             PROVE  Watching'
  OBVIOUS
<1>1. pc = "drain" /\ pc' = "dispatch" /\ UNCHANGED conns
  BY DEF FinishClient, NextEvent
<1>2. close_client(cur) \/ update_events(cur, conns'[cur])
  BY <1>1 DEF FinishClient
<1> QED
  BY <1>1, <1>2, CloseKeepsOthers, UpdateCovers, HandledThenCovered DEF Busy

LEMMA DrainPendingCloseWatching == Inv /\ Watching /\ DrainPendingClose => Watching'
<1> SUFFICES ASSUME Inv, Watching, DrainPendingClose
             PROVE  Watching'
  OBVIOUS
<1>1. CASE pending_close # <<>>
  <2>1. /\ conns' = Restrict(conns, DOMAIN conns \ {Head(pending_close)})
        /\ UNCHANGED <<epoll, pc>> /\ pc = "close"
    BY <1>1 DEF DrainPendingClose
  <2>2. Head(pending_close) \notin DOMAIN epoll /\ DOMAIN epoll \subseteq DOMAIN conns
    BY <1>1, DistinctTail DEF Inv, Struct, Closing
  <2>3. \A f \in DOMAIN epoll : conns'[f] = conns[f]
    BY <2>1, <2>2 DEF Restrict
  <2> QED
    BY <2>1, <2>3 DEF Watching, Busy
<1>2. CASE pending_close = <<>>
  BY <1>2 DEF DrainPendingClose, Watching, Busy
<1> QED
  BY <1>1, <1>2

LEMMA WatchingNext == Inv /\ Watching /\ [Next]_vars => Watching'
<1> SUFFICES ASSUME Inv, Watching, [Next]_vars
             PROVE  Watching'
  OBVIOUS
<1>1. CASE EpollWait \/ AcceptEnds \/ SkipEvent \/ EndBatch
  BY <1>1 DEF EpollWait, AcceptEnds, SkipEvent, EndBatch, NextEvent, Watching, Busy
<1>2. CASE DrainFrame \/ Peers \/ UNCHANGED vars
  <2>1. UNCHANGED <<conns, epoll, pending_close, pc, batch>>
    BY <1>2 DEF DrainFrame, Peers, Connect, PeerSends, PeerReads, PeerShutsDown,
                PeerResets, PeerStep, vars, loop
  <2> QED
    BY <2>1 DEF Watching, Busy, cur
<1> QED
  BY <1>1, <1>2, AcceptWatching, HandleClientWatching, HandleWriteWatching,
     HandleReadWatching, SendFrameWatching, FinishClientWatching,
     DrainPendingCloseWatching DEF Next, Server

LEMMA WatchingInit == Init => Watching
BY DEF Init, Watching

LEMMA WatchingSuffices == Inv /\ Watching => NothingStalls
<1> SUFFICES ASSUME Inv, Watching, pc = "wait"
             PROVE  /\ DOMAIN epoll = DOMAIN conns
                    /\ \A fd \in DOMAIN conns : Covers(epoll[fd], conns[fd])
  BY DEF NothingStalls, Covers
<1>1. ToSet(pending_close) = {}
  BY DEF Watching, ToSet
<1> QED
  BY <1>1 DEF Inv, Struct, Closing, Watching, Busy

(* No connection is forgotten by epoll: when the thread goes to sleep it   *)
(* is watched for all it waits for, whichever connection's event last      *)
(* touched its buffer (core.cpp:256-276, 286-306).                         *)
THEOREM NoneForgotten == Spec => []NothingStalls
<1>1. Init => Inv /\ Watching
  BY InvInit, WatchingInit
<1>2. Inv /\ Watching /\ [Next]_vars => (Inv /\ Watching)'
  BY InvNext, WatchingNext
<1> QED
  BY <1>1, <1>2, WatchingSuffices, PTL DEF Spec

-----------------------------------------------------------------------------
(* Replies.  A reply that is owed is in the queue of frames to send, or    *)
(* the connection it is owed to is to be closed.                           *)

ReplyTo(item, asked, fd) ==
    item.to = fd /\ IsReplyTo(item.frame, asked) /\ Encodable(item.frame)

Owing ==
    /\ pc # "drain" => owed = <<>>
    /\ owed # <<>> =>
          fatal \/ \E i \in DOMAIN send_queue : ReplyTo(send_queue[i], owed, cur)

LEMMA DrainFrameOwing == Inv /\ Bound /\ Owing /\ DrainFrame => Owing'
<1> SUFFICES ASSUME Inv, Bound, Owing, DrainFrame
             PROVE  Owing'
  OBVIOUS
<1> DEFINE in == Head(read_buf)
<1>1. /\ pc = "drain" /\ send_queue = <<>> /\ ~ fatal
      /\ UNCHANGED <<pc, batch>> /\ cur \in Fd /\ in \in Inbound
  BY HeadInbound DEF DrainFrame, Inv, Struct, Closing, Handling, Data
<1>2. owed = <<>>
  BY <1>1 DEF Owing
<1>3. cur' = cur
  BY <1>1 DEF cur
<1>4. CASE UNCHANGED owed
  BY <1>1, <1>2, <1>4 DEF Owing
<1>5. CASE /\ owed' = <<in>> /\ in.fits
           /\ send_queue' = out_queue(cur, in)
           /\ \/ in.op = "login"
              \/ in.op = "request" /\ loginOf[cur] # NoUser
  <2> SUFFICES \E i \in DOMAIN out_queue(cur, in) :
                  ReplyTo(out_queue(cur, in)[i], <<in>>, cur)
    BY <1>1, <1>3, <1>5 DEF Owing
  <2>1. ASSUME NEW status
        PROVE  /\ ReplyTo(Item(assemble_login_result(in, status), cur), <<in>>, cur)
               /\ ReplyTo(Item(assemble_response(in, status), cur), <<in>>, cur)
    BY <1>5 DEF ReplyTo, Item, assemble_login_result, assemble_response, IsReplyTo, Encodable
  <2>2. CASE in.op = "login"
    <3> DEFINE r == Item(assemble_login_result(in, StatusOf(login_ok(cur, in))), cur)
    <3>1. out_queue(cur, in) = <<r>>
      BY <2>2 DEF out_queue
    <3>2. ReplyTo(r, <<in>>, cur)
      BY <2>1
    <3> HIDE DEF r
    <3>3. 1 \in DOMAIN <<r>> /\ <<r>>[1] = r
      OBVIOUS
    <3> QED
      BY <3>1, <3>2, <3>3
  <2>3. CASE in.op = "request" /\ loginOf[cur] # NoUser
    <3> DEFINE r == Item(assemble_response(in, StatusOf(UG!online(in.uid))), cur)
               q == forwards(in)
    <3>1. UG!has_fd(cur)
      BY <1>1, <2>3 DEF Bound, UG!has_fd
    <3>2. out_queue(cur, in) = Append(q, r)
      BY <2>3, <3>1 DEF out_queue
    <3>3. ReplyTo(r, <<in>>, cur)
      BY <2>1
    <3>4. PICK Elem : q \in Seq(Elem) /\ r \in Elem
      <4> DEFINE fds == UG!query_all(in.uid)
                 Elem == {Item(in, fds[i]) : i \in 1..Len(fds)} \cup {r}
      <4>1. Len(fds) \in Nat
        <5>1. fds \in Seq(Fd)
          BY EmptySeq DEF UG!query_all, UG!online, Inv, UGP!Inv, UGP!TypeOK
        <5> QED
          BY <5>1
      <4>2. q = [i \in 1..Len(fds) |-> Item(in, fds[i])]
        BY DEF forwards
      <4> HIDE DEF fds, r
      <4>3. q \in [1..Len(fds) -> Elem] /\ r \in Elem
        BY <4>2
      <4> HIDE DEF Elem, q
      <4>4. q \in Seq(Elem)
        BY <4>1, <4>3, IsASeq
      <4> QED
        BY <4>3, <4>4
    <3> HIDE DEF r, q
    <3>5. Len(q) + 1 \in DOMAIN Append(q, r) /\ Append(q, r)[Len(q) + 1] = r
      BY <3>4, AppendProperties
    <3> QED
      BY <3>2, <3>3, <3>5
  <2> QED
    BY <1>5, <2>2, <2>3
<1>6. CASE owed' = <<>>
  BY <1>6 DEF Owing
<1> QED
  BY <1>4, <1>5, <1>6 DEF DrainFrame, history

LEMMA SendFrameOwing == Inv /\ Owing /\ SendFrame => Owing'
<1> SUFFICES ASSUME Inv, Owing, SendFrame
             PROVE  Owing'
  OBVIOUS
<1> DEFINE item == Head(send_queue)
<1>1. /\ pc = "drain" /\ UNCHANGED <<pc, batch>> /\ send_queue # <<>>
      /\ cur \in DOMAIN conns \ ToSet(pending_close)
  BY DEF SendFrame, Inv, Struct, Closing, Handling
<1>2. cur' = cur
  BY <1>1 DEF cur
<1>3. /\ Len(send_queue) \in Nat \ {0}
      /\ DOMAIN send_queue = 1..Len(send_queue)
      /\ DOMAIN Tail(send_queue) = 1..Len(send_queue) - 1
      /\ \A i \in 1..Len(send_queue) - 1 : Tail(send_queue)[i] = send_queue[i + 1]
      /\ item = send_queue[1]
  BY <1>1, HeadTailProperties, EmptySeq DEF Inv, Data, LoopOK
<1> SUFFICES ASSUME owed' # <<>>, ~ fatal'
             PROVE  \E i \in DOMAIN send_queue' : ReplyTo(send_queue'[i], owed', cur)
  BY <1>1, <1>2 DEF Owing
<1>4. /\ send_queue' = Tail(send_queue) /\ owed' = owed /\ fatal' = fatal
      /\ ~ ReplyTo(item, owed, cur)
  <2>1. CASE Undeliverable(item) /\ Dropped(item) /\ UNCHANGED fatal
    BY <1>1, <2>1 DEF SendFrame, Undeliverable, Dropped, ReplyTo
  <2>2. CASE Accepted(item) /\ UNCHANGED fatal
    BY <2>2 DEF SendFrame, Accepted, ReplyTo, SendFailed
  <2>3. CASE SendFailed(item.to) /\ UNCHANGED <<greeting, owed>>
    BY <2>3 DEF SendFrame, SendFailed, ReplyTo
  <2> QED
    BY <2>1, <2>2, <2>3 DEF SendFrame
<1>5. PICK i \in 1..Len(send_queue) : ReplyTo(send_queue[i], owed, cur)
  BY <1>3, <1>4 DEF Owing
<1>6. i - 1 \in 1..Len(send_queue) - 1 /\ Tail(send_queue)[i - 1] = send_queue[i]
  BY <1>3, <1>4, <1>5
<1> QED
  BY <1>3, <1>4, <1>5, <1>6

LEMMA OwingNext == Inv /\ Bound /\ Owing /\ [Next]_vars => Owing'
<1> SUFFICES ASSUME Inv, Bound, Owing, [Next]_vars
             PROVE  Owing'
  OBVIOUS
<1>1. CASE FinishClient
  BY <1>1 DEF FinishClient, Owing
<1>2. CASE Peers \/ UNCHANGED vars
  <2>1. UNCHANGED <<pc, batch, fatal, send_queue, owed>>
    BY <1>2 DEF Peers, Connect, PeerSends, PeerReads, PeerShutsDown, PeerResets,
                PeerStep, vars, loop, history
  <2> QED
    BY <2>1 DEF Owing, cur
<1>3. CASE Server /\ pc # "drain"
  <2>1. owed = <<>> /\ UNCHANGED owed
    BY <1>3 DEF Owing, Server, EpollWait, Accept, AcceptEnds, SkipEvent, HandleClient,
                HandleWrite, HandleRead, DrainFrame, SendFrame, FinishClient, EndBatch,
                DrainPendingClose, history
  <2> QED
    BY <2>1 DEF Owing
<1>4. CASE Server /\ pc = "drain"
  BY <1>1, <1>4, DrainFrameOwing, SendFrameOwing
     DEF Server, EpollWait, Accept, AcceptEnds, SkipEvent, HandleClient, HandleWrite,
         HandleRead, EndBatch, DrainPendingClose
<1> QED
  BY <1>2, <1>3, <1>4 DEF Next

LEMMA OwingInit == Init => Owing
BY DEF Init, Owing

(* The sender of a request and a client that logs in are answered before   *)
(* their next frame is looked at, or closed, whatever becomes of the       *)
(* frame's other receivers (core.cpp:214-276).                             *)
THEOREM AskersAnswered == Spec => []EveryAskerAnswered
<1>1. Owing => EveryAskerAnswered
  BY DEF Owing, EveryAskerAnswered
<1>2. Init => Inv /\ Bound /\ Owing
  BY InvInit, BoundInit, OwingInit
<1>3. Inv /\ Bound /\ Owing /\ [Next]_vars => (Inv /\ Bound /\ Owing)'
  BY InvNext, BoundNext, OwingNext
<1> QED
  BY <1>1, <1>2, <1>3, PTL DEF Spec

-----------------------------------------------------------------------------
(* Faults.  What dooms a connection is remembered in fatal, rst or the     *)
(* events of the batch until it is closed; each of these stands for a      *)
(* fault of its own peer.                                                  *)

Failing(fd) ==
    \/ sock[fd].reset
    \/ Len(conns[fd].write_buf) >= HighWater
    \/ read_buf # <<>> /\ ~ Decodable(Head(read_buf))

Blame ==
    /\ fatal => pc = "drain" /\ send_queue = <<>> /\ Failing(cur)
    /\ rst = "error" => pc = "drain" /\ sock[cur].reset
    /\ rst = "closed" => pc = "drain" /\ conns[cur].peer_closed

HungUp ==
    /\ batch # <<>> => pc \notin {"wait", "close"}
    /\ \A i \in DOMAIN batch :
          "hup" \in batch[i].events =>
              batch[i].fd \in Fd \cap DOMAIN conns /\ sock[batch[i].fd].reset

LEMMA WrittenKeeps ==
    ASSUME SockOK, ConnsOK, NEW fd \in Fd, fd \in DOMAIN conns, NEW w, Written(fd, w)
    PROVE  /\ DOMAIN conns' = DOMAIN conns
           /\ conns'[fd].write_buf = w.rest
           /\ \A f \in Fd : sock'[f].reset = sock[f].reset
           /\ \A f \in DOMAIN conns : conns'[f].peer_closed = conns[f].peer_closed
           /\ \A f \in DOMAIN conns \ {fd} : conns'[f] = conns[f]
BY DEF Written, SockOK, Socket, ConnsOK, Conn

LEMMA PeersKeep ==
    ASSUME SockOK, Peers
    PROVE  /\ UNCHANGED <<conns, epoll, pending_close, loop, tables, history>>
           /\ \A f \in Fd : sock[f].reset => sock'[f].reset
<1>1. UNCHANGED <<conns, epoll, pending_close, loop, tables, history>>
  BY DEF Peers, Connect, PeerSends, PeerReads, PeerShutsDown, PeerResets, PeerStep
<1>2. CASE UNCHANGED sock
  BY <1>1, <1>2
<1>3. ASSUME NEW fd \in Fd,
             PeerSends(fd) \/ PeerReads(fd) \/ PeerShutsDown(fd) \/ PeerResets(fd)
      PROVE  \A f \in Fd : sock[f].reset => sock'[f].reset
  BY <1>3 DEF PeerSends, PeerReads, PeerShutsDown, PeerResets, PeerStep, SockOK, Socket
<1> QED
  BY <1>1, <1>2, <1>3 DEF Peers, Connect

(* A write that fails meets a reset or the high-water mark. *)
LEMMA SendFails ==
    ASSUME NEW fd \in Fd, NEW frame, send(fd, frame).st \in {"closed", "error"},
           conns[fd].write_buf \in Seq(Outbound)
    PROVE  \/ sock[fd].reset
           \/ /\ Len(conns[fd].write_buf) >= HighWater
              /\ send(fd, frame).rest = conns[fd].write_buf
BY LimitsAssumption DEF send, flush

LEMMA SendFrameBlame == Inv /\ Blame /\ SendFrame => Blame'
<1> SUFFICES ASSUME Inv, Blame, SendFrame
             PROVE  Blame'
  OBVIOUS
<1> DEFINE item == Head(send_queue)
           to == item.to
           w == send(to, item.frame)
<1>1. /\ pc = "drain" /\ UNCHANGED <<pc, batch, read_buf, rst>> /\ ~ fatal
      /\ cur \in Fd \cap DOMAIN conns
  BY DEF SendFrame, Inv, Struct, Closing, Handling, Blame
<1>2. cur' = cur
  BY <1>1 DEF cur
<1>3. CASE UNCHANGED <<conns, sock, fatal>>
  BY <1>1, <1>2, <1>3 DEF Blame
<1>4. CASE ~ Undeliverable(item) /\ Written(to, w)
  <2>1. to \in Fd /\ to \in DOMAIN conns /\ conns[to].write_buf \in Seq(Outbound)
    <3>1. item \in [frame : Outbound, to : Fd]
      BY HeadTailProperties DEF SendFrame, Inv, Data, LoopOK
    <3> QED
      BY <1>4, <3>1 DEF Undeliverable, Inv, Data, ConnsOK, Conn
  <2>2. /\ conns'[to].write_buf = w.rest
        /\ sock'[cur].reset = sock[cur].reset
        /\ conns'[cur].peer_closed = conns[cur].peer_closed
    BY <1>1, <1>4, <2>1, WrittenKeeps DEF Inv, Data
  <2>3. ASSUME fatal'
        PROVE  send_queue' = <<>> /\ (sock[cur].reset \/ Len(conns'[cur].write_buf) >= HighWater)
    <3>1. w.st \in {"closed", "error"} /\ to = cur /\ send_queue' = <<>>
      BY <1>1, <1>4, <2>3 DEF SendFrame, SendFailed
    <3> HIDE DEF to
    <3> QED
      BY <2>1, <2>2, <3>1, SendFails
  <2> QED
    BY <1>1, <1>2, <2>2, <2>3 DEF Blame, Failing
<1> QED
  BY <1>3, <1>4 DEF SendFrame

LEMMA BlameNext == Inv /\ Blame /\ [Next]_vars => Blame'
<1> SUFFICES ASSUME Inv, Blame, [Next]_vars
             PROVE  Blame'
  OBVIOUS
<1> USE DEF Inv
<1>1. pc = "drain" => cur \in Fd \cap DOMAIN conns
  BY DEF Struct, Closing, Handling
<1>2. CASE Peers \/ UNCHANGED vars
  <2>1. /\ UNCHANGED <<conns, loop>>
        /\ pc = "drain" /\ sock[cur].reset => sock'[cur].reset
    BY <1>1, <1>2, PeersKeep DEF vars, Data
  <2> QED
    BY <2>1 DEF Blame, Failing, loop, cur
<1>3. CASE FinishClient
  BY <1>3 DEF FinishClient, Blame
<1>4. CASE HandleRead
  <2>1. /\ cur \in Fd \cap DOMAIN conns /\ ~ fatal /\ ~ fatal'
        /\ pc' = "drain" /\ UNCHANGED batch
    BY <1>4 DEF HandleRead, Blame, Struct, Closing, Handling
  <2>2. /\ rst' = "error" => sock[cur].reset
        /\ sock'[cur].reset = sock[cur].reset
        /\ conns' = [conns EXCEPT ![cur].peer_closed = @ \/ rst' = "closed"]
    BY <1>4, <2>1 DEF HandleRead, Data, SockOK, Socket
  <2>3. rst' = "closed" => conns'[cur].peer_closed
    BY <2>1, <2>2 DEF Data, ConnsOK, Conn
  <2> QED
    BY <2>1, <2>2, <2>3 DEF Blame, cur
<1>5. CASE DrainFrame
  <2>1. /\ UNCHANGED <<conns, sock, pc, batch, rst>>
        /\ fatal' => read_buf # <<>> /\ ~ Decodable(Head(read_buf))
                     /\ UNCHANGED <<read_buf, send_queue>> /\ send_queue = <<>>
        /\ pc = "drain"
    BY <1>5 DEF DrainFrame
  <2> QED
    BY <2>1 DEF Blame, Failing, cur
<1>6. CASE \/ EpollWait \/ Accept \/ AcceptEnds \/ SkipEvent \/ HandleClient
           \/ HandleWrite \/ EndBatch \/ DrainPendingClose
  BY <1>6 DEF EpollWait, Accept, AcceptEnds, SkipEvent, HandleClient, HandleWrite,
              EndBatch, DrainPendingClose, loop, Blame
<1> QED
  BY <1>2, <1>3, <1>4, <1>5, <1>6, SendFrameBlame DEF Next, Server

LEMMA HungUpKept ==
    ASSUME HungUp, batch \in Seq(Event),
           batch' = batch \/ (batch # <<>> /\ batch' = Tail(batch)),
           batch' # <<>> => pc' \notin {"wait", "close"},
           \A f \in Fd \cap DOMAIN conns :
              sock[f].reset => f \in DOMAIN conns' /\ sock'[f].reset
    PROVE  HungUp'
<1>1. CASE batch' = batch
  BY <1>1 DEF HungUp
<1>2. CASE batch # <<>> /\ batch' = Tail(batch)
  <2>1. /\ Len(batch) \in Nat /\ DOMAIN batch = 1..Len(batch)
        /\ DOMAIN batch' = 1..Len(batch) - 1
        /\ \A i \in DOMAIN batch' : batch'[i] = batch[i + 1]
    BY <1>2, HeadTailProperties
  <2>2. \A i \in DOMAIN batch' : i + 1 \in DOMAIN batch
    BY <2>1
  <2> QED
    BY <2>1, <2>2 DEF HungUp
<1> QED
  BY <1>1, <1>2

LEMMA EpollWaitHungUp == Inv /\ EpollWait => HungUp'
<1> SUFFICES ASSUME Inv, EpollWait
             PROVE  HungUp'
  OBVIOUS
<1>1. PICK chosen \in kSubset(Min({MaxEvents, Cardinality(Ready)}), Ready) :
         \E order \in SetToSeqs(chosen) :
            batch' = [i \in DOMAIN order |->
                        [fd |-> order[i],
                         events |-> IF order[i] = ListenFd THEN {"in"} ELSE EventsOf(order[i])]]
  BY DEF EpollWait
<1>2. PICK order \in SetToSeqs(chosen) :
         batch' = [i \in DOMAIN order |->
                     [fd |-> order[i],
                      events |-> IF order[i] = ListenFd THEN {"in"} ELSE EventsOf(order[i])]]
  BY <1>1
<1>3. \A i \in DOMAIN order : order[i] \in Ready
  BY DEF SetToSeqs, kSubset
<1>4. \A fd \in Ready \ {ListenFd} :
         "hup" \in EventsOf(fd) => fd \in Fd \cap DOMAIN conns /\ sock[fd].reset
  BY DEF Ready, EventsOf, Inv, Struct, Closing
<1>5. UNCHANGED <<conns, sock>> /\ pc' = "dispatch"
  BY DEF EpollWait
<1> HIDE DEF EpollWait
<1> QED
  BY <1>2, <1>3, <1>4, <1>5 DEF HungUp

LEMMA HungUpNext == Inv /\ HungUp /\ [Next]_vars => HungUp'
<1> SUFFICES ASSUME Inv, HungUp, [Next]_vars
             PROVE  HungUp'
  OBVIOUS
<1> USE DEF Inv, Data
<1>1. batch \in Seq(Event) /\ (batch # <<>> => pc \notin {"wait", "close"})
  BY DEF Struct, Handling, HungUp
<1>2. CASE AcceptEnds \/ SkipEvent \/ HandleClient \/ DrainFrame \/ FinishClient \/ EndBatch
  <2>1. UNCHANGED <<conns, sock>>
    BY <1>2 DEF AcceptEnds, SkipEvent, HandleClient, DrainFrame, FinishClient, EndBatch
  <2>2. /\ batch' = batch \/ (batch # <<>> /\ batch' = Tail(batch))
        /\ batch' # <<>> => pc' \notin {"wait", "close"}
    BY <1>1, <1>2 DEF AcceptEnds, SkipEvent, HandleClient, DrainFrame, FinishClient,
                      EndBatch, NextEvent, Struct, Handling
  <2> QED
    BY <1>1, <2>1, <2>2, HungUpKept
<1>3. CASE Accept
  <2>1. PICK fd \in Fd \ DOMAIN conns :
           /\ DOMAIN conns' = DOMAIN conns \cup {fd}
           /\ sock' = [sock EXCEPT ![fd] = NewSocket]
    BY <1>3 DEF Accept
  <2>2. \A f \in Fd \cap DOMAIN conns : f \in DOMAIN conns' /\ sock'[f] = sock[f]
    BY <2>1 DEF SockOK
  <2>3. UNCHANGED <<batch, pc>>
    BY <1>3 DEF Accept, loop
  <2> QED
    BY <1>1, <2>2, <2>3, HungUpKept
<1>4. CASE HandleWrite
  <2>1. cur \in Fd /\ cur \in DOMAIN conns /\ batch # <<>>
    BY <1>4 DEF HandleWrite, Struct, Closing, Handling
  <2>2. \A f \in Fd \cap DOMAIN conns : f \in DOMAIN conns' /\ sock'[f].reset = sock[f].reset
    BY <1>4, <2>1, WrittenKeeps DEF HandleWrite
  <2>3. /\ batch' = batch \/ (batch # <<>> /\ batch' = Tail(batch))
        /\ pc' \notin {"wait", "close"}
    BY <1>4, <2>1 DEF HandleWrite, NextEvent
  <2> QED
    BY <1>1, <2>2, <2>3, HungUpKept
<1>5. CASE HandleRead
  <2>1. cur \in Fd /\ cur \in DOMAIN conns
    BY <1>5 DEF HandleRead, Struct, Closing, Handling
  <2>2. \A f \in Fd \cap DOMAIN conns : f \in DOMAIN conns' /\ sock'[f].reset = sock[f].reset
    BY <1>5, <2>1 DEF HandleRead, SockOK, Socket
  <2>3. UNCHANGED batch /\ pc' = "drain"
    BY <1>5 DEF HandleRead
  <2> QED
    BY <1>1, <2>2, <2>3, HungUpKept
<1>6. CASE SendFrame
  <2> DEFINE item == Head(send_queue)
             w == send(item.to, item.frame)
  <2>1. \/ UNCHANGED <<conns, sock>>
        \/ item.to \in DOMAIN conns /\ Written(item.to, w)
    BY <1>6 DEF SendFrame, Undeliverable
  <2>2. item.to \in DOMAIN conns => item.to \in Fd
    BY DEF Struct, Closing
  <2>3. \A f \in Fd \cap DOMAIN conns : f \in DOMAIN conns' /\ sock'[f].reset = sock[f].reset
    BY <2>1, <2>2, WrittenKeeps
  <2>4. UNCHANGED <<batch, pc>>
    BY <1>6 DEF SendFrame
  <2> QED
    BY <1>1, <2>3, <2>4, HungUpKept
<1>7. CASE DrainPendingClose
  <2>1. batch = <<>> /\ UNCHANGED batch
    BY <1>1, <1>7 DEF DrainPendingClose
  <2> QED
    BY <2>1 DEF HungUp
<1>8. CASE Peers \/ UNCHANGED vars
  <2>1. /\ UNCHANGED <<conns, batch, pc>>
        /\ \A f \in Fd : sock[f].reset => sock'[f].reset
    BY <1>8, PeersKeep DEF vars, loop
  <2> QED
    BY <1>1, <2>1, HungUpKept
<1> QED
  BY <1>2, <1>3, <1>4, <1>5, <1>6, <1>7, <1>8, EpollWaitHungUp DEF Next, Server

LEMMA BlameInit == Init => Blame /\ HungUp
BY DEF Init, Blame, HungUp

(* One step dooms at most the connection it closes. *)
LEMMA DoomsOne ==
    ASSUME Struct, NEW x \in Fd, close_client(x), NEW fd, Dooms(fd)
    PROVE  fd = x
<1>1. CASE is_pending_close(x)
  BY <1>1 DEF close_client, Dooms
<1>2. CASE ~ is_pending_close(x)
  BY <1>2, ToSetAppend DEF close_client, Dooms, Struct, Closing
<1> QED
  BY <1>1, <1>2

LEMMA FaultStep ==
    ASSUME Inv, Blame, HungUp, [Next]_vars, NEW fd \in Fd, Dooms(fd)
    PROVE  AtFault(fd)
<1> USE DEF Inv, Data
<1>1. ~ UNCHANGED pending_close
  BY DEF Dooms
<1>2. pc \in {"write", "read", "drain"} => cur \in Fd /\ cur \in DOMAIN conns
  BY DEF Struct, Closing, Handling
<1>3. CASE HandleClient
  <2>1. close_client(cur) /\ "hup" \in events /\ batch # <<>> /\ cur \in Fd
    BY <1>1, <1>3 DEF HandleClient, Struct, Closing
  <2>2. 1 \in DOMAIN batch /\ Head(batch) = batch[1]
    BY <2>1, EmptySeq DEF Struct, Handling
  <2>3. sock[cur].reset
    BY <2>1, <2>2 DEF HungUp, cur, events
  <2> QED
    BY <2>1, <2>3, DoomsOne DEF AtFault
<1>4. CASE HandleWrite
  <2> DEFINE w == on_writeable(cur)
  <2>1. cur \in Fd /\ cur \in DOMAIN conns
    BY <1>2, <1>4 DEF HandleWrite
  <2>2. conns'[cur].peer_closed = conns[cur].peer_closed
    BY <1>4, <2>1, WrittenKeeps DEF HandleWrite
  <2>3. CASE w.st = "closed" /\ close_client(cur)
    <3>1. sock[cur].reset \/ conns[cur].peer_closed
      BY <2>3 DEF on_writeable, flush
    <3> QED
      BY <2>1, <2>2, <2>3, <3>1, DoomsOne DEF AtFault
  <2>4. CASE update_events(cur, conns'[cur])
    <3>1. close_client(cur) /\ MaskOf(conns'[cur]) = {}
      BY <1>1, <2>4 DEF update_events
    <3>2. conns'[cur].peer_closed
      BY <3>1 DEF MaskOf
    <3> QED
      BY <2>1, <3>1, <3>2, DoomsOne DEF AtFault
  <2> QED
    BY <1>1, <1>4, <2>3, <2>4 DEF HandleWrite
<1>5. CASE SendFrame
  <2> DEFINE item == Head(send_queue)
             w == send(item.to, item.frame)
  <2>1. /\ ~ Undeliverable(item) /\ item.to \in Fd /\ item.to \in DOMAIN conns
    <3>1. ~ Undeliverable(item)
      BY <1>1, <1>5 DEF SendFrame
    <3> QED
      BY <3>1 DEF Undeliverable, Struct, Closing
  <2>2. PICK to \in Fd : to = item.to
    BY <2>1
  <2>3. CASE w.st \in {"ok", "would_block"}
    <3>1. update_events(to, conns'[to])
      BY <1>1, <1>5, <2>2, <2>3 DEF SendFrame, Rearm
    <3>2. close_client(to) /\ MaskOf(conns'[to]) = {}
      BY <1>1, <3>1 DEF update_events
    <3>3. conns'[to].peer_closed
      BY <3>2 DEF MaskOf
    <3> QED
      BY <3>2, <3>3, DoomsOne DEF AtFault
  <2>4. CASE w.st \in {"closed", "error"}
    <3>1. close_client(to)
      BY <1>1, <1>5, <2>1, <2>2, <2>4 DEF SendFrame, SendFailed
    <3>2. conns[to].write_buf \in Seq(Outbound)
      BY <2>1, <2>2 DEF ConnsOK, Conn
    <3>3. send(to, item.frame).st \in {"closed", "error"}
      BY <2>2, <2>4
    <3>4. sock[to].reset \/ Len(conns[to].write_buf) >= HighWater
      BY <3>2, <3>3, SendFails
    <3> QED
      BY <3>1, <3>4, DoomsOne DEF AtFault
  <2> QED
    BY <1>5, <2>1, <2>3, <2>4 DEF SendFrame
<1>6. CASE FinishClient
  <2>1. cur \in Fd /\ UNCHANGED conns
    BY <1>2, <1>6 DEF FinishClient
  <2>2. CASE close_client(cur) /\ (fatal \/ rst = "error" \/ rst = "closed")
    <3>1. fd = cur
      BY <2>1, <2>2, DoomsOne
    <3> QED
      BY <2>1, <2>2, <3>1 DEF AtFault, Blame, Failing
  <2>3. CASE update_events(cur, conns[cur])
    <3>1. close_client(cur) /\ MaskOf(conns[cur]) = {}
      BY <1>1, <2>3 DEF update_events
    <3>2. conns'[cur].peer_closed
      BY <2>1, <3>1 DEF MaskOf
    <3> QED
      BY <2>1, <3>1, <3>2, DoomsOne DEF AtFault
  <2> QED
    BY <1>6, <2>2, <2>3 DEF FinishClient, ToBeClosed
<1>7. CASE DrainPendingClose
  <2>1. pending_close # <<>> /\ pending_close' = Tail(pending_close)
    BY <1>1, <1>7 DEF DrainPendingClose
  <2> QED
    BY <2>1, DistinctTail DEF Dooms, Struct, Closing
<1> QED
  BY <1>1, <1>3, <1>4, <1>5, <1>6, <1>7
     DEF Next, Server, EpollWait, Accept, AcceptEnds, SkipEvent, HandleRead, DrainFrame,
         EndBatch, Peers, Connect, PeerSends, PeerReads, PeerShutsDown, PeerResets,
         PeerStep, vars

(* Nobody is closed for what another connection did: a connection is only  *)
(* ever doomed for its own peer's reset, close or garbage, or because its  *)
(* own output reached the high-water mark (core.cpp:214-276).              *)
THEOREM OnlyFaultyClosed == Spec => OnlyTheFaultyClosed
<1>1. Init => Inv /\ Blame /\ HungUp
  BY InvInit, BlameInit
<1>2. Inv /\ Blame /\ HungUp /\ [Next]_vars => (Inv /\ Blame /\ HungUp)'
  BY InvNext, BlameNext, HungUpNext
<1>3. Inv /\ Blame /\ HungUp /\ [Next]_vars => [\A fd \in Fd : Dooms(fd) => AtFault(fd)]_vars
  BY FaultStep
<1> QED
  BY <1>1, <1>2, <1>3, PTL DEF Spec, OnlyTheFaultyClosed

-----------------------------------------------------------------------------
(* What reaches a client: requests only reach connections of their         *)
(* receiver, and never before the login result.  Both are carried from     *)
(* the queue of frames to send, filled from tables that are current when   *)
(* it is filled, to the write buffers and the kernel: no login,            *)
(* disconnect or reuse of an fd comes in between.                          *)

-----------------------------------------------------------------------------
(* What sequences contain *)

LEMMA TailRange ==
    ASSUME NEW Elem, NEW s \in Seq(Elem), s # <<>>
    PROVE  /\ ToSet(Tail(s)) \subseteq ToSet(s)
           /\ \A i \in DOMAIN s :
                 i = 1 \/ (i - 1 \in DOMAIN Tail(s) /\ Tail(s)[i - 1] = s[i])
           /\ \A i \in DOMAIN Tail(s) : i + 1 \in DOMAIN s /\ Tail(s)[i] = s[i + 1]
           /\ 1 \in DOMAIN s /\ Head(s) = s[1]
<1>1. /\ Len(s) \in Nat \ {0} /\ DOMAIN s = 1..Len(s)
      /\ DOMAIN Tail(s) = 1..Len(s) - 1
      /\ \A i \in 1..Len(s) - 1 : Tail(s)[i] = s[i + 1]
      /\ Head(s) = s[1]
  BY HeadTailProperties, EmptySeq
<1>2. \A i \in DOMAIN Tail(s) : i + 1 \in DOMAIN s /\ Tail(s)[i] = s[i + 1]
  BY <1>1
<1>3. \A i \in DOMAIN s : i = 1 \/ (i - 1 \in DOMAIN Tail(s) /\ Tail(s)[i - 1] = s[i])
  BY <1>1
<1> QED
  BY <1>1, <1>2, <1>3 DEF ToSet

LEMMA CutRange ==
    ASSUME NEW Elem, NEW s \in Seq(Elem), NEW n \in 0..Len(s)
    PROVE  /\ ToSet(SubSeq(s, 1, n)) \subseteq ToSet(s)
           /\ ToSet(SubSeq(s, n + 1, Len(s))) \subseteq ToSet(s)
<1>1. /\ Len(SubSeq(s, 1, n)) = n
      /\ \A i \in 1..n : SubSeq(s, 1, n)[i] = s[i]
  BY SubSeqProperties
<1>2. /\ Len(SubSeq(s, n + 1, Len(s))) = Len(s) - n
      /\ \A i \in 1..Len(s) - n : SubSeq(s, n + 1, Len(s))[i] = s[n + i]
  BY SubSeqProperties
<1>3. SubSeq(s, 1, n) \in Seq(Elem) /\ SubSeq(s, n + 1, Len(s)) \in Seq(Elem)
  BY CutSeq
<1> QED
  BY <1>1, <1>2, <1>3 DEF ToSet

LEMMA ConcatRange ==
    ASSUME NEW Elem, NEW s \in Seq(Elem), NEW t \in Seq(Elem)
    PROVE  ToSet(s \o t) = ToSet(s) \cup ToSet(t)
<1>1. /\ s \o t \in Seq(Elem) /\ Len(s \o t) = Len(s) + Len(t)
      /\ \A i \in 1..Len(s) + Len(t) :
            (s \o t)[i] = IF i <= Len(s) THEN s[i] ELSE t[i - Len(s)]
  BY ConcatProperties
<1>2. DOMAIN s = 1..Len(s) /\ DOMAIN t = 1..Len(t) /\ DOMAIN (s \o t) = 1..Len(s) + Len(t)
  BY <1>1
<1>3. \A i \in 1..Len(t) : i + Len(s) \in DOMAIN (s \o t) /\ (s \o t)[i + Len(s)] = t[i]
  BY <1>1, <1>2
<1>4. \A i \in 1..Len(s) : i \in DOMAIN (s \o t) /\ (s \o t)[i] = s[i]
  BY <1>1, <1>2
<1>5. \A i \in DOMAIN (s \o t) : i \in 1..Len(s) \/ i - Len(s) \in 1..Len(t)
  BY <1>2
<1>6. ASSUME NEW x \in ToSet(s \o t)
      PROVE  x \in ToSet(s) \cup ToSet(t)
  <2>1. PICK i \in DOMAIN (s \o t) : x = (s \o t)[i]
    BY DEF ToSet
  <2>2. CASE i \in 1..Len(s)
    BY <1>2, <1>4, <2>1, <2>2 DEF ToSet
  <2>3. CASE i - Len(s) \in 1..Len(t)
    <3>1. x = t[i - Len(s)]
      BY <1>1, <1>2, <2>1, <2>3
    <3> QED
      BY <1>2, <2>3, <3>1 DEF ToSet
  <2> QED
    BY <1>5, <2>2, <2>3
<1>7. ASSUME NEW x \in ToSet(s) \cup ToSet(t)
      PROVE  x \in ToSet(s \o t)
  <2>1. CASE x \in ToSet(s)
    BY <1>2, <1>4, <2>1 DEF ToSet
  <2>2. CASE x \in ToSet(t)
    <3>1. PICK i \in 1..Len(t) : x = t[i]
      BY <1>2, <2>2 DEF ToSet
    <3>2. i + Len(s) \in DOMAIN (s \o t) /\ x = (s \o t)[i + Len(s)]
      BY <1>3, <3>1
    <3> QED
      BY <3>2 DEF ToSet
  <2> QED
    BY <2>1, <2>2
<1> QED
  BY <1>6, <1>7

LEMMA ElementsOf ==
    ASSUME NEW Elem, NEW s \in Seq(Elem)
    PROVE  ToSet(s) \subseteq Elem
BY ElementOfSeq DEF ToSet

-----------------------------------------------------------------------------
(* What the server has written to a peer, as a set of frames *)

Unread(s, conn) == ToSet(s.tx) \cup ToSet(conn.write_buf)

LEMMA OutgoingRange ==
    ASSUME Data, NEW fd \in Fd, fd \in DOMAIN conns
    PROVE  /\ ToSet(Outgoing(fd)) = Unread(sock[fd], conns[fd])
           /\ Unread(sock[fd], conns[fd]) \subseteq Outbound
<1>1. sock[fd].tx \in Seq(Outbound) /\ conns[fd].write_buf \in Seq(Outbound)
  BY DEF Data, SockOK, Socket, ConnsOK, Conn
<1> QED
  BY <1>1, ConcatRange, ElementsOf DEF Outgoing, Unread

LEMMA FlushRange ==
    ASSUME SockOK, NEW fd \in Fd, NEW buf \in Seq(Outbound)
    PROVE  /\ ToSet(flush(fd, buf).tx) \subseteq ToSet(sock[fd].tx) \cup ToSet(buf)
           /\ ToSet(flush(fd, buf).rest) \subseteq ToSet(buf)
<1> DEFINE tx == sock[fd].tx
           n == IF sock[fd].reset THEN 0 ELSE Min({Len(buf), TxCap - Len(tx)})
<1>1. tx \in Seq(Outbound) /\ Len(tx) \in Nat /\ Len(tx) <= TxCap /\ TxCap \in Nat
  BY LimitsAssumption DEF SockOK, Socket
<1>2. n \in 0..Len(buf)
  <2>1. Len(buf) \in Nat /\ TxCap - Len(tx) \in Nat
    BY <1>1, LenProperties
  <2> HIDE DEF tx, n
  <2>2. /\ Min({Len(buf), TxCap - Len(tx)}) \in 0..Len(buf)
        /\ Min({Len(buf), TxCap - Len(tx)}) <= TxCap - Len(tx)
    BY <2>1, MinBelowBoth
  <2>3. 0 \in 0..Len(buf)
    BY <2>1
  <2> QED
    BY <2>2, <2>3 DEF n
<1>3. /\ flush(fd, buf).tx = tx \o SubSeq(buf, 1, n)
      /\ flush(fd, buf).rest = SubSeq(buf, n + 1, Len(buf))
  BY DEF flush
<1> HIDE DEF n
<1>4. /\ SubSeq(buf, 1, n) \in Seq(Outbound)
      /\ ToSet(SubSeq(buf, 1, n)) \subseteq ToSet(buf)
      /\ ToSet(SubSeq(buf, n + 1, Len(buf))) \subseteq ToSet(buf)
  BY <1>2, CutSeq, CutRange
<1>5. ToSet(tx \o SubSeq(buf, 1, n)) = ToSet(tx) \cup ToSet(SubSeq(buf, 1, n))
  <2> DEFINE sent == SubSeq(buf, 1, n)
  <2>1. tx \in Seq(Outbound) /\ sent \in Seq(Outbound)
    BY <1>1, <1>4
  <2> HIDE DEF tx, sent
  <2>2. ToSet(tx \o sent) = ToSet(tx) \cup ToSet(sent)
    BY <2>1, ConcatRange
  <2> QED
    BY <2>2 DEF sent
<1> QED
  BY <1>3, <1>4, <1>5

LEMMA WrittenRange ==
    ASSUME Data, NEW fd \in Fd, fd \in DOMAIN conns, NEW w, NEW F, Written(fd, w),
           ToSet(w.tx) \subseteq F, ToSet(w.rest) \subseteq F
    PROVE  /\ Unread(sock'[fd], conns'[fd]) \subseteq F
           /\ \A f \in DOMAIN conns \ {fd} :
                 f \in Fd => Unread(sock'[f], conns'[f]) = Unread(sock[f], conns[f])
           /\ DOMAIN conns' = DOMAIN conns
BY DEF Written, Unread, Data, SockOK, Socket, ConnsOK, Conn

(* Only a frame taken from the queue adds to what is written to anybody. *)
LEMMA WrittenStep ==
    ASSUME Inv, [Next]_vars, NEW fd \in DOMAIN conns',
           NEW frame \in Unread(sock'[fd], conns'[fd])
    PROVE  \/ fd \in DOMAIN conns /\ frame \in Unread(sock[fd], conns[fd])
           \/ /\ SendFrame
              /\ ~ Undeliverable(Head(send_queue))
              /\ fd = Head(send_queue).to /\ frame = Head(send_queue).frame
<1> USE DEF Inv
<1>1. DOMAIN conns \subseteq Fd
  BY DEF Struct, Closing
<1>2. ASSUME UNCHANGED conns, \A f \in Fd : sock'[f].tx = sock[f].tx
      PROVE  fd \in DOMAIN conns /\ frame \in Unread(sock[fd], conns[fd])
  BY <1>1, <1>2 DEF Unread
<1>3. CASE \/ EpollWait \/ AcceptEnds \/ SkipEvent \/ HandleClient \/ DrainFrame
           \/ FinishClient \/ EndBatch \/ Connect \/ UNCHANGED vars
  BY <1>2, <1>3 DEF EpollWait, AcceptEnds, SkipEvent, HandleClient, DrainFrame,
                    FinishClient, EndBatch, Connect, vars
<1>4. CASE Accept
  <2>1. PICK new \in Fd \ DOMAIN conns :
           /\ conns' = [f \in DOMAIN conns \cup {new} |->
                           IF f = new THEN NewConnection ELSE conns[f]]
           /\ sock' = [sock EXCEPT ![new] = NewSocket]
    BY <1>4 DEF Accept
  <2>2. CASE fd = new
    <3>1. sock'[fd].tx = <<>> /\ conns'[fd].write_buf = <<>>
      BY <2>1, <2>2 DEF NewSocket, NewConnection, Data, SockOK
    <3> QED
      BY <3>1 DEF Unread, ToSet
  <2>3. CASE fd # new
    BY <1>1, <2>1, <2>3 DEF Unread, Data, SockOK
  <2> QED
    BY <2>2, <2>3
<1>5. CASE HandleWrite
  <2> DEFINE w == on_writeable(cur)
  <2>1. cur \in Fd /\ cur \in DOMAIN conns /\ Written(cur, w)
    BY <1>5 DEF HandleWrite, Struct, Closing, Handling
  <2>2. conns[cur].write_buf \in Seq(Outbound)
    BY <2>1 DEF Data, ConnsOK, Conn
  <2>3. /\ w.tx = flush(cur, conns[cur].write_buf).tx
        /\ w.rest = flush(cur, conns[cur].write_buf).rest
    BY DEF on_writeable, flush
  <2>4. /\ ToSet(w.tx) \subseteq Unread(sock[cur], conns[cur])
        /\ ToSet(w.rest) \subseteq Unread(sock[cur], conns[cur])
    BY <2>1, <2>2, <2>3, FlushRange DEF Unread, Data
  <2> HIDE DEF w
  <2> QED
    BY <1>1, <2>1, <2>4, WrittenRange
<1>6. CASE HandleRead
  <2>1. cur \in Fd /\ cur \in DOMAIN conns
    BY <1>6 DEF HandleRead, Struct, Closing, Handling
  <2>2. /\ DOMAIN conns' = DOMAIN conns
        /\ \A f \in DOMAIN conns : conns'[f].write_buf = conns[f].write_buf
        /\ \A f \in Fd : sock'[f].tx = sock[f].tx
    BY <1>6, <2>1 DEF HandleRead, Data, SockOK, Socket, ConnsOK, Conn
  <2> QED
    BY <1>1, <2>2 DEF Unread
<1>7. CASE SendFrame
  <2> DEFINE item == Head(send_queue)
             w == send(item.to, item.frame)
             old == Unread(sock[item.to], conns[item.to])
  <2>1. CASE UNCHANGED <<conns, sock>>
    BY <1>2, <2>1
  <2>2. CASE ~ Undeliverable(item) /\ Written(item.to, w)
    <3>1. item.to \in DOMAIN conns /\ item.to \in Fd /\ item.frame \in Outbound
      <4>1. item \in [frame : Outbound, to : Fd]
        BY <1>7, HeadTailProperties DEF SendFrame, Data, LoopOK
      <4> QED
        BY <2>2, <4>1 DEF Undeliverable
    <3>2. conns[item.to].write_buf \in Seq(Outbound)
      BY <3>1 DEF Data, ConnsOK, Conn
    <3> DEFINE F == old \cup {item.frame}
    <3>3. ToSet(w.tx) \subseteq F /\ ToSet(w.rest) \subseteq F
      <4> DEFINE buf == Append(conns[item.to].write_buf, item.frame)
      <4>1. buf \in Seq(Outbound) /\ ToSet(buf) = ToSet(conns[item.to].write_buf) \cup {item.frame}
        BY <3>1, <3>2, AppendProperties, ToSetAppend
      <4>2. CASE w = flush(item.to, buf)
        BY <3>1, <4>1, <4>2, FlushRange DEF Unread, Data
      <4>3. CASE w.tx = sock[item.to].tx /\ w.rest = conns[item.to].write_buf
        BY <4>3 DEF Unread
      <4> QED
        BY <4>2, <4>3 DEF send
    <3> HIDE DEF w, F
    <3>4. /\ Unread(sock'[item.to], conns'[item.to]) \subseteq F
          /\ DOMAIN conns' = DOMAIN conns
          /\ \A f \in DOMAIN conns \ {item.to} :
                f \in Fd => Unread(sock'[f], conns'[f]) = Unread(sock[f], conns[f])
      BY <2>2, <3>1, <3>3, WrittenRange
    <3>5. CASE fd = item.to
      BY <1>7, <2>2, <3>1, <3>4, <3>5 DEF F
    <3>6. CASE fd # item.to
      BY <1>1, <3>4, <3>6
    <3> QED
      BY <3>5, <3>6
  <2> QED
    BY <1>7, <2>1, <2>2 DEF SendFrame
<1>8. CASE DrainPendingClose
  <2>1. CASE pending_close # <<>>
    <3>1. /\ conns' = Restrict(conns, DOMAIN conns \ {Head(pending_close)})
          /\ sock' = [sock EXCEPT ![Head(pending_close)] = NewSocket]
      BY <1>8, <2>1 DEF DrainPendingClose
    <3> QED
      BY <1>1, <3>1 DEF Restrict, Unread, Data, SockOK
  <2>2. CASE UNCHANGED <<conns, sock>>
    BY <1>2, <2>2
  <2> QED
    BY <1>8, <2>1, <2>2 DEF DrainPendingClose
<1>9. ASSUME NEW f \in Fd,
             PeerSends(f) \/ PeerReads(f) \/ PeerShutsDown(f) \/ PeerResets(f)
      PROVE  fd \in DOMAIN conns /\ frame \in Unread(sock[fd], conns[fd])
  <2>1. UNCHANGED conns
    BY <1>9 DEF PeerSends, PeerReads, PeerShutsDown, PeerResets, PeerStep
  <2>2. CASE PeerSends(f) \/ PeerShutsDown(f)
    <3>1. \E new : sock' = [sock EXCEPT ![f].rx = new] \/ sock' = [sock EXCEPT ![f].eof = new]
      BY <2>2 DEF PeerSends, PeerShutsDown
    <3>2. ASSUME NEW g \in Fd
          PROVE  sock'[g].tx = sock[g].tx
      <4>1. PICK new :
               sock' = [sock EXCEPT ![f].rx = new] \/ sock' = [sock EXCEPT ![f].eof = new]
        BY <3>1
      <4>2. sock[f] \in Socket /\ sock \in [Fd -> Socket]
        BY DEF Data, SockOK
      <4>3. CASE sock' = [sock EXCEPT ![f].rx = new]
        BY <4>2, <4>3 DEF Socket
      <4>4. CASE sock' = [sock EXCEPT ![f].eof = new]
        BY <4>2, <4>4 DEF Socket
      <4> QED
        BY <4>1, <4>3, <4>4
    <3> QED
      BY <1>1, <2>1, <3>2 DEF Unread
  <2>3. CASE PeerReads(f)
    <3>1. /\ \A g \in Fd \ {f} : sock'[g].tx = sock[g].tx
          /\ sock[f].tx # <<>> /\ sock'[f].tx = Tail(sock[f].tx)
          /\ sock[f].tx \in Seq(Outbound)
      BY <2>3 DEF PeerReads, Data, SockOK, Socket
    <3>2. ToSet(Tail(sock[f].tx)) \subseteq ToSet(sock[f].tx)
      BY <3>1, TailRange
    <3> QED
      BY <1>1, <2>1, <3>1, <3>2 DEF Unread
  <2>4. CASE PeerResets(f)
    <3>1. /\ \A g \in Fd \ {f} : sock'[g].tx = sock[g].tx
          /\ sock'[f].tx = <<>>
      BY <2>4 DEF PeerResets, Data, SockOK, Socket
    <3>2. ToSet(<<>>) = {}
      BY DEF ToSet
    <3> QED
      BY <1>1, <2>1, <3>1, <3>2 DEF Unread
  <2> QED
    BY <1>9, <2>2, <2>3, <2>4
<1> QED
  BY <1>3, <1>4, <1>5, <1>6, <1>7, <1>8, <1>9 DEF Next, Server, Peers

-----------------------------------------------------------------------------
(* Routing.  The queue of frames to send is filled while the tables are    *)
(* current, and empty whenever a connection is destroyed.                  *)

Routed ==
    /\ pc # "drain" => send_queue = <<>>
    /\ \A i \in DOMAIN send_queue :
          send_queue[i].frame.op = "request" =>
              send_queue[i].frame.uid = loginOf[send_queue[i].to]
    /\ \A fd \in DOMAIN conns : \A frame \in Unread(sock[fd], conns[fd]) :
          frame.op = "request" => frame.uid = loginOf[fd]

(* A request in the answer of process() goes to a device of its receiver.  *)
LEMMA ForwardsCurrent ==
    ASSUME Inv, Bound, NEW fd \in Fd, NEW in \in Inbound,
           NEW i \in DOMAIN out_queue(fd, in),
           out_queue(fd, in)[i].frame.op = "request"
    PROVE  /\ in.op = "request"
           /\ out_queue(fd, in)[i].to \in DOMAIN conns
           /\ out_queue(fd, in)[i].frame.uid = loginOf[out_queue(fd, in)[i].to]
           /\ out_queue(fd, in)[i].frame.uid \in Uid
<1>1. CASE in.op = "login" \/ (in.op = "ack" /\ UG!has_fd(fd))
  <2>1. \E item : out_queue(fd, in) = <<item>> /\ item.frame.op # "request"
    BY <1>1 DEF out_queue, Item, assemble_login_result, assemble_ack
  <2>2. PICK item : out_queue(fd, in) = <<item>> /\ item.frame.op # "request"
    BY <2>1
  <2>3. i = 1
    BY <2>2
  <2> QED
    BY <2>2, <2>3
<1>2. CASE in.op = "request" /\ UG!has_fd(fd)
  <2> DEFINE fds == UG!query_all(in.uid)
             q == [j \in 1..Len(fds) |-> Item(in, fds[j])]
             r == Item(assemble_response(in, StatusOf(UG!online(in.uid))), fd)
  <2>1. out_queue(fd, in) = Append(q, r)
    BY <1>2 DEF out_queue, forwards
  <2>2. fds \in Seq(Fd) /\ Len(fds) \in Nat
    <3>1. fds \in Seq(Fd)
      BY EmptySeq DEF UG!query_all, UG!online, Inv, UGP!Inv, UGP!TypeOK
    <3> QED
      BY <3>1
  <2>3. \A j \in 1..Len(fds) :
           fds[j] \in DOMAIN fd_to_uid /\ fd_to_uid[fds[j]] = in.uid
    BY DEF UG!query_all, UG!online, Inv, UGP!Inv, UGP!InvariantsOk, UGP!ForwardExact,
           UGP!has_fd
  <2>4. \A j \in 1..Len(fds) :
           fds[j] \in DOMAIN conns /\ loginOf[fds[j]] = in.uid
    BY <2>3 DEF Bound, BindingsAreCurrent
  <2>5. in.uid \in Uid
    BY <1>2, InboundFields DEF Request
  <2>6. r.frame.op # "request"
    BY DEF Item, assemble_response
  <2> HIDE DEF fds, r
  <2>7. \A j \in 1..Len(fds) : q[j].frame = in /\ q[j].to = fds[j]
    BY DEF Item
  <2>8. /\ DOMAIN Append(q, r) = 1..Len(fds) + 1
        /\ \A j \in 1..Len(fds) : Append(q, r)[j] = q[j]
        /\ Append(q, r)[Len(fds) + 1] = r
    <3> DEFINE Elem == {q[j] : j \in 1..Len(fds)} \cup {r}
    <3>1. q \in [1..Len(fds) -> Elem] /\ r \in Elem
      OBVIOUS
    <3> HIDE DEF q, Elem
    <3>2. q \in Seq(Elem)
      BY <2>2, <3>1, IsASeq
    <3>3. Len(q) = Len(fds)
      BY <2>2, <3>1, <3>2
    <3> QED
      BY <2>2, <3>1, <3>2, <3>3, AppendProperties
  <2> HIDE DEF q
  <2>9. i \in 1..Len(fds)
    BY <2>1, <2>2, <2>6, <2>8
  <2> QED
    BY <1>2, <2>1, <2>4, <2>5, <2>7, <2>8, <2>9
<1>3. CASE /\ in.op # "login"
           /\ ~ (in.op = "ack" /\ UG!has_fd(fd))
           /\ ~ (in.op = "request" /\ UG!has_fd(fd))
  <2>1. out_queue(fd, in) = <<>>
    BY <1>3 DEF out_queue
  <2> QED
    BY <2>1
<1> QED
  BY <1>1, <1>2, <1>3

LEMMA DrainFrameRouted == Inv /\ Bound /\ Routed /\ DrainFrame => Routed'
<1> SUFFICES ASSUME Inv, Bound, Routed, DrainFrame
             PROVE  Routed'
  OBVIOUS
<1> DEFINE in == Head(read_buf)
<1>1. /\ pc = "drain" /\ send_queue = <<>> /\ UNCHANGED <<pc, batch, conns, sock>>
      /\ cur \in Fd \cap DOMAIN conns /\ in \in Inbound
  BY HeadInbound DEF DrainFrame, Inv, Struct, Closing, Handling, Data
<1>2. loginOf' # loginOf => /\ in.op = "login" /\ loginOf[cur] = NoUser
                            /\ loginOf' = [loginOf EXCEPT ![cur] = in.uid]
  BY DEF DrainFrame, history
<1>3. ASSUME NEW i \in DOMAIN send_queue', send_queue'[i].frame.op = "request"
      PROVE  send_queue'[i].frame.uid = loginOf'[send_queue'[i].to]
  <2>1. send_queue' # send_queue
    BY <1>1, <1>3
  <2>2. send_queue' = out_queue(cur, in)
    BY <2>1 DEF DrainFrame
  <2>3. i \in DOMAIN out_queue(cur, in) /\ out_queue(cur, in)[i].frame.op = "request"
    BY <1>3, <2>2
  <2>4. /\ in.op = "request"
        /\ out_queue(cur, in)[i].frame.uid = loginOf[out_queue(cur, in)[i].to]
    BY <1>1, <2>3, ForwardsCurrent
  <2>5. loginOf' = loginOf
    BY <1>2, <2>4
  <2> QED
    BY <2>2, <2>4, <2>5
<1>4. ASSUME NEW fd \in DOMAIN conns, NEW frame \in Unread(sock[fd], conns[fd]),
             frame.op = "request"
      PROVE  frame.uid = loginOf'[fd]
  <2>1. fd \in Fd /\ frame \in Outbound
    BY OutgoingRange DEF Inv, Struct, Closing
  <2>2. frame.uid = loginOf[fd] /\ frame.uid \in Uid
    BY <1>4, <2>1 DEF Routed, Outbound, Request, Reply, AckReply
  <2>3. loginOf \in [Fd -> Uid \cup {NoUser}]
    BY DEF Inv, Data, HistoryOK
  <2> QED
    BY <1>2, <2>1, <2>2, <2>3, FreshAssumption
<1> QED
  BY <1>1, <1>3, <1>4 DEF Routed

LEMMA RoutedNext == Inv /\ Bound /\ Blame /\ Routed /\ [Next]_vars => Routed'
<1> SUFFICES ASSUME Inv, Bound, Blame, Routed, [Next]_vars, ~ DrainFrame
             PROVE  Routed'
  BY DrainFrameRouted
<1>1. pc' # "drain" => send_queue' = <<>>
  <2>1. CASE Server
    BY <2>1 DEF Routed, Server, EpollWait, Accept, AcceptEnds, SkipEvent, HandleClient,
                HandleWrite, HandleRead, SendFrame, FinishClient, EndBatch,
                DrainPendingClose, loop
  <2>2. CASE Peers \/ UNCHANGED vars
    BY <2>2, PeersKeep DEF Routed, vars, loop, Inv, Data
  <2> QED
    BY <2>1, <2>2 DEF Next
<1>2. \A i \in DOMAIN send_queue' : \E j \in DOMAIN send_queue : send_queue'[i] = send_queue[j]
  <2>1. CASE UNCHANGED send_queue \/ send_queue' = <<>>
    BY <2>1
  <2>2. CASE send_queue # <<>> /\ send_queue' = Tail(send_queue)
    BY <2>2, TailRange DEF Inv, Data, LoopOK
  <2>3. CASE Server
    BY <2>1, <2>2, <2>3
       DEF Server, EpollWait, Accept, AcceptEnds, SkipEvent, HandleClient, HandleWrite,
           HandleRead, SendFrame, SendFailed, FinishClient, EndBatch, DrainPendingClose, loop
  <2>4. CASE Peers \/ UNCHANGED vars
    BY <2>1, <2>4, PeersKeep DEF vars, loop, Inv, Data
  <2> QED
    BY <2>3, <2>4 DEF Next
<1>3. \/ UNCHANGED loginOf
      \/ DrainPendingClose /\ pending_close # <<>>
  <2>1. CASE Server
    BY <2>1 DEF Server, EpollWait, Accept, AcceptEnds, SkipEvent, HandleClient,
                HandleWrite, HandleRead, SendFrame, FinishClient, EndBatch,
                DrainPendingClose, history
  <2>2. CASE Peers \/ UNCHANGED vars
    BY <2>2, PeersKeep DEF vars, history, Inv, Data
  <2> QED
    BY <2>1, <2>2 DEF Next
<1>4. CASE UNCHANGED loginOf
  <2>1. \A i \in DOMAIN send_queue' :
           send_queue'[i].frame.op = "request" =>
               send_queue'[i].frame.uid = loginOf'[send_queue'[i].to]
    BY <1>2, <1>4 DEF Routed
  <2>2. ASSUME NEW fd \in DOMAIN conns', NEW frame \in Unread(sock'[fd], conns'[fd]),
               frame.op = "request"
        PROVE  frame.uid = loginOf'[fd]
    <3>1. CASE fd \in DOMAIN conns /\ frame \in Unread(sock[fd], conns[fd])
      BY <1>4, <2>2, <3>1 DEF Routed
    <3>2. CASE /\ SendFrame
               /\ fd = Head(send_queue).to /\ frame = Head(send_queue).frame
      <4>1. 1 \in DOMAIN send_queue /\ Head(send_queue) = send_queue[1]
        BY <3>2, TailRange DEF SendFrame, Inv, Data, LoopOK
      <4> QED
        BY <1>4, <2>2, <3>2, <4>1 DEF Routed
    <3> QED
      BY <2>2, <3>1, <3>2, WrittenStep
  <2> QED
    BY <1>1, <2>1, <2>2 DEF Routed
<1>5. CASE DrainPendingClose /\ pending_close # <<>>
  <2> DEFINE gone == Head(pending_close)
  <2>1. /\ pc = "close" /\ UNCHANGED send_queue /\ gone \in Fd
        /\ DOMAIN conns' = DOMAIN conns \ {gone}
        /\ loginOf' = [loginOf EXCEPT ![gone] = NoUser]
    BY <1>5, HeadTailProperties DEF DrainPendingClose, Restrict, Inv, Struct, Closing
  <2>2. send_queue' = <<>>
    BY <2>1 DEF Routed
  <2>3. ASSUME NEW fd \in DOMAIN conns', NEW frame \in Unread(sock'[fd], conns'[fd]),
               frame.op = "request"
        PROVE  frame.uid = loginOf'[fd]
    <3>1. frame \in Unread(sock[fd], conns[fd])
      BY <1>5, <2>1, WrittenStep DEF SendFrame
    <3>2. loginOf'[fd] = loginOf[fd]
      BY <2>1 DEF Inv, Data, HistoryOK, Struct, Closing
    <3> QED
      BY <2>1, <2>3, <3>1, <3>2 DEF Routed
  <2> QED
    BY <2>2, <2>3 DEF Routed
<1> QED
  BY <1>3, <1>4, <1>5

LEMMA RoutedInit == Init => Routed
BY DEF Init, Routed

Service == Inv /\ Bound /\ Blame /\ Routed

LEMMA ServiceAlways ==
    /\ Init => Service
    /\ Service /\ [Next]_vars => Service'
BY InvInit, BoundInit, BlameInit, RoutedInit, InvNext, BoundNext, BlameNext, RoutedNext
   DEF Service

LEMMA RoutedSuffices == Service => NoMisdelivery
<1> SUFFICES ASSUME Service, NEW fd \in DOMAIN conns, NEW frame \in ToSet(Outgoing(fd)),
                    frame.op = "request"
             PROVE  frame.uid = loginOf[fd]
  BY DEF NoMisdelivery
<1>1. frame \in Unread(sock[fd], conns[fd])
  BY OutgoingRange DEF Service, Inv, Struct, Closing
<1> QED
  BY <1>1 DEF Service, Routed

(* A forwarded request only ever reaches a connection on which its         *)
(* receiver logged in, also when the fd had another owner before or is     *)
(* closed while the request is on its way (controller.cpp:86-112,          *)
(* core.cpp:219-276).                                                      *)
THEOREM NothingMisdelivered == Spec => []NoMisdelivery
  BY RoutedSuffices, ServiceAlways, PTL DEF Spec

-----------------------------------------------------------------------------
(* Login results.  A user that logged in has been sent the result, unless  *)
(* it is still in the queue or the connection is about to be closed; until *)
(* then no request is taken from the queue for it.                         *)

Greets(item, fd) == item.to = fd /\ IsGreeting(item.frame)

Greeting(fd) ==
    /\ pc = "drain" /\ fd = cur
    /\ fatal \/ \E i \in DOMAIN send_queue : Greets(send_queue[i], cur)

Greeted ==
    /\ \A fd \in DOMAIN epoll :
          loginOf[fd] # NoUser /\ greeting[fd] = "none" => Greeting(fd)
    /\ \A i \in DOMAIN send_queue :
          send_queue[i].frame.op = "request" /\ send_queue[i].to \in DOMAIN epoll
              => greeting[send_queue[i].to] # "none"
    /\ \A fd \in DOMAIN conns : \A frame \in Unread(sock[fd], conns[fd]) :
          frame.op = "request" => greeting[fd] # "none"

(* Where greeting does not change back, what was written stays in order.   *)
LEMMA WrittenGreeted ==
    ASSUME Service, Greeted, [Next]_vars,
           \A fd \in DOMAIN conns' :
              fd \in DOMAIN conns /\ greeting[fd] # "none" => greeting'[fd] # "none"
    PROVE  \A fd \in DOMAIN conns' : \A frame \in Unread(sock'[fd], conns'[fd]) :
              frame.op = "request" => greeting'[fd] # "none"
<1> SUFFICES ASSUME NEW fd \in DOMAIN conns', NEW frame \in Unread(sock'[fd], conns'[fd]),
                    frame.op = "request"
             PROVE  greeting'[fd] # "none"
  OBVIOUS
<1>1. CASE fd \in DOMAIN conns /\ frame \in Unread(sock[fd], conns[fd])
  BY <1>1 DEF Greeted
<1>2. CASE /\ SendFrame
           /\ ~ Undeliverable(Head(send_queue))
           /\ fd = Head(send_queue).to /\ frame = Head(send_queue).frame
  <2>1. 1 \in DOMAIN send_queue /\ Head(send_queue) = send_queue[1]
    BY <1>2, TailRange DEF SendFrame, Service, Inv, Data, LoopOK
  <2>2. fd \in DOMAIN epoll /\ fd \in DOMAIN conns
    BY <1>2 DEF Undeliverable, Service, Inv, Struct, Closing
  <2> QED
    BY <1>2, <2>1, <2>2 DEF Greeted
<1> QED
  BY <1>1, <1>2, WrittenStep DEF Service

LEMMA DrainFrameGreeted == Service /\ Greeted /\ DrainFrame => Greeted'
<1> SUFFICES ASSUME Service, Greeted, DrainFrame
             PROVE  Greeted'
  OBVIOUS
<1> DEFINE in == Head(read_buf)
<1>1. /\ pc = "drain" /\ send_queue = <<>> /\ ~ fatal
      /\ UNCHANGED <<pc, batch, conns, sock, epoll, greeting>>
      /\ cur \in Fd \cap DOMAIN conns /\ in \in Inbound
  BY HeadInbound DEF DrainFrame, Service, Inv, Struct, Closing, Handling, Data, history
<1>2. \A fd \in DOMAIN epoll : loginOf[fd] # NoUser => greeting[fd] # "none"
  BY <1>1 DEF Greeted, Greeting
<1>3. cur' = cur
  BY <1>1 DEF cur
<1>4. ASSUME NEW fd \in DOMAIN epoll, loginOf'[fd] # NoUser, greeting[fd] = "none"
      PROVE  fd = cur /\ \E i \in DOMAIN send_queue' : Greets(send_queue'[i], cur)
  <2>1. loginOf'[fd] # loginOf[fd]
    BY <1>2, <1>4
  <2>2. /\ in.op = "login" /\ auth(in) /\ loginOf[cur] = NoUser
        /\ loginOf' = [loginOf EXCEPT ![cur] = in.uid]
        /\ send_queue' = out_queue(cur, in)
    BY <2>1 DEF DrainFrame, history
  <2>3. fd = cur
    BY <2>1, <2>2 DEF Service, Inv, Data, HistoryOK
  <2>4. ~ UG!has_fd(cur)
    BY <1>1, <2>2, FreshAssumption
       DEF UG!has_fd, Service, Bound, BindingsAreCurrent, Inv, UGP!Inv, UGP!TypeOK
  <2>5. login_ok(cur, in)
    BY <2>2, <2>4 DEF login_ok, UG!RegisterResult
  <2>6. out_queue(cur, in) = <<Item(assemble_login_result(in, "ok"), cur)>>
    BY <2>2, <2>5 DEF out_queue, StatusOf
  <2>7. Greets(Item(assemble_login_result(in, "ok"), cur), cur)
    BY <2>2 DEF Greets, Item, assemble_login_result, IsGreeting
  <2> DEFINE item == Item(assemble_login_result(in, "ok"), cur)
  <2> HIDE DEF item
  <2>8. 1 \in DOMAIN <<item>> /\ <<item>>[1] = item
    OBVIOUS
  <2> QED
    BY <2>2, <2>3, <2>6, <2>7, <2>8 DEF item
<1>5. ASSUME NEW i \in DOMAIN send_queue', send_queue'[i].frame.op = "request",
             send_queue'[i].to \in DOMAIN epoll
      PROVE  greeting[send_queue'[i].to] # "none"
  <2>1. send_queue' # send_queue
    BY <1>1, <1>5
  <2>2. send_queue' = out_queue(cur, in)
    BY <2>1 DEF DrainFrame
  <2>3. /\ send_queue'[i].frame.uid = loginOf[send_queue'[i].to]
        /\ send_queue'[i].frame.uid \in Uid
    BY <1>1, <1>5, <2>2, ForwardsCurrent DEF Service
  <2> QED
    BY <1>2, <1>5, <2>3, FreshAssumption
<1> QED
  BY <1>1, <1>3, <1>4, <1>5 DEF Greeted, Greeting

LEMMA SendFrameGreeted == Service /\ Greeted /\ SendFrame => Greeted'
<1> SUFFICES ASSUME Service, Greeted, SendFrame
             PROVE  Greeted'
  OBVIOUS
<1> DEFINE item == Head(send_queue)
<1>1. /\ pc = "drain" /\ UNCHANGED <<pc, batch, loginOf>> /\ send_queue # <<>>
      /\ send_queue \in Seq([frame : Outbound, to : Fd])
      /\ DOMAIN conns' = DOMAIN conns /\ DOMAIN epoll' \subseteq DOMAIN epoll
      /\ DOMAIN epoll \subseteq Fd
  <2>1. DOMAIN epoll' \subseteq DOMAIN epoll
    BY DEF SendFrame, SendFailed, Rearm, update_events, close_client, Restrict
  <2> QED
    BY <2>1 DEF SendFrame, Written, Service, Inv, Struct, Closing, Data, LoopOK
<1>2. cur' = cur
  BY <1>1 DEF cur
<1>3. /\ \A i \in DOMAIN Tail(send_queue) :
            i + 1 \in DOMAIN send_queue /\ Tail(send_queue)[i] = send_queue[i + 1]
      /\ \A i \in DOMAIN send_queue :
            i = 1 \/ (i - 1 \in DOMAIN Tail(send_queue) /\ Tail(send_queue)[i - 1] = send_queue[i])
      /\ item = send_queue[1]
  BY <1>1, TailRange
<1>4. /\ \A fd \in Fd : greeting[fd] # "none" => greeting'[fd] # "none"
      /\ greeting \in [Fd -> {"none", "sent", "dropped"}] /\ item.to \in Fd
  <2>1. greeting \in [Fd -> {"none", "sent", "dropped"}]
    BY DEF Service, Inv, Data, HistoryOK
  <2>2. item \in [frame : Outbound, to : Fd]
    BY <1>1, HeadTailProperties
  <2> HIDE DEF item
  <2>3. \/ UNCHANGED greeting
        \/ greeting' = [greeting EXCEPT ![item.to] = "sent"]
        \/ greeting' = [greeting EXCEPT ![item.to] = "dropped"]
    BY DEF SendFrame, Accepted, Dropped, item
  <2> QED
    BY <2>1, <2>2, <2>3
<1>5. send_queue' = Tail(send_queue) \/ (send_queue' = <<>> /\ fatal')
  BY DEF SendFrame, SendFailed
<1>6. ASSUME NEW fd \in DOMAIN epoll', loginOf[fd] # NoUser, greeting'[fd] = "none"
      PROVE  fd = cur /\ (fatal' \/ \E i \in DOMAIN send_queue' : Greets(send_queue'[i], cur))
  <2>1. Greeting(fd)
    BY <1>1, <1>4, <1>6 DEF Greeted
  <2>2. fd = cur /\ (fatal \/ \E i \in DOMAIN send_queue : Greets(send_queue[i], cur))
    BY <2>1 DEF Greeting
  <2>3. fatal => fatal'
    BY DEF SendFrame, SendFailed
  <2>4. Greets(item, cur) => fatal'
    <3> SUFFICES ASSUME Greets(item, cur)
                 PROVE  fatal'
      OBVIOUS
    <3>1. CASE SendFailed(item.to)
      BY <3>1 DEF SendFailed, Greets
    <3>2. CASE Accepted(item) \/ Dropped(item)
      BY <1>4, <1>6, <2>2, <3>2 DEF Accepted, Dropped, Greets
    <3> QED
      BY <3>1, <3>2 DEF SendFrame
  <2>5. CASE send_queue' = Tail(send_queue) /\ ~ fatal'
    <3>1. PICK i \in DOMAIN send_queue : Greets(send_queue[i], cur)
      BY <2>2, <2>3, <2>5
    <3>2. i # 1
      BY <1>3, <2>4, <2>5, <3>1
    <3> QED
      BY <1>3, <2>2, <2>5, <3>1, <3>2
  <2> QED
    BY <1>5, <2>2, <2>5
<1>7. ASSUME NEW i \in DOMAIN send_queue', send_queue'[i].frame.op = "request",
             send_queue'[i].to \in DOMAIN epoll'
      PROVE  greeting'[send_queue'[i].to] # "none"
  <2>1. send_queue' = Tail(send_queue)
    BY <1>5, <1>7
  <2>2. i + 1 \in DOMAIN send_queue /\ send_queue'[i] = send_queue[i + 1]
    BY <1>3, <1>7, <2>1
  <2>3. greeting[send_queue[i + 1].to] # "none" /\ send_queue[i + 1].to \in Fd
    BY <1>1, <1>7, <2>2 DEF Greeted
  <2> QED
    BY <1>4, <2>2, <2>3
<1>8. \A fd \in DOMAIN conns' : \A frame \in Unread(sock'[fd], conns'[fd]) :
         frame.op = "request" => greeting'[fd] # "none"
  <2>1. [Next]_vars
    BY DEF Next, Server
  <2>2. DOMAIN conns \subseteq Fd
    BY DEF Service, Inv, Struct, Closing
  <2> QED
    BY <1>1, <1>4, <2>1, <2>2, WrittenGreeted
<1> QED
  BY <1>1, <1>2, <1>6, <1>7, <1>8 DEF Greeted, Greeting

(* Elsewhere nobody is between login and login result. *)
LEMMA OtherGreeted ==
    Service /\ Greeted /\ [Next]_vars /\ ~ DrainFrame /\ ~ SendFrame => Greeted'
<1> SUFFICES ASSUME Service, Greeted, [Next]_vars, ~ DrainFrame, ~ SendFrame
             PROVE  Greeted'
  OBVIOUS
<1> USE DEF Service, Inv
<1>1. \A fd \in DOMAIN conns : fd \in Fd
  BY DEF Struct, Closing
<1>2. CASE Peers \/ UNCHANGED vars
  <2>1. UNCHANGED <<conns, epoll, loop, history>>
    BY <1>2, PeersKeep DEF vars, Data
  <2>2. \A fd \in DOMAIN conns' : \A frame \in Unread(sock'[fd], conns'[fd]) :
           frame.op = "request" => greeting'[fd] # "none"
    BY <2>1, WrittenGreeted DEF history
  <2> QED
    BY <2>1, <2>2 DEF Greeted, Greeting, loop, history, cur
<1>3. CASE Server /\ ~ DrainPendingClose
  <2>1. UNCHANGED <<loginOf, greeting>>
    BY <1>3 DEF Server, EpollWait, Accept, AcceptEnds, SkipEvent, HandleClient,
                HandleWrite, HandleRead, FinishClient, EndBatch, history
  <2>2. send_queue = <<>> /\ send_queue' = <<>>
    BY <1>3 DEF Routed, Server, EpollWait, Accept, AcceptEnds, SkipEvent, HandleClient,
                HandleWrite, HandleRead, FinishClient, EndBatch, loop
  <2>3. \A fd \in DOMAIN conns' : \A frame \in Unread(sock'[fd], conns'[fd]) :
           frame.op = "request" => greeting'[fd] # "none"
    BY <2>1, WrittenGreeted
  <2>4. ASSUME NEW fd \in DOMAIN epoll', loginOf[fd] # NoUser
        PROVE  greeting[fd] # "none"
    <3>1. CASE FinishClient
      <4>1. close_client(cur) => fd \in DOMAIN epoll /\ fd # cur
        BY <2>4 DEF close_client, Restrict
      <4>2. ~ close_client(cur) => ~ fatal /\ update_events(cur, conns[cur])
        BY <3>1 DEF FinishClient, ToBeClosed
      <4>3. ~ close_client(cur) => ~ fatal /\ fd \in DOMAIN epoll
        BY <2>4, <4>2 DEF update_events
      <4> QED
        BY <2>2, <2>4, <4>1, <4>3 DEF Greeted, Greeting
    <3>2. CASE Accept
      <4>1. PICK new \in Fd \ DOMAIN conns : DOMAIN epoll' = DOMAIN epoll \cup {new}
        BY <3>2 DEF Accept, Watch
      <4>2. loginOf[new] = NoUser
        BY <4>1 DEF Bound, BindingsAreCurrent
      <4>3. pc # "drain"
        BY <3>2 DEF Accept
      <4> QED
        BY <2>4, <4>1, <4>2, <4>3 DEF Greeted, Greeting
    <3>3. CASE ~ FinishClient /\ ~ Accept
      <4>1. pc # "drain"
        BY <1>3, <3>3 DEF Server, EpollWait, AcceptEnds, SkipEvent, HandleClient,
                          HandleWrite, HandleRead, EndBatch
      <4>2. fd \in DOMAIN epoll
        BY <1>3, <2>4, <3>3
           DEF Server, EpollWait, AcceptEnds, SkipEvent, HandleClient, HandleWrite,
               HandleRead, EndBatch, update_events, close_client, Restrict
      <4> QED
        BY <2>4, <4>1, <4>2 DEF Greeted, Greeting
    <3> QED
      BY <3>1, <3>2, <3>3
  <2> QED
    BY <2>1, <2>2, <2>3, <2>4 DEF Greeted
<1>4. CASE DrainPendingClose
  <2>1. CASE pending_close = <<>>
    <3>1. UNCHANGED <<conns, epoll, loginOf, greeting, send_queue>> /\ pc = "close"
      BY <1>4, <2>1 DEF DrainPendingClose
    <3>2. \A fd \in DOMAIN conns' : \A frame \in Unread(sock'[fd], conns'[fd]) :
             frame.op = "request" => greeting'[fd] # "none"
      BY <3>1, WrittenGreeted
    <3> QED
      BY <3>1, <3>2 DEF Greeted, Greeting
  <2>2. CASE pending_close # <<>>
    <3> DEFINE gone == Head(pending_close)
    <3>1. /\ pc = "close" /\ UNCHANGED <<epoll, send_queue>>
          /\ DOMAIN conns' = DOMAIN conns \ {gone}
          /\ loginOf' = [loginOf EXCEPT ![gone] = NoUser]
          /\ greeting' = [greeting EXCEPT ![gone] = "none"]
      BY <1>4, <2>2 DEF DrainPendingClose, Restrict
    <3>2. gone \in Fd /\ gone \notin DOMAIN epoll /\ DOMAIN epoll \subseteq DOMAIN conns
      BY <2>2, DistinctTail DEF Struct, Closing
    <3> HIDE DEF gone
    <3>3. \A fd \in Fd \ {gone} : greeting'[fd] = greeting[fd] /\ loginOf'[fd] = loginOf[fd]
      BY <3>1, <3>2 DEF Data, HistoryOK
    <3>4. \A fd \in DOMAIN conns' : \A frame \in Unread(sock'[fd], conns'[fd]) :
             frame.op = "request" => greeting'[fd] # "none"
      BY <1>1, <3>1, <3>3, WrittenGreeted
    <3>5. send_queue' = <<>>
      BY <3>1 DEF Routed
    <3>6. ASSUME NEW fd \in DOMAIN epoll', loginOf'[fd] # NoUser
          PROVE  greeting'[fd] # "none"
      BY <1>1, <3>1, <3>2, <3>3, <3>6 DEF Greeted, Greeting
    <3> QED
      BY <3>4, <3>5, <3>6 DEF Greeted
  <2> QED
    BY <2>1, <2>2
<1> QED
  BY <1>2, <1>3, <1>4 DEF Next

LEMMA GreetedInit == Init => Greeted
BY DEF Init, Greeted

LEMMA GreetedSuffices == Service /\ Greeted => LoginResultFirst
<1> SUFFICES ASSUME Service, Greeted, NEW fd \in DOMAIN conns,
                    NEW frame \in ToSet(Outgoing(fd)), frame.op = "request"
             PROVE  greeting[fd] # "none"
  BY DEF LoginResultFirst
<1>1. frame \in Unread(sock[fd], conns[fd])
  BY OutgoingRange DEF Service, Inv, Struct, Closing
<1> QED
  BY <1>1 DEF Greeted

(* The first thing a client gets after logging in is the result, however   *)
(* quickly others write to it: no request overtakes it (main.cpp:27-33,    *)
(* core.cpp:214-276).                                                      *)
THEOREM LoginResultIsFirst == Spec => []LoginResultFirst
<1>1. Service /\ Greeted /\ [Next]_vars => Greeted'
  BY DrainFrameGreeted, SendFrameGreeted, OtherGreeted
<1> QED
  BY <1>1, GreetedSuffices, GreetedInit, ServiceAlways, PTL DEF Spec
=============================================================================
