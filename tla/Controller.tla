----------------------------- MODULE Controller -----------------------------
(***************************************************************************)
(* The coordination layer: controller::Controller::process                 *)
(* (src/server/controller/controller.cpp) over the tables of UsersGroup,   *)
(* with the frames that coordination::Assembler builds.  process() is the  *)
(* core's message handler: given a decoded frame of connection fd, it      *)
(* changes the tables and answers with the queue of frames to send, each   *)
(* with the fd it goes to.                                                 *)
(*                                                                         *)
(* A frame is what the properties tell apart of it: the opcode, the user   *)
(* it names, and for a reply the frame whose body it echoes.               *)
(***************************************************************************)
EXTENDS Integers, Sequences, SequencesExt

CONSTANTS
    Uid,    \* the users in the user table
    Fd      \* file descriptors of connections

VARIABLES uid_to_fd, fd_to_uid      \* the tables of UsersGroup

UG == INSTANCE UsersGroup

-----------------------------------------------------------------------------
(* Frames *)

(* fits tells whether the body, serialised again to be sent on, stays      *)
(* within the limit: it may grow, as the reply to an ack takes six bytes   *)
(* of JSON for its content and an enum received as -2 is written as 254.   *)
Login    == [op : {"login"}, uid : Uid, credential : {"right", "wrong"}, fits : BOOLEAN]
Request  == [op : {"request"}, uid : Uid, fits : BOOLEAN]       \* uid is to_uid_
Ack      == [op : {"ack"}, fits : BOOLEAN]

Response == [op : {"response"}]

(* Bytes that Decoder::decode rejects with error or frame_too_long. *)
Garbled  == [op : {"garbled"}]

Inbound == Login \cup Request \cup Ack \cup Response \cup Garbled

(* The frames the server sends: forwarded requests and replies. *)
Reply    == [op : {"response"}, status : {"ok", "fail"}, of : Login \cup Request]
AckReply == [op : {"ack"}, of : Ack]

Outbound == Request \cup Reply \cup AckReply

Decodable(frame) == frame \notin Garbled

(* What Encoder::encode refuses with frame_too_long. *)
Encodable(frame) == IF frame.op = "request" THEN frame.fits ELSE frame.of.fits

-----------------------------------------------------------------------------
(* Assembler *)

assemble_response(in, status) == [op |-> "response", status |-> status, of |-> in]

assemble_login_result(in, status) == [op |-> "response", status |-> status, of |-> in]

assemble_ack(in) == [op |-> "ack", of |-> in]

-----------------------------------------------------------------------------
(* Controller *)

auth(in) == in.credential = "right"

(* Seeded fault: only a repeated login counts as a success. *)
LoginOkTwice(fd, in) == auth(in) /\ UG!RegisterResult(in.uid, fd) = "AlreadyBound"

(* A right credential binds the connection, unless it is bound to another *)
(* user already.                                                           *)
login_ok(fd, in) == auth(in) /\ UG!RegisterResult(in.uid, fd) # "FdConflict"

StatusOf(ok) == IF ok THEN "ok" ELSE "fail"

Item(frame, fd) == [frame |-> frame, to |-> fd]

(* Seeded fault: the answer for an offline receiver is used as an fd. *)
ForwardsUnchecked(in) ==
    LET fds == IF UG!online(in.uid) THEN UG!query_all(in.uid) ELSE <<-1>>
    IN  [i \in 1..Len(fds) |-> Item(in, fds[i])]

(* One copy of a request for every device of its receiver. *)
forwards(in) ==
    LET fds == UG!query_all(in.uid)
    IN  [i \in 1..Len(fds) |-> Item(in, fds[i])]

(* The frames process() leaves in out_queue.  The sender's own reply comes *)
(* after the forwarded copies and says whether the receiver is online.     *)
out_queue(fd, in) ==
    CASE in.op = "login" ->
            <<Item(assemble_login_result(in, StatusOf(login_ok(fd, in))), fd)>>
      [] in.op = "ack" /\ UG!has_fd(fd) ->
            <<Item(assemble_ack(in), fd)>>
      [] in.op = "request" /\ UG!has_fd(fd) ->
            Append(forwards(in), Item(assemble_response(in, StatusOf(UG!online(in.uid))), fd))
      [] OTHER -> <<>>

(* What process() does to the tables. *)
process(fd, in) ==
    \/ /\ in.op = "login"
       /\ auth(in)
       /\ UG!register_user(in.uid, fd)
    \/ /\ in.op = "login" => ~ auth(in)
       /\ UNCHANGED <<uid_to_fd, fd_to_uid>>

(* Seeded fault: a disconnect is not reported to the users group. *)
DeleteFdForgotten(fd) == UNCHANGED <<uid_to_fd, fd_to_uid>>

(* The disconnect handler. *)
delete_fd(fd) == UG!delete_fd(fd)
=============================================================================
