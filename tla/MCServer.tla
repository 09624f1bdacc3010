------------------------------ MODULE MCServer ------------------------------
(* TLC instance of Server. *)
EXTENDS Server

CONSTANTS a, f      \* a user and a file descriptor

login == [op |-> "login", uid |-> a, credential |-> "right", fits |-> TRUE]
request == [op |-> "request", uid |-> a, fits |-> TRUE]

(* Everything a peer may send: logins that fail, frames that are not       *)
(* answered or whose answer is too long to send, bytes that are no frame.  *)
Frames ==
    {login, [login EXCEPT !.credential = "wrong"], [login EXCEPT !.fits = FALSE],
     request, [request EXCEPT !.fits = FALSE],
     [op |-> "ack", fits |-> TRUE], [op |-> "ack", fits |-> FALSE],
     [op |-> "response"], [op |-> "garbled"]}
=============================================================================
