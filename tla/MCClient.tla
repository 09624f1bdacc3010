------------------------------ MODULE MCClient ------------------------------
(* TLC instance of Client.  A header is the status (0 is ok) and the       *)
(* length of the body.                                                     *)
EXTENDS Client

MCByte == 0..3
MCBodyLen(h) == h[2]
MCStatusOk(h) == h[1] = 0
MCLoginResult == {<<0, 2, 3, 3>>, <<1, 2, 3, 3>>}
MCReply == {<<0, 1, 3>>, <<0, 3, 3, 1, 2>>}
=============================================================================
