----------------------------- MODULE MCFraming -----------------------------
(* TLC instance of Framing.  A header is two bytes, the code (1 is known)  *)
(* and the length of the body; a body parses when it starts with 1.        *)
EXTENDS Framing

MCByte == 0..4
MCKnown(h) == h[1] = 1
MCBodyLen(h) == h[2]
MCParses(body) == body # <<>> /\ body[1] = 1

(* Two frames, one of the largest size; an unknown code, an empty body, a  *)
(* body that does not parse, and one that is too long.                     *)
MCItem ==
    {<<1, 1, 1>>, <<1, 3, 1, 1, 2>>,
     <<0, 1, 1>>, <<1, 0>>, <<1, 1, 2>>, <<1, 4, 1, 1, 1, 1>>}
=============================================================================
