------------------------------ MODULE MCCodec ------------------------------
(* TLC instance of Codec: a limit of 15 bytes, numbers and contents that   *)
(* bring a body to it and over it.                                         *)
EXTENDS Codec

integer(value, len) == [float |-> FALSE, value |-> value, len |-> len]
Numbers ==
    {integer(1, 1), integer(12, 2), integer(511, 3), integer(-1, 2), integer(-2, 2),
     [float |-> TRUE, value |-> 9000, len |-> 3]}
Bytes == {70, 255}
Contents ==
    {[text |-> 1, held |-> 1, dumped |-> 1],
     [text |-> 6, held |-> 1, dumped |-> 1],
     [text |-> 7, held |-> 7, dumped |-> 7]}
Paddings == {0, 1}
=============================================================================
