--------------------------- MODULE MCConnections ---------------------------
(* TLC instance of Connections: frames of one to MaxLen bytes over two     *)
(* byte values, so that a byte out of place shows.                         *)
EXTENDS Connections

CONSTANT MaxLen

MCByte == {0, 1}
MCData == UNION {[1..n -> MCByte] : n \in 1..MaxLen}
=============================================================================
