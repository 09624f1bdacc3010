----------------------------- MODULE JsonString -----------------------------
(***************************************************************************)
(* What becomes of a text of a message on its way through the server: the  *)
(* decoder's parser reads it (lexer::scan_string of include/json.hpp), the *)
(* encoder writes it anew (serializer::dump_escaped, which checks it with  *)
(* an automaton of its own), and the receiver's parser reads that.         *)
(*                                                                         *)
(* The parser turns the text into a string and the serializer turns the    *)
(* string into text, byte by byte and from left to right, so the three are *)
(* run in step here; each has its own state.  Encoder::encode relies on    *)
(* what they do together: a string that was parsed can be dumped, is not   *)
(* longer as a text than it was (encoder.h:78-81), and arrives unchanged.  *)
(***************************************************************************)
EXTENDS Integers, Sequences

CONSTANTS
    BufferSize,     \* of the serializer's string_buffer (512)
    TextByte,       \* the bytes that occur in texts
    Unit            \* the UTF-16 code units that occur in \u escapes

Byte == \h00..\hFF
CodeUnit == \h0000..\hFFFF

(* What may follow the first byte of a character, and after certain first  *)
(* bytes: without longer forms of short characters, without surrogates,    *)
(* without code points above 0x10FFFF.                                     *)
Cont == \h80..\hBF
ContE0 == \hA0..\hBF
ContED == \h80..\h9F
ContF0 == \h90..\hBF
ContF4 == \h80..\h8F

ASSUME BufferAssumption == BufferSize \in Nat /\ BufferSize >= 20
ASSUME TextAssumption == TextByte \subseteq Byte /\ Unit \subseteq CodeUnit

VARIABLES
    expects,    \* the parser: what it demands of the next bytes of the character
    token,      \* bytes of the string, parsed and not serialized yet
    utf8,       \* the serializer: state of its automaton
    codepoint,  \* the serializer: what it has of the code point, 0 when done
    bytes,      \* the serializer: how far string_buffer is filled
    top,        \* history: how far its last write reached
    again,      \* the receiver's parser: as expects
    agree,      \* history: the receiver has read the bytes that were dumped
    taken,      \* history: length of the character in the text
    held,       \* history: in the string
    written     \* history: in the new text

parser == <<expects, token, taken, held>>
serializer == <<utf8, codepoint, bytes, top, written>>
receiver == <<again, agree>>
vars == <<parser, serializer, receiver>>

-----------------------------------------------------------------------------
(* The pieces a text consists of: bytes that stand for themselves, short   *)
(* escapes (a backslash and a letter, named here by what it stands for),   *)
(* \u escapes and pairs of them.                                           *)

ShortEscaped == {\h22, \h5C, \h2F, \h08, \h0C, \h0A, \h0D, \h09}

raw(b) == [kind |-> "raw", byte |-> b]
short(b) == [kind |-> "short", byte |-> b]
escape(u) == [kind |-> "escape", unit |-> u]
pair(u, v) == [kind |-> "pair", high |-> u, low |-> v]

LengthOf(piece) ==
    CASE piece.kind = "raw" -> 1
      [] piece.kind = "short" -> 2
      [] piece.kind = "escape" -> 6
      [] piece.kind = "pair" -> 12

-----------------------------------------------------------------------------
(* scan_string *)

(* Seeded fault: encoded surrogates pass. *)
LeadsSurrogates(b) ==
    CASE b \in \hC2..\hDF -> <<Cont>>
      [] b = \hE0 -> <<ContE0, Cont>>
      [] b \in \hE1..\hEF -> <<Cont, Cont>>
      [] b = \hF0 -> <<ContF0, Cont, Cont>>
      [] b \in \hF1..\hF3 -> <<Cont, Cont, Cont>>
      [] b = \hF4 -> <<ContF4, Cont, Cont>>
      [] OTHER -> <<>>

(* The bytes that must follow the first one of a character. *)
Leads(b) ==
    CASE b \in \hC2..\hDF -> <<Cont>>
      [] b = \hE0 -> <<ContE0, Cont>>
      [] b \in \hE1..\hEF /\ b # \hED -> <<Cont, Cont>>
      [] b = \hED -> <<ContED, Cont>>
      [] b = \hF0 -> <<ContF0, Cont, Cont>>
      [] b \in \hF1..\hF3 -> <<Cont, Cont, Cont>>
      [] b = \hF4 -> <<ContF4, Cont, Cont>>
      [] OTHER -> <<>>

Starts(b) == b \in (\h20..\h7F \ {\h22, \h5C}) \cup \hC2..\hF4

IsHigh(u) == u \in \hD800..\hDBFF
IsLow(u) == u \in \hDC00..\hDFFF

(* Whether the parser accepts piece when it demands exp. *)
Accepts(exp, piece) ==
    IF exp # <<>> THEN piece.kind = "raw" /\ piece.byte \in Head(exp)
    ELSE CASE piece.kind = "raw" -> Starts(piece.byte)
           [] piece.kind = "short" -> TRUE
           [] piece.kind = "escape" -> ~ IsHigh(piece.unit) /\ ~ IsLow(piece.unit)
           [] piece.kind = "pair" -> IsHigh(piece.high) /\ IsLow(piece.low)

(* What it demands then. *)
After(exp, piece) ==
    IF exp # <<>> THEN Tail(exp)
    ELSE IF piece.kind = "raw" THEN Leads(piece.byte) ELSE <<>>

PointOf(piece) ==
    IF piece.kind = "escape" THEN piece.unit
    ELSE piece.high * 1024 + piece.low - \h35FDC00

(* A code point in bytes; the code shifts and masks. *)
Encoded(point) ==
    LET Low6(n) == \h80 + ((point \div n) % 64)
    IN  IF point < \h80 THEN <<point>>
        ELSE IF point <= \h7FF THEN <<\hC0 + point \div 64, Low6(1)>>
        ELSE IF point <= \hFFFF THEN <<\hE0 + point \div 4096, Low6(64), Low6(1)>>
        ELSE <<\hF0 + point \div 262144, Low6(4096), Low6(64), Low6(1)>>

(* What it adds to the string. *)
ValueOf(piece) ==
    IF piece.kind \in {"raw", "short"} THEN <<piece.byte>> ELSE Encoded(PointOf(piece))

Boundary == expects = <<>> /\ token = <<>>

Scan(piece) ==
    /\ token = <<>>
    /\ Accepts(expects, piece)
    /\ expects' = After(expects, piece)
    /\ token' = ValueOf(piece)
    /\ LET so_far(n) == IF expects = <<>> THEN 0 ELSE n
       IN  /\ taken' = so_far(taken) + LengthOf(piece)
           /\ held' = so_far(held) + Len(ValueOf(piece))
           /\ written' = so_far(written)
    /\ UNCHANGED <<utf8, codepoint, bytes, top, receiver>>

Parse ==
    \/ \E b \in TextByte : Scan(raw(b))
    \/ \E b \in ShortEscaped : Scan(short(b))
    \/ \E u \in Unit : Scan(escape(u)) \/ \E v \in Unit : Scan(pair(u, v))

-----------------------------------------------------------------------------
(* dump_escaped *)

ACCEPT == 0
REJECT == 1

(* decode()'s table utf8d: the class of a byte *)
ClassOf(b) ==
    CASE b \in \h00..\h7F -> 0
      [] b \in \h80..\h8F -> 1
      [] b \in \h90..\h9F -> 9
      [] b \in \hA0..\hBF -> 7
      [] b \in \hC2..\hDF -> 2
      [] b = \hE0 -> 10
      [] b = \hED -> 4
      [] b \in \hE1..\hEF /\ b # \hED -> 3
      [] b = \hF0 -> 11
      [] b \in \hF1..\hF3 -> 6
      [] b = \hF4 -> 5
      [] OTHER -> 8

(* and the state that a state and a class lead to. *)
Transition(state, class) ==
    CASE state = ACCEPT ->
            <<0, 1, 2, 3, 5, 8, 7, 1, 1, 1, 4, 6>>[class + 1]
      [] state = 2 /\ class \in {1, 7, 9} -> ACCEPT
      [] state = 3 /\ class \in {1, 7, 9} -> 2
      [] state = 4 /\ class = 7 -> 2
      [] state = 5 /\ class \in {1, 9} -> 2
      [] state = 6 /\ class \in {7, 9} -> 3
      [] state = 7 /\ class \in {1, 7, 9} -> 3
      [] state = 8 /\ class = 1 -> 3
      [] OTHER -> REJECT

(* 0xFF >> class, as a modulus *)
LeadBits(class) == <<256, 128, 64, 32, 16, 8, 4, 2, 1, 1, 1, 1>>[class + 1]

Point(b) ==
    IF utf8 # ACCEPT THEN codepoint * 64 + (b % 64) ELSE b % LeadBits(ClassOf(b))

NamedEscapes == {\h08, \h09, \h0A, \h0C, \h0D, \h22, \h5C}

(* Seeded fault: 0x1F is not taken for a control character. *)
EscapedFrom1E(state, point, b) ==
    IF state # ACCEPT THEN raw(b)
    ELSE IF point \in NamedEscapes THEN short(point)
    ELSE IF point < \h1F THEN escape(point)
    ELSE raw(b)

(* Seeded fault: everything that is not ASCII is escaped. *)
EscapedToAscii(state, point, b) ==
    IF state # ACCEPT THEN raw(b)
    ELSE IF point \in NamedEscapes THEN short(point)
    ELSE IF point <= \h1F \/ point \in \h7F..\hFFFF THEN escape(point)
    ELSE raw(b)

(* What is put into string_buffer for a byte that ends in state, with      *)
(* ensure_ascii false: bytes of longer characters are copied as they come. *)
Escaped(state, point, b) ==
    IF state # ACCEPT THEN raw(b)
    ELSE IF point \in NamedEscapes THEN short(point)
    ELSE IF point <= \h1F THEN escape(point)
    ELSE raw(b)

(* Seeded fault: the zero that snprintf adds is not counted. *)
FlushedTight(n) == IF BufferSize - n < 6 THEN 0 ELSE n

(* The buffer is written out when 13 bytes may no longer fit. *)
Flushed(n) == IF BufferSize - n < 13 THEN 0 ELSE n

(* A byte is serialized, and the receiver reads what comes out.  Invalid   *)
(* bytes throw (the error handler is strict).                              *)
Dump ==
    /\ token # <<>> /\ utf8 # REJECT
    /\ LET b == Head(token)
           state == Transition(utf8, ClassOf(b))
           piece == Escaped(state, Point(b), b)
           end == bytes + LengthOf(piece)
       IN  /\ utf8' = state
           /\ codepoint' = IF state = ACCEPT THEN 0 ELSE Point(b)
           /\ IF state = REJECT THEN UNCHANGED <<bytes, top, written, receiver>>
              ELSE /\ bytes' = IF state = ACCEPT THEN Flushed(end) ELSE end
                   /\ top' = IF piece.kind = "escape" THEN end + 1 ELSE end
                   /\ written' = written + LengthOf(piece)
                   /\ agree' = (Accepts(again, piece) /\ ValueOf(piece) = <<b>>)
                   /\ again' = After(again, piece)
    /\ token' = Tail(token)
    /\ UNCHANGED <<expects, taken, held>>

-----------------------------------------------------------------------------
Init ==
    /\ expects = <<>> /\ token = <<>>
    /\ utf8 = ACCEPT /\ codepoint = 0
    /\ bytes = 0 /\ top = 0
    /\ again = <<>> /\ agree = TRUE
    /\ taken = 0 /\ held = 0 /\ written = 0

Next == Parse \/ Dump

Spec == Init /\ [][Next]_vars

-----------------------------------------------------------------------------
(* Properties *)

(* The serializer's automaton accepts whatever the parser accepted, so     *)
(* dump() never throws for a text that came in: of the exceptions          *)
(* encode() catches, only those of memory are left (encoder.h:116-118).    *)
DumpNeverThrows == utf8 # REJECT /\ (Boundary => utf8 = ACCEPT)

(* No character gets longer as a text, and none is shorter as a text than  *)
(* in the string: encode() refuses a string above the limit because its    *)
(* text would be, too (encoder.h:78-81).                                   *)
NeverLonger == Boundary => held <= written /\ written <= taken

(* The receiver's parser gets the same string: it accepts each piece and   *)
(* is at the end of a character when the serializer is.                    *)
ReadBackSame == agree /\ (Boundary => again = <<>>)

(* Nothing is written behind the end of string_buffer: the margin of 13    *)
(* covers the bytes of an unfinished character, which are not checked for. *)
BufferFits == top <= BufferSize
=============================================================================
