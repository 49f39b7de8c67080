------------------------------- MODULE Base64 -------------------------------
(***************************************************************************)
(* The encoder and decoder of module/stl/src/stl_base64.c.  Bytes are      *)
(* 0 .. 255 and characters are their codes.                                *)
(***************************************************************************)
EXTENDS Integers, Sequences, SequencesExt

CONSTANTS
    SourceByte, MaxBytes,  \* bytes that are encoded, and how many at most
    TextChar, MaxChars     \* characters that are decoded, and how many at most

ASSUME Base64Assumption ==
    SourceByte \subseteq 0 .. 255 /\ TextChar \subseteq 0 .. 255 /\ {MaxBytes, MaxChars} \subseteq Nat

VARIABLES
    plain,  \* what is given to stl_base64_encode
    text    \* what is given to stl_base64_decode

b64Vars == <<plain, text>>

B64Init == plain = << >> /\ text = << >>

GrowPlain ==
    /\ text = << >> /\ Len(plain) < MaxBytes
    /\ \E b \in SourceByte : plain' = Append(plain, b)
    /\ UNCHANGED text

GrowText ==
    /\ plain = << >> /\ Len(text) < MaxChars
    /\ \E c \in TextChar : text' = Append(text, c)
    /\ UNCHANGED plain

B64Next == GrowPlain \/ GrowText

B64Spec == B64Init /\ [][B64Next]_b64Vars

Equals == 61
Whitespace == {32, 9, 10, 13}

\* The table _base64.
Symbol(v) ==
    CASE v < 26 -> 65 + v  [] v \in 26 .. 51 -> 97 + v - 26
      [] v \in 52 .. 61 -> 48 + v - 52  [] v = 62 -> 43  [] v = 63 -> 47

\* The table b64lookup, and -1 for what lies outside it.
ValueOf(c) ==
    CASE c = 43 -> 62  [] c = 47 -> 63  [] c \in 48 .. 57 -> 52 + c - 48
      [] c \in 65 .. 90 -> c - 65  [] c \in 97 .. 122 -> 26 + c - 97  [] OTHER -> -1

\* Six bits of buf as a character; instead of a shift its power of two.
Sextet(buf, weight) == Symbol((buf \div weight) % 64)

\* Mutant: a group of two bytes is padded like a group of one.
EncodeGroupShort(bytes) ==
    LET at(i) == IF i > Len(bytes) THEN 0 ELSE bytes[i]
        buf == at(1) * 65536 + at(2) * 256 + at(3)
    IN <<Sextet(buf, 262144), Sextet(buf, 4096),
         IF Len(bytes) > 2 THEN Sextet(buf, 64) ELSE Equals,
         IF Len(bytes) > 2 THEN Sextet(buf, 1) ELSE Equals>>

\* Four characters for the one, two or three bytes that buf has collected.
EncodeGroup(bytes) ==
    LET at(i) == IF i > Len(bytes) THEN 0 ELSE bytes[i]
        buf == at(1) * 65536 + at(2) * 256 + at(3)
    IN <<Sextet(buf, 262144), Sextet(buf, 4096),
         IF Len(bytes) > 1 THEN Sextet(buf, 64) ELSE Equals,
         IF Len(bytes) > 2 THEN Sextet(buf, 1) ELSE Equals>>

\* The bytes that buf collects before it is written for the g-th time.
Group(bytes, g) == SubSeq(bytes, 3 * g - 2, IF 3 * g > Len(bytes) THEN Len(bytes) ELSE 3 * g)

\* stl_base64_encode.
Encode(bytes) ==
    FlattenSeq([g \in 1 .. (Len(bytes) + 2) \div 3 |-> EncodeGroup(Group(bytes, g))])

Decoder == [pos |-> 0, end |-> 0, buf |-> 0, out |-> << >>, ok |-> TRUE]

\* Four characters are in: one to three bytes go out.
Emit(d) ==
    LET byte(weight) == (d.buf \div weight) % 256
    IN [d EXCEPT !.pos = 0, !.buf = 0,
                 !.out = @ \o <<byte(65536)>> \o (IF d.end = 0 \/ d.end > 1 THEN <<byte(256)>> ELSE << >>)
                           \o (IF d.end = 0 \/ d.end > 2 THEN <<byte(1)>> ELSE << >>)]

\* Mutant: characters that are not of the alphabet are skipped.
DecodeCharLax(d, c) ==
    LET end == IF c # Equals \/ d.end # 0 THEN d.end ELSE d.pos - 1
        v == IF c = Equals THEN 0 ELSE ValueOf(c)
        d1 == [d EXCEPT !.end = end, !.buf = @ * 64 + v, !.pos = @ + 1]
    IN IF ~d.ok \/ (c = Equals /\ d.end = 0 /\ d.pos \notin {2, 3}) THEN [d EXCEPT !.ok = FALSE]
       ELSE IF v < 0 THEN d
       ELSE IF d1.pos = 4 THEN Emit(d1) ELSE d1

\* One turn of the loop of stl_base64_decode; after an error nothing more is read.
DecodeChar(d, c) ==
    LET end == IF c # Equals \/ d.end # 0 THEN d.end ELSE d.pos - 1
        v == IF c = Equals THEN 0 ELSE ValueOf(c)
        d1 == [d EXCEPT !.end = end, !.buf = @ * 64 + v, !.pos = @ + 1]
    IN IF ~d.ok \/ c \in Whitespace \/ v < 0 \/ (c = Equals /\ d.end = 0 /\ d.pos \notin {2, 3})
       THEN [d EXCEPT !.ok = FALSE]
       ELSE IF d1.pos = 4 THEN Emit(d1) ELSE d1

\* stl_base64_decode.
Decode(chars) ==
    LET after[i \in 0 .. Len(chars)] == IF i = 0 THEN Decoder ELSE DecodeChar(after[i - 1], chars[i])
        d == after[Len(chars)]
    IN [d EXCEPT !.ok = @ /\ d.pos = 0]

\* stl_base64_enc_len and stl_base64_dec_len.
EncLen(n) == ((n + 2) * 4) \div 3
DecLen(n) == (n * 3) \div 4

(***************************************************************************)
(*                              Properties                                 *)
(***************************************************************************)
\* What stl_base64_encode writes, stl_base64_decode reads back, and a buffer of
\* stl_base64_enc_len holds it, for every remainder of the length by three.
EncodedReadsBack ==
    /\ Decode(Encode(plain)).ok /\ Decode(Encode(plain)).out = plain
    /\ Len(Encode(plain)) <= EncLen(Len(plain))

\* Of a text that is accepted nothing is dropped before its first '=': the whole groups up to
\* there encode to themselves; and what is written, also for a text that is refused half way,
\* fits stl_base64_dec_len (stl_base64.c:83 to 136).
DecodedFits ==
    LET d == Decode(text)
        open == IF Equals \in ToSet(text) THEN 4 * ((SelectInSeq(text, LAMBDA c : c = Equals) - 1) \div 4)
                ELSE Len(text)
    IN /\ Len(d.out) <= DecLen(Len(text))
       /\ d.ok => IsPrefix(SubSeq(text, 1, open), Encode(d.out))
=============================================================================
