------------------------------- MODULE Digest -------------------------------
(***************************************************************************)
(* The digests of module/stl/src/stl_sha1.c and stl_md5.c: a message that  *)
(* arrives in parts is cut into blocks, the last of them padded.  The      *)
(* rounds that compress a block into the chaining value are left out: the  *)
(* value is modelled by the blocks it was computed from, and by whether it *)
(* started from the algorithm's constants.  A byte is a pair: its kind,    *)
(* and its position in the message or its value.                           *)
(***************************************************************************)
EXTENDS Integers, Sequences, SequencesExt

CONSTANTS
    BlockSize, LengthBytes,  \* 64 and 8
    ByteBase,                \* 256
    MaxMessage, MaxPart      \* bounds: bytes of a message, and of one call

ASSUME DigestAssumption ==
    /\ {BlockSize, LengthBytes, ByteBase} \subseteq Nat \ {0} /\ LengthBytes < BlockSize
    /\ MaxMessage \in Nat /\ MaxPart \in Nat

VARIABLES
    algorithm,  \* "sha1" or "md5": which of the two the context is for
    ctx,        \* the context
    msg,        \* history: bytes fed since the context was initialized
    result      \* history: what the last digest was computed from, and its message

digestVars == <<algorithm, ctx, msg, result>>

Index == 0 .. BlockSize - 1
LengthWidth == ByteBase ^ LengthBytes
Value(v) == <<"value", v>>
Garbage == <<"garbage", 0>>
Message(from, to) == [i \in 1 .. to - from + 1 |-> <<"message", from + i - 1>>]

Chain(started) == [started |-> started, blocks |-> << >>]

\* stl_sha1_init does not touch the buffer.
Sha1Init(c) == [c EXCEPT !.chain = Chain(TRUE), !.bytes = 0]

Md5Init(c) ==
    [c EXCEPT !.chain = Chain(TRUE), !.bytes = 0, !.buffer = [i \in Index |-> Value(0)]]

Initialized(c) == IF algorithm = "sha1" THEN Sha1Init(c) ELSE Md5Init(c)

DigestInit ==
    /\ algorithm \in {"sha1", "md5"}
    /\ ctx = Initialized([chain |-> Chain(FALSE), bytes |-> 0, buffer |-> [i \in Index |-> Garbage]])
    /\ msg = 0
    /\ result = [chain |-> Chain(FALSE), length |-> 0]

Blocks(data) ==
    [b \in 1 .. Len(data) \div BlockSize |-> SubSeq(data, (b - 1) * BlockSize + 1, b * BlockSize)]

\* stl_sha1_body: the whole blocks of the data, one after the other.
Sha1Body(c, data) == [c EXCEPT !.chain.blocks = @ \o Blocks(data)]

\* stl_md5_body.
Md5Body(c, data) == [c EXCEPT !.chain.blocks = @ \o Blocks(data)]

Body(c, data) == IF algorithm = "sha1" THEN Sha1Body(c, data) ELSE Md5Body(c, data)

BufferBlock(c) == [i \in 1 .. BlockSize |-> c.buffer[i - 1]]

\* memcpy to the buffer.
Store(c, at, data) ==
    [c EXCEPT !.buffer = [i \in Index |->
        IF i \in at .. at + Len(data) - 1 THEN data[i - at + 1] ELSE @[i]]]

\* Blocks that lie whole in the data are compressed from there, the rest is kept.
Absorb(c, data) ==
    LET whole == (Len(data) \div BlockSize) * BlockSize
    IN Store(Body(c, SubSeq(data, 1, whole)), 0, SubSeq(data, whole + 1, Len(data)))

\* Mutant: a part that just fills the buffer stays there.
FeedLate(c, data) ==
    LET used == c.bytes % BlockSize
        room == BlockSize - used
        c1 == [c EXCEPT !.bytes = @ + Len(data)]
        full == Store(c1, used, SubSeq(data, 1, room))
    IN IF used = 0 THEN Absorb(c1, data)
       ELSE IF Len(data) <= room THEN Store(c1, used, data)
       ELSE Absorb(Body(full, BufferBlock(full)), SubSeq(data, room + 1, Len(data)))

\* The steps that stl_sha1_update and stl_md5_compute share: a block that was begun is
\* filled first.
Feed(c, data) ==
    LET used == c.bytes % BlockSize
        room == BlockSize - used
        c1 == [c EXCEPT !.bytes = @ + Len(data)]
        full == Store(c1, used, SubSeq(data, 1, room))
    IN IF used = 0 THEN Absorb(c1, data)
       ELSE IF Len(data) < room THEN Store(c1, used, data)
       ELSE Absorb(Body(full, BufferBlock(full)), SubSeq(data, room + 1, Len(data)))

Zeros(n) == [i \in 1 .. n |-> Value(0)]
Marker == << <<"marker", 0>> >>  \* 0x80

\* The number of bits, in bytes: the most significant first in one, last in the other.
BigEndian(bits) ==
    [i \in 1 .. LengthBytes |-> Value((bits \div ByteBase ^ (LengthBytes - i)) % ByteBase)]
LittleEndian(bits) == [i \in 1 .. LengthBytes |-> Value((bits \div ByteBase ^ (i - 1)) % ByteBase)]

LengthField(bytes) ==
    LET bits == (bytes * 8) % LengthWidth
    IN IF algorithm = "sha1" THEN BigEndian(bits) ELSE LittleEndian(bits)

\* The steps that stl_sha1_final and stl_md5_checksum share: the marker, a second block if
\* the length does not fit behind it, zeros and the length.
Finish(c) ==
    LET used == (c.bytes % BlockSize) + 1
        marked == Store(c, used - 1, Marker)
        room == BlockSize - used
        over == Store(marked, used, Zeros(room))
        c1 == IF room < LengthBytes THEN Body(over, BufferBlock(over)) ELSE marked
        from == IF room < LengthBytes THEN 0 ELSE used
        c2 == Store(Store(c1, from, Zeros(BlockSize - from - LengthBytes)), BlockSize - LengthBytes,
                    LengthField(c.bytes))
    IN Body(c2, BufferBlock(c2))

\* A context that was finished is zeroed: its chaining value is not the algorithm's.
Zeroed == [chain |-> Chain(FALSE), bytes |-> 0, buffer |-> [i \in Index |-> Value(0)]]

Update(n) ==
    /\ msg + n <= MaxMessage
    /\ ctx' = Feed(ctx, Message(msg + 1, msg + n))
    /\ msg' = msg + n
    /\ UNCHANGED <<algorithm, result>>

Final ==
    /\ result' = [chain |-> Finish(ctx).chain, length |-> msg]
    /\ ctx' = Zeroed /\ msg' = 0
    /\ UNCHANGED algorithm

Sha1Update == algorithm = "sha1" /\ \E n \in 0 .. MaxPart : Update(n)
Md5Compute == algorithm = "md5" /\ \E n \in 0 .. MaxPart : Update(n)
Sha1Final == algorithm = "sha1" /\ Final
Md5Checksum == algorithm = "md5" /\ Final

\* A caller takes the context up again.
Restart ==
    /\ ~ctx.chain.started
    /\ ctx' = Initialized(ctx) /\ msg' = 0
    /\ UNCHANGED <<algorithm, result>>

DigestNext == Sha1Update \/ Md5Compute \/ Sha1Final \/ Md5Checksum \/ Restart

DigestSpec == DigestInit /\ [][DigestNext]_digestVars

(***************************************************************************)
(*                              Properties                                 *)
(***************************************************************************)
\* The padded message as the standards define it.
Padded(n) ==
    LET fill == CHOOSE k \in 0 .. BlockSize - 1 : (n + 1 + k + LengthBytes) % BlockSize = 0
    IN Message(1, n) \o Marker \o Zeros(fill) \o LengthField(n)

\* Whatever the parts in which a message came, and whatever the buffer held before, the digest
\* is computed from the padded message, block by block, and from nothing else
\* (stl_sha1.c:45 to 73 and 83 to 109, stl_md5.c:47 to 72 and 82 to 106).
DigestOfMessage == result.chain.started => result.chain.blocks = Blocks(Padded(result.length))
=============================================================================
