--------------------------------- MODULE Crc ---------------------------------
(***************************************************************************)
(* The checksum of a message: it is computed by the sender, the message is *)
(* carried with it, possibly with one bit flipped, and the receiver checks *)
(* it.  A byte is the sequence of its bits, the highest first.             *)
(***************************************************************************)
EXTENDS Integers, Sequences

CONSTANTS
    Poly,       \* POLY, as bits; it has the width of two bytes
    Messages    \* the messages sent, sequences of bytes

Bit == {0, 1}
Width == Len(Poly)
Half == Width \div 2
Byte == [1..Half -> Bit]

ASSUME PolyAssumption ==
    /\ Poly \in Seq(Bit) /\ Width % 2 = 0
    /\ Width > 0 /\ Poly[1] = 1 /\ \E k \in 2..Width : Poly[k] = 1
ASSUME MessagesAssumption == Messages \subseteq Seq(Byte)

VARIABLES
    data,       \* the message
    crc,        \* its checksum, two bytes
    flipped,    \* whether a bit was flipped on the way
    stage,      \* "new", "sum", "sent", "check", or what check_crc returned
    bits,       \* temp, the buffer of get_crc
    at          \* the bit of the buffer that calc_crc looks at

crcVars == <<data, crc, flipped, stage, bits, at>>

Zeros(n) == [i \in 1..n |-> [j \in 1..Half |-> 0]]

\* Mutant: no block is added.
NoBlockAdded(d) == d \o Zeros(Len(d) % 2)

\* The buffer of get_crc: blocks of two bytes, and one more for the checksum.
Padded(d) == d \o Zeros((Len(d) % 2) + 2)

\* A block is a little-endian number: its second byte comes first.
Place(byte) == IF byte % 2 = 0 THEN byte + 2 ELSE byte

\* The bits in the order of calc_crc.
Bits(d) ==
    [k \in 1..(Len(d) * Half) |->
        d[Place((k - 1) \div Half)][((k - 1) % Half) + 1]]

\* Mutant: the lowest bit of each block is left alone.
ReduceButLowest(b, i) ==
    IF b[i] = 1 /\ i % Width # 0
    THEN [k \in DOMAIN b |-> IF k \in i..(i + Width - 1)
                             THEN (b[k] + Poly[k - i + 1]) % 2 ELSE b[k]]
    ELSE b

\* A 1 at bit i is removed by adding the polynomial, shifted there.
Reduce(b, i) ==
    IF b[i] = 1
    THEN [k \in DOMAIN b |-> IF k \in i..(i + Width - 1)
                             THEN (b[k] + Poly[k - i + 1]) % 2 ELSE b[k]]
    ELSE b

\* The last block as two bytes, the low byte first, as it is stored.
Remainder ==
    LET r == Len(bits) - Width
    IN  <<[j \in 1..Half |-> bits[r + Half + j]],
          [j \in 1..Half |-> bits[r + j]]>>

----------------------------------------------------------------------------

CrcInit ==
    /\ data \in Messages
    /\ crc = Zeros(2)
    /\ flipped = FALSE
    /\ stage = "new"
    /\ bits = <<>> /\ at = 1

\* get_crc, called by the sender, up to calc_crc.
StartSum ==
    /\ stage = "new"
    /\ bits' = Bits(Padded(data)) /\ at' = 1
    /\ stage' = "sum"
    /\ UNCHANGED <<data, crc, flipped>>

\* check_crc, up to calc_crc.
StartCheck ==
    /\ stage = "sent"
    /\ bits' = Bits(Padded(data \o crc)) /\ at' = 1
    /\ stage' = "check"
    /\ UNCHANGED <<data, crc, flipped>>

\* One bit of calc_crc, in every block but the last.
Divide ==
    /\ stage \in {"sum", "check"} /\ at + Width <= Len(bits)
    /\ bits' = Reduce(bits, at)
    /\ at' = at + 1
    /\ UNCHANGED <<data, crc, flipped, stage>>

\* The message is sent with its checksum.
Sum ==
    /\ stage = "sum" /\ at + Width > Len(bits)
    /\ crc' = Remainder
    /\ stage' = "sent"
    /\ UNCHANGED <<data, flipped, bits, at>>

\* One bit of the message or of the checksum arrives wrong.
FlipRandomBit ==
    /\ stage = "sent" /\ ~flipped
    /\ \E j \in 1..Half :
         \/ /\ \E i \in DOMAIN data : data' = [data EXCEPT ![i][j] = 1 - @]
            /\ UNCHANGED crc
         \/ /\ \E i \in DOMAIN crc : crc' = [crc EXCEPT ![i][j] = 1 - @]
            /\ UNCHANGED data
    /\ flipped' = TRUE
    /\ UNCHANGED <<stage, bits, at>>

Check ==
    /\ stage = "check" /\ at + Width > Len(bits)
    /\ stage' = IF Remainder = Zeros(2) THEN "accepted" ELSE "rejected"
    /\ UNCHANGED <<data, crc, flipped, bits, at>>

CrcNext ==
    \/ StartSum \/ Sum \/ FlipRandomBit
    \/ StartCheck \/ Check
    \/ Divide
CrcSpec == CrcInit /\ [][CrcNext]_crcVars

----------------------------------------------------------------------------
(* Properties *)

\* crc.h:3 "We can compute a CRC over data and check a CRC of corresponding
\* data": what arrives as it was sent is accepted (crc.c:102-138).
Accepts == stage = "rejected" => flipped

\* A flipped bit (common.c:131-139) is always found.
Detects == stage = "accepted" => ~flipped
=============================================================================
