------------------------------- MODULE Bytes -------------------------------
(***************************************************************************)
(* The fixed-width integers of the emulator: bytes (uint8_t) and words     *)
(* (uint16_t), their bits and the bitwise operators of C++ on bytes.       *)
(***************************************************************************)
EXTENDS Integers

Byte == 0..255
MaxWord == 65535
Word == 0..MaxWord

\* Conversion to uint8_t and to uint16_t.
B8(n)  == n % 256
W16(n) == n % 65536

Lo(w) == w % 256
Hi(w) == w \div 256
WordOf(lo, hi) == lo + 256 * hi

\* The sign bit.
Neg(b) == b >= 128

Num(bool) == IF bool THEN 1 ELSE 0

Weight == <<1, 2, 4, 8, 16, 32, 64, 128>>

\* Bit i of a byte, and the byte with the given bits.
BitOf(b, i) == (b \div Weight[i + 1]) % 2 = 1

ByteOf(bits) ==
      1 * Num(0 \in bits) +  2 * Num(1 \in bits)
    + 4 * Num(2 \in bits) +  8 * Num(3 \in bits) + 16 * Num(4 \in bits)
    + 32 * Num(5 \in bits) + 64 * Num(6 \in bits) + 128 * Num(7 \in bits)

BitsOf(b) == {i \in 0..7 : BitOf(b, i)}

And(p, q) == ByteOf(BitsOf(p) \cap BitsOf(q))
Or(p, q)  == ByteOf(BitsOf(p) \cup BitsOf(q))
Xor(p, q) == ByteOf((BitsOf(p) \cup BitsOf(q)) \ (BitsOf(p) \cap BitsOf(q)))
Not(p)    == 255 - p
=============================================================================
