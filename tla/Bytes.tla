------------------------------- MODULE Bytes -------------------------------
(***************************************************************************)
(* Numbers and bytes as the codecs print and read them (src/utils.c).      *)
(* Frames and payloads are sequences of bytes: the code writes them as     *)
(* hexadecimal text, two digits a byte.  Words of four bytes are signed,   *)
(* as the int the code keeps them in.                                      *)
(***************************************************************************)
EXTENDS Integers, Sequences

Byte == 0..255

(* What a frame may hold besides bytes: half of one, when the digits       *)
(* printed are odd in number, one whose value the C code leaves open, and  *)
(* a space printed between the digits.                                     *)
HalfByte(digit) == 256 + digit
Unset == 512
Space == 513

(* A C array counts from 0, a sequence from 1.  The buffer an answer is    *)
(* read from is cleared before: past its end there are zeros.              *)
At(d, i) == IF i < Len(d) THEN d[i + 1] ELSE 0
From(d, i) == SubSeq(d, i + 1, Len(d))

(* Conversions to uint8_t and uint16_t. *)
U8(n) == n % 256
U16(n) == n % 65536

Bit(n, i) == (n \div 2^i) % 2

(* %04x and %08x of an unsigned word; BE32 takes the bits of an int. *)
BE16(n) == <<U8(n \div 256), U8(n)>>
BE32(n) == <<U8(n \div 2^24), U8(n \div 2^16), U8(n \div 2^8), U8(n)>>

Word16(hi, lo) == 256 * hi + lo
Word24(a, b, c) == 65536 * a + Word16(b, c)
Word32(a, b, c, d) == (IF a > 127 THEN a - 256 ELSE a) * 2^24 + Word24(b, c, d)

(* The two's complement reading of a word of 16 bits. *)
Int16(w) == IF w > 32767 THEN w - 65536 ELSE w

Reversed(d) == [i \in 1..Len(d) |-> d[Len(d) + 1 - i]]

(* %02d read as two hexadecimal digits, and the way back. *)
Bcd(n) == 16 * (n \div 10) + (n % 10)
FromBcd(b) == 10 * (b \div 16) + (b % 16)

Abs(n) == IF n < 0 THEN -n ELSE n

(***************************************************************************)
(* Sign and magnitude in `size' bytes, most significant first.             *)
(***************************************************************************)
SignBit(size) == 2^(8 * size - 1)

convert_to_be_sam(v, size) ==
  IF v < 0 THEN ((-v) % SignBit(size)) + SignBit(size) ELSE v

(* Mutant: two's complement. *)
convert_from_be_twos(w, size) == IF w < SignBit(size) THEN w ELSE w - 2 * SignBit(size)
convert_from_be_sam(w, size) ==
  IF w < SignBit(size) THEN w ELSE SignBit(size) - w

(* A 2-byte reading and a 4-byte one, from their bytes: the sign bit of    *)
(* the latter does not fit an int, so it is taken off its first byte.      *)
Sam16(hi, lo) == convert_from_be_sam(Word16(hi, lo), 2)
Sam32(a, b, c, d) ==
  IF a < 128 THEN Word32(a, b, c, d) ELSE -Word32(a - 128, b, c, d)

(***************************************************************************)
(* int_to_float_str: a decimal number as sign, whole part and fraction of  *)
(* `precision' digits.  Scale is 10^precision; a fraction of no digits is  *)
(* still printed, as 0.                                                    *)
(***************************************************************************)
int_to_float_str(decimal, precision) ==
  [neg |-> decimal < 0, whole |-> Abs(decimal) \div 10^precision,
   frac |-> Abs(decimal) % 10^precision, digits |-> precision]

(* The number such a text stands for, in units of its last digit. *)
Denotes(f) == (IF f.neg THEN -1 ELSE 1) * (f.whole * 10^f.digits + f.frac)
=============================================================================
