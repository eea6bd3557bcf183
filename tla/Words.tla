------------------------------- MODULE Words -------------------------------
(***************************************************************************)
(* Machine words: natural numbers below 2^WordBits, of four bytes of       *)
(* ByteBits bits each (8 on the MIPS).                                     *)
(***************************************************************************)
EXTENDS Integers

CONSTANT ByteBits

ASSUME ByteBitsAssumption == ByteBits \in Nat \ {0}

TwoTo[n \in Nat] == IF n = 0 THEN 1 ELSE 2 * TwoTo[n - 1]

HalfBits == 2 * ByteBits
WordBits == 4 * ByteBits
Modulus  == TwoTo[WordBits]
Word     == 0..(Modulus - 1)
Byte     == 0..(TwoTo[ByteBits] - 1)

(* The word that an integer is computed to. *)
Wrap(n) == n % Modulus

(* The integer a word stands for in two's complement. *)
Negative(w) == w >= Modulus \div 2
Signed(w)   == IF Negative(w) THEN w - Modulus ELSE w

(* The low n bits of a word, alone and sign-extended. *)
Low(w, n)        == w % TwoTo[n]
SignExtend(w, n) == IF Low(w, n) >= TwoTo[n - 1] THEN Wrap(Low(w, n) - TwoTo[n]) ELSE Low(w, n)

(* A word as the set of its one bits. *)
Bits(w)     == {b \in 0..(WordBits - 1) : (w \div TwoTo[b]) % 2 = 1}
FromBits(B) == CHOOSE w \in Word : Bits(w) = B

And(v, w) == FromBits(Bits(v) \cap Bits(w))
Or(v, w)  == FromBits(Bits(v) \cup Bits(w))
Xor(v, w) == FromBits((Bits(v) \ Bits(w)) \cup (Bits(w) \ Bits(v)))
Not(w)    == Modulus - 1 - w

(* The shifts of C: >> of an int keeps the sign. *)
ShiftLeft(w, n)  == Wrap(w * TwoTo[n])
ShiftRight(w, n) == Wrap(Signed(w) \div TwoTo[n])

(* The n bytes of memory m from address a, the lowest first. *)
TwoBytes(m, a) == m[a] + TwoTo[ByteBits] * m[Wrap(a + 1)]
BytesAt(m, a, n) ==
    CASE n = 1 -> m[a]
      [] n = 2 -> TwoBytes(m, a)
      [] n = 4 -> TwoBytes(m, a) + TwoTo[HalfBits] * TwoBytes(m, Wrap(a + 2))

(* m with the low n bytes of w stored at a. *)
Stored(m, a, n, w) ==
    [b \in DOMAIN m |->
        IF b \in a..(a + n - 1) THEN (w \div TwoTo[ByteBits * (b - a)]) % TwoTo[ByteBits]
        ELSE m[b]]
=============================================================================
