---------------------------- MODULE MachineProofs ----------------------------
(***************************************************************************)
(* What is proved of the simulated machine (machine/*.cc).                 *)
(*                                                                         *)
(* Of Mips, for every width of a word and every program:                   *)
(*   - the registers stay words and R0 zero (MachineTyped),                *)
(*   - an instruction does what the Processor's does, unless it is one of  *)
(*     the three that do not (DoesWhatTheProcessorDoes): the loop of Mult  *)
(*     multiplies, the division truncates, the delayed loads are not seen. *)
(*                                                                         *)
(* Of Devices, for every number of disk threads, every sector, every       *)
(* length of a tick, a seek and a rotation, and every way a start of       *)
(* Nachos can combine the timer, the disk and the console:                 *)
(*   - the devices are used as their ASSERTs say (DevicesInOrder),         *)
(*   - no character is lost and the idle machine halts only at the end     *)
(*     (NobodyLeftBehind),                                                 *)
(*   - a call of SynchDisk is atomic (CallsAreAtomic),                     *)
(*   - a request ends when its sector has passed the head                  *)
(*     (SectorsPassTheHead).                                               *)
(*                                                                         *)
(* The inductive invariant of Devices, Sound, says of each thread where it *)
(* sleeps and who will wake it: an interrupt that is to come, exactly one  *)
(* for a busy device, a V that was not used yet, or the thread that has    *)
(* the lock.  That of Mips is the types of the registers and the code.     *)
(***************************************************************************)
EXTENDS Mips, Devices, QueueTheorems, FiniteSetTheorems


-----------------------------------------------------------------------------
(* Arithmetic *)

LEMMA Products ==
    /\ \A a, b \in Int : a * b \in Int /\ a * b = b * a
    /\ \A a, b \in Nat : a * b \in Nat
    /\ \A a, b, c \in Int : a * (b + c) = a * b + a * c /\ a * (b - c) = a * b - a * c
    /\ \A a, b, c \in Int : (a * b) * c = a * (b * c)
  OBVIOUS

LEMMA ProductsGrow ==
    \A a, b \in Int, c \in Nat : a <= b => a * c <= b * c /\ c * a <= c * b
  OBVIOUS

LEMMA ProductsSplit ==
    /\ \A p, n, e \in Int : p * (2 * n + e) = p * (2 * n) + p * e /\ p * (2 * n) = (2 * p) * n
    /\ \A m \in Int : m * (m - 1) = m * m - m * 1
  OBVIOUS

LEMMA Remainder ==
    ASSUME NEW n \in Int, NEW m \in Nat \ {0}
    PROVE  /\ n \div m \in Int /\ n % m \in 0..(m - 1)
           /\ n = m * (n \div m) + (n % m)
           /\ n \in Nat => n \div m \in Nat
  <1>1. n \div m \in Int /\ n % m \in 0..(m - 1)
    OBVIOUS
  <1>2. n = m * (n \div m) + (n % m)
    OBVIOUS
  <1>3. n \in Nat => n \div m \in Nat
    OBVIOUS
  <1> QED
    BY <1>1, <1>2, <1>3

LEMMA NatRemainder ==
    \A m \in Nat \ {0}, n \in Nat :
        /\ n \div m \in Nat /\ n % m \in 0..(m - 1)
        /\ n = m * (n \div m) + (n % m)
  <1> TAKE m \in Nat \ {0}, n \in Nat
  <1>1. n \in Int
    OBVIOUS
  <1> QED
    BY <1>1, Remainder

LEMMA OneQuotient ==
    ASSUME NEW m \in Nat \ {0}, NEW q \in Int, NEW r \in 0..(m - 1)
    PROVE  (m * q + r) \div m = q /\ (m * q + r) % m = r
  <1> DEFINE n == m * q + r
  <1>1. n \in Int
    BY Products
  <1> HIDE DEF n
  <1>2. PICK d \in Int : d = n \div m
    BY <1>1, Remainder
  <1>3. PICK e \in 0..(m - 1) : e = n % m
    BY <1>1, Remainder
  <1>4. n = m * d + e
    BY <1>1, <1>2, <1>3, Remainder
  <1>5. m * (d - q) = r - e
    BY <1>4, Products DEF n
  <1>6. d - q = 0
    <2>1. ASSUME d - q >= 1 PROVE FALSE
      <3>1. m * (d - q) >= m * 1
        BY <2>1, ProductsGrow
      <3> QED
        BY <3>1, <1>5
    <2>2. ASSUME d - q <= -1 PROVE FALSE
      <3>1. m * (d - q) <= m * (-1)
        BY <2>2, ProductsGrow
      <3> QED
        BY <3>1, <1>5
    <2> QED
      BY <2>1, <2>2
  <1>7. d = q /\ e = r
    BY <1>4, <1>6, <1>5
  <1> QED
    BY <1>2, <1>3, <1>7 DEF n

LEMMA SmallQuotient ==
    ASSUME NEW m \in Nat \ {0}, NEW r \in 0..(m - 1)
    PROVE  /\ r \div m = 0 /\ r % m = r
           /\ (m + r) \div m = 1 /\ (m + r) % m = r
  <1>1. \A q \in Int : (m * q + r) \div m = q /\ (m * q + r) % m = r
    BY OneQuotient
  <1>2. m * 0 + r = r /\ m * 1 + r = m + r
    OBVIOUS
  <1>3. (m * 0 + r) \div m = 0 /\ (m * 0 + r) % m = r
    BY <1>1
  <1>4. (m * 1 + r) \div m = 1 /\ (m * 1 + r) % m = r
    BY <1>1
  <1> QED
    BY <1>2, <1>3, <1>4

(* The powers of two. *)
Doubling(g, n) == IF n = 0 THEN 1 ELSE 2 * g[n - 1]

LEMMA PowersExist == \E g : g = [n \in Nat |-> Doubling(g, n)]
  <1> DEFINE SoFar(k, g) == g = [n \in 0..k |-> Doubling(g, n)]
             T == {k \in Nat : \E g : SoFar(k, g)}
  <1>1. 0 \in T
    <2>1. SoFar(0, [n \in 0..0 |-> 1])
      BY DEF Doubling
    <2> QED
      BY <2>1
  <1>2. \A k \in T : k + 1 \in T
    <2> TAKE k \in T
    <2>1. PICK g : SoFar(k, g)
      OBVIOUS
    <2> DEFINE h == [n \in 0..(k + 1) |-> IF n = k + 1 THEN 2 * g[k] ELSE g[n]]
    <2>2. \A n \in 0..k : g[n] = Doubling(g, n)
      BY <2>1
    <2>3. \A n \in 0..(k + 1) : h[n] = Doubling(h, n)
      BY <2>2 DEF Doubling
    <2>4. h = [n \in 0..(k + 1) |-> Doubling(h, n)]
      <3> HIDE DEF h
      <3>1. h = [n \in 0..(k + 1) |-> h[n]]
        BY DEF h
      <3> QED
        BY <2>3, <3>1
    <2>5. SoFar(k + 1, h)
      BY <2>4
    <2> HIDE DEF SoFar, h
    <2> QED
      BY <2>5
  <1>3. T = Nat
    <2> HIDE DEF T
    <2>1. T \in SUBSET Nat
      BY DEF T
    <2> QED
      BY <1>1, <1>2, <2>1, SetInduction
  <1>4. ASSUME NEW k \in Nat, NEW l \in Nat, k <= l, NEW g, NEW h, SoFar(k, g), SoFar(l, h)
        PROVE  \A n \in 0..k : g[n] = h[n]
    <2> DEFINE U == {n \in Nat : n <= k => g[n] = h[n]}
    <2>1. \A n \in 0..k : g[n] = Doubling(g, n)
      BY <1>4
    <2>2. \A n \in 0..l : h[n] = Doubling(h, n)
      BY <1>4
    <2>3. 0 \in U
      BY <1>4, <2>1, <2>2 DEF Doubling
    <2>4. \A n \in U : n + 1 \in U
      BY <1>4, <2>1, <2>2 DEF Doubling
    <2>5. U = Nat
      <3> HIDE DEF U
      <3>1. U \in SUBSET Nat
        BY DEF U
      <3> QED
        BY <2>3, <2>4, <3>1, SetInduction
    <2> QED
      BY <2>5
  <1> DEFINE part(k) == CHOOSE g : SoFar(k, g)
             f == [n \in Nat |-> part(n)[n]]
  <1>5. \A k \in Nat : SoFar(k, part(k))
    BY <1>3
  <1>6. \A n \in Nat : f[n] = Doubling(f, n)
    <2> TAKE n \in Nat
    <2> HIDE DEF part, SoFar
    <2>1. f[n] = part(n)[n]
      OBVIOUS
    <2>2. part(n)[n] = Doubling(part(n), n)
      BY <1>5 DEF SoFar
    <2>3. n # 0 => f[n - 1] = part(n - 1)[n - 1] /\ part(n - 1)[n - 1] = part(n)[n - 1]
      BY <1>4, <1>5
    <2> QED
      BY <2>1, <2>2, <2>3 DEF Doubling
  <1>7. f = [n \in Nat |-> Doubling(f, n)]
    <2> HIDE DEF f
    <2>1. f = [n \in Nat |-> f[n]]
      BY DEF f
    <2> QED
      BY <2>1, <1>6
  <1> QED
    BY <1>7

LEMMA Powers ==
    /\ TwoTo[0] = 1
    /\ \A n \in Nat : TwoTo[n + 1] = 2 * TwoTo[n]
    /\ \A n \in Nat : TwoTo[n] \in Nat \ {0}
  <1>1. TwoTo = [n \in Nat |-> Doubling(TwoTo, n)]
    BY PowersExist DEF TwoTo, Doubling
  <1>2. \A n \in Nat : TwoTo[n] = Doubling(TwoTo, n)
    BY <1>1
  <1>3. TwoTo[0] = 1 /\ \A n \in Nat : TwoTo[n + 1] = 2 * TwoTo[n]
    BY <1>2 DEF Doubling
  <1> DEFINE T == {n \in Nat : TwoTo[n] \in Nat \ {0}}
  <1>4. 0 \in T /\ \A n \in T : n + 1 \in T
    BY <1>3
  <1>5. T = Nat
    <2> HIDE DEF T
    <2>1. T \in SUBSET Nat
      BY DEF T
    <2> QED
      BY <1>4, <2>1, SetInduction
  <1> QED
    BY <1>3, <1>5

LEMMA PowerSums == \A a, b \in Nat : TwoTo[a + b] = TwoTo[a] * TwoTo[b]
  <1> TAKE a \in Nat
  <1> DEFINE T == {b \in Nat : TwoTo[a + b] = TwoTo[a] * TwoTo[b]}
  <1>1. 0 \in T
    BY Powers
  <1>2. \A b \in T : b + 1 \in T
    <2> TAKE b \in T
    <2>1. TwoTo[a + (b + 1)] = 2 * TwoTo[a + b]
      BY Powers
    <2>2. TwoTo[b + 1] = 2 * TwoTo[b]
      BY Powers
    <2>3. TwoTo[a] \in Nat /\ TwoTo[b] \in Nat
      BY Powers
    <2>4. TwoTo[a] * (2 * TwoTo[b]) = 2 * (TwoTo[a] * TwoTo[b])
      BY <2>3
    <2> QED
      BY <2>1, <2>2, <2>4
  <1>3. T = Nat
    <2> HIDE DEF T
    <2>1. T \in SUBSET Nat
      BY DEF T
    <2> QED
      BY <1>1, <1>2, <2>1, SetInduction
  <1> QED
    BY <1>3

LEMMA PowersGrow == \A a, b \in Nat : a <= b => TwoTo[a] <= TwoTo[b] /\ TwoTo[b] = TwoTo[a] * TwoTo[b - a]
  <1> TAKE a, b \in Nat
  <1> HAVE a <= b
  <1>1. TwoTo[a + (b - a)] = TwoTo[a] * TwoTo[b - a]
    BY PowerSums
  <1>2. TwoTo[b - a] \in Nat /\ TwoTo[b - a] >= 1 /\ TwoTo[a] \in Nat
    BY Powers
  <1>3. TwoTo[a] * 1 <= TwoTo[a] * TwoTo[b - a]
    BY <1>2, ProductsGrow
  <1> QED
    BY <1>1, <1>2, <1>3

-----------------------------------------------------------------------------
(* Words *)

LEMMA Sizes ==
    /\ ByteBits \in Nat /\ ByteBits >= 1
    /\ HalfBits \in Nat /\ WordBits \in Nat /\ WordBits >= 4
    /\ Modulus \in Nat \ {0} /\ Modulus >= 16
    /\ TwoTo[WordBits - 1] \in Nat /\ Modulus = 2 * TwoTo[WordBits - 1]
    /\ Modulus \div 2 = TwoTo[WordBits - 1]
    /\ TwoTo[ByteBits] \in Nat /\ TwoTo[ByteBits] >= 2
    /\ {TwoTo[ByteBits], TwoTo[HalfBits], TwoTo[3 * ByteBits]} \subseteq Nat \ {0}
    /\ TwoTo[HalfBits] = TwoTo[ByteBits] * TwoTo[ByteBits]
    /\ TwoTo[3 * ByteBits] * TwoTo[ByteBits] = Modulus
    /\ TwoTo[HalfBits] * TwoTo[HalfBits] = Modulus
  <1>1. ByteBits \in Nat /\ ByteBits >= 1
    BY ByteBitsAssumption
  <1>2. HalfBits \in Nat /\ WordBits \in Nat /\ WordBits >= 4 /\ WordBits - 1 \in Nat
        /\ 3 * ByteBits \in Nat
    BY <1>1 DEF HalfBits, WordBits
  <1>3. TwoTo[WordBits - 1] \in Nat /\ Modulus = 2 * TwoTo[WordBits - 1]
    BY <1>2, Powers DEF Modulus
  <1>4. Modulus >= 16
    <2>1. TwoTo[1] = 2 /\ TwoTo[2] = 4 /\ TwoTo[3] = 8 /\ TwoTo[4] = 16
      <3>1. TwoTo[0 + 1] = 2
        BY Powers
      <3>2. TwoTo[1 + 1] = 4
        BY <3>1, Powers
      <3>3. TwoTo[2 + 1] = 8
        BY <3>2, Powers
      <3>4. TwoTo[3 + 1] = 16
        BY <3>3, Powers
      <3> QED
        BY <3>1, <3>2, <3>3, <3>4
    <2> QED
      BY <1>2, <2>1, PowersGrow DEF Modulus
  <1>5. TwoTo[ByteBits] \in Nat /\ TwoTo[HalfBits] \in Nat /\ TwoTo[3 * ByteBits] \in Nat
        /\ {TwoTo[ByteBits], TwoTo[HalfBits], TwoTo[3 * ByteBits]} \subseteq Nat \ {0}
    BY <1>1, <1>2, Powers
  <1>6. TwoTo[ByteBits] >= 2
    <2>1. TwoTo[0 + 1] = 2
      BY Powers
    <2> QED
      BY <2>1, <1>1, PowersGrow
  <1>7. TwoTo[HalfBits] = TwoTo[ByteBits] * TwoTo[ByteBits]
    <2>1. TwoTo[ByteBits + ByteBits] = TwoTo[ByteBits] * TwoTo[ByteBits]
      BY <1>1, PowerSums
    <2>2. HalfBits = ByteBits + ByteBits
      BY <1>1 DEF HalfBits
    <2> QED
      BY <2>1, <2>2
  <1>8. TwoTo[3 * ByteBits] * TwoTo[ByteBits] = Modulus
    <2>1. TwoTo[3 * ByteBits + ByteBits] = TwoTo[3 * ByteBits] * TwoTo[ByteBits]
      BY <1>1, <1>2, PowerSums
    <2>2. WordBits = 3 * ByteBits + ByteBits
      BY <1>1 DEF WordBits
    <2> QED
      BY <2>1, <2>2 DEF Modulus
  <1>9. TwoTo[HalfBits] * TwoTo[HalfBits] = Modulus
    <2>1. TwoTo[HalfBits + HalfBits] = TwoTo[HalfBits] * TwoTo[HalfBits]
      BY <1>2, PowerSums
    <2>2. WordBits = HalfBits + HalfBits
      BY <1>1 DEF WordBits, HalfBits
    <2> QED
      BY <2>1, <2>2 DEF Modulus
  <1>10. Modulus \in Nat \ {0} /\ Modulus \div 2 = TwoTo[WordBits - 1]
    BY <1>3, <1>4
  <1> QED
    BY <1>1, <1>2, <1>3, <1>4, <1>5, <1>6, <1>7, <1>8, <1>9, <1>10

LEMMA WordIs ==
    /\ Modulus \in Nat \ {0} /\ Word = 0..(Modulus - 1)
    /\ Word \subseteq Nat /\ \A n \in 0..4 : n \in Word
  BY Sizes DEF Word

LEMMA Wrapped ==
    /\ \A n \in Int : Wrap(n) \in Word
    /\ \A w \in Word : Wrap(w) = w
    /\ \A n, k \in Int : Wrap(n + Modulus * k) = Wrap(n)
  <1>1. \A n \in Int : Wrap(n) \in Word
    BY Sizes, Remainder DEF Wrap, Word
  <1>2. ASSUME NEW w \in Word PROVE Wrap(w) = w
    <2>1. Modulus \in Nat \ {0} /\ w \in 0..(Modulus - 1)
      BY Sizes DEF Word
    <2> QED
      BY <2>1, SmallQuotient DEF Wrap
  <1>3. ASSUME NEW n \in Int, NEW k \in Int PROVE Wrap(n + Modulus * k) = Wrap(n)
    <2>1. PICK d \in Int, r \in 0..(Modulus - 1) : n = Modulus * d + r
      <3>1. /\ n \div Modulus \in Int /\ n % Modulus \in 0..(Modulus - 1)
            /\ n = Modulus * (n \div Modulus) + (n % Modulus)
        BY WordIs, Remainder
      <3> QED
        BY <3>1
    <2>2. Modulus * (d + k) = Modulus * d + Modulus * k
      BY Sizes, Products
    <2>3. Modulus * d \in Int /\ Modulus * k \in Int
      BY Sizes, Products
    <2>4. n + Modulus * k = Modulus * (d + k) + r
      BY <2>1, <2>2, <2>3
    <2>5. (Modulus * (d + k) + r) % Modulus = r /\ (Modulus * d + r) % Modulus = r
      <3>1. \A q \in Int : (Modulus * q + r) % Modulus = r
        BY WordIs, OneQuotient
      <3>2. d + k \in Int
        OBVIOUS
      <3> QED
        BY <3>1, <3>2
    <2> QED
      BY <2>1, <2>4, <2>5 DEF Wrap
  <1> QED
    BY <1>1, <1>2, <1>3

LEMMA SignedIs ==
    ASSUME NEW w \in Word
    PROVE  /\ Signed(w) \in (-TwoTo[WordBits - 1])..(TwoTo[WordBits - 1] - 1)
           /\ Wrap(Signed(w)) = w
           /\ Negative(w) <=> Signed(w) < 0
  <1>1. Signed(w) = IF Negative(w) THEN w - Modulus ELSE w
    BY DEF Signed
  <1>2. Wrap(w + Modulus * (-1)) = w /\ Wrap(w) = w
    BY Sizes, Wrapped DEF Word
  <1>3. w + Modulus * (-1) = w - Modulus
    BY Sizes DEF Word
  <1> QED
    BY <1>1, <1>2, <1>3, Sizes DEF Negative, Word

LEMMA LowIs ==
    ASSUME NEW w \in Nat, NEW n \in Nat
    PROVE  Low(w, n) \in 0..(TwoTo[n] - 1)
  <1>1. TwoTo[n] \in Nat \ {0}
    BY Powers
  <1> QED
    BY <1>1, NatRemainder DEF Low

LEMMA SignExtended ==
    ASSUME NEW w \in Nat, NEW n \in 1..WordBits
    PROVE  SignExtend(w, n) \in Word
  <1>1. n \in Nat /\ WordBits \in Nat /\ n <= WordBits
    BY Sizes
  <1>2. TwoTo[n] \in Nat /\ TwoTo[n] <= Modulus
    BY <1>1, Powers, PowersGrow DEF Modulus
  <1>3. Low(w, n) \in 0..(TwoTo[n] - 1)
    BY <1>1, LowIs
  <1>4. Low(w, n) \in Word /\ Low(w, n) - TwoTo[n] \in Int
    BY <1>2, <1>3, WordIs
  <1> QED
    BY <1>4, Wrapped DEF SignExtend

(* The bits of a word. *)
Bit(w, b) == (w \div TwoTo[b]) % 2 = 1

LEMMA BitAdded ==
    ASSUME NEW n \in Nat, NEW w \in 0..(TwoTo[n] - 1), NEW b \in Nat
    PROVE  /\ Bit(w + TwoTo[n], b) <=> b = n \/ Bit(w, b)
           /\ b >= n => ~Bit(w, b)
  <1>1. /\ TwoTo[n] \in Nat \ {0} /\ TwoTo[b] \in Nat \ {0}
        /\ TwoTo[n + 1] = 2 * TwoTo[n]
    BY Powers
  <1>2. ASSUME b >= n PROVE ~Bit(w, b)
    <2>1. TwoTo[n] <= TwoTo[b]
      BY <1>2, PowersGrow
    <2>2. w \div TwoTo[b] = 0
      <3>1. TwoTo[b] \in Nat \ {0} /\ w \in 0..(TwoTo[b] - 1)
        BY <1>1, <2>1
      <3> QED
        BY <3>1, SmallQuotient
    <2> QED
      BY <2>2 DEF Bit
  <1>3. CASE b < n
    <2>1. /\ TwoTo[n] = TwoTo[b] * TwoTo[n - b]
          /\ TwoTo[(n - b - 1) + 1] = 2 * TwoTo[n - b - 1] /\ TwoTo[n - b - 1] \in Nat
      <3>1. b <= n /\ n - b - 1 \in Nat
        BY <1>3
      <3>2. TwoTo[n] = TwoTo[b] * TwoTo[n - b]
        BY <3>1, PowersGrow
      <3> QED
        BY <3>1, <3>2, Powers
    <2>2. PICK k \in Nat : TwoTo[n - b] = 2 * k
      <3>1. (n - b - 1) + 1 = n - b
        OBVIOUS
      <3> QED
        BY <2>1, <3>1
    <2>3. PICK q \in Nat, r \in 0..(TwoTo[b] - 1) : w = TwoTo[b] * q + r
      <3>1. /\ w \in Nat /\ w \div TwoTo[b] \in Nat /\ w % TwoTo[b] \in 0..(TwoTo[b] - 1)
            /\ w = TwoTo[b] * (w \div TwoTo[b]) + (w % TwoTo[b])
        <4>1. w \in Nat /\ TwoTo[b] \in Nat \ {0}
          BY <1>1
        <4> QED
          BY <4>1, NatRemainder
      <3> QED
        BY <3>1
    <2>9. \A p \in Int : (TwoTo[b] * p + r) \div TwoTo[b] = p
      BY <1>1, OneQuotient
    <2>4. w \div TwoTo[b] = q
      BY <2>3, <2>9
    <2>5. TwoTo[b] * (q + 2 * k) = TwoTo[b] * q + TwoTo[b] * (2 * k)
      BY <1>1, Products
    <2>6. w + TwoTo[n] = TwoTo[b] * (q + 2 * k) + r
      <3>1. TwoTo[b] * q \in Nat /\ TwoTo[b] * (2 * k) \in Nat
        BY <1>1, Products
      <3> QED
        BY <2>1, <2>2, <2>3, <2>5, <3>1
    <2>7. (w + TwoTo[n]) \div TwoTo[b] = q + 2 * k
      BY <2>6, <2>9
    <2>8. (q + 2 * k) % 2 = q % 2
      OBVIOUS
    <2> QED
      BY <1>3, <2>4, <2>7, <2>8 DEF Bit
  <1>4. CASE b = n
    <2>1. (TwoTo[n] + w) \div TwoTo[n] = 1
      <3>1. TwoTo[n] \in Nat \ {0} /\ w \in 0..(TwoTo[n] - 1)
        BY <1>1
      <3> QED
        BY <3>1, SmallQuotient
    <2>2. (w + TwoTo[b]) \div TwoTo[b] = 1
      <3>1. TwoTo[n] + w = w + TwoTo[n]
        BY <1>1
      <3> QED
        BY <1>4, <2>1, <3>1
    <2>3. 1 % 2 = 1
      OBVIOUS
    <2> QED
      BY <1>2, <1>4, <2>2, <2>3 DEF Bit
  <1>5. CASE b > n
    <2>1. TwoTo[n + 1] <= TwoTo[b]
      BY <1>5, PowersGrow
    <2>2. (w + TwoTo[n]) \div TwoTo[b] = 0
      <3>1. TwoTo[b] \in Nat \ {0} /\ w + TwoTo[n] \in 0..(TwoTo[b] - 1)
        BY <1>1, <2>1
      <3> QED
        BY <3>1, SmallQuotient
    <2>3. ~Bit(w + TwoTo[n], b)
      BY <2>2 DEF Bit
    <2> QED
      BY <1>2, <1>5, <2>3
  <1> QED
    BY <1>2, <1>3, <1>4, <1>5

LEMMA BitsExist ==
    \A n \in Nat : \A B \in SUBSET (0..(n - 1)) :
        \E w \in 0..(TwoTo[n] - 1) : \A b \in Nat : Bit(w, b) <=> b \in B
  <1> DEFINE For(n, B) == \E w \in 0..(TwoTo[n] - 1) : \A b \in Nat : Bit(w, b) <=> b \in B
             T == {n \in Nat : \A B \in SUBSET (0..(n - 1)) : For(n, B)}
  <1>1. 0 \in T
    <2>2. 0 \in 0..(TwoTo[0] - 1)
      BY Powers
    <2>1. \A b \in Nat : ~Bit(0, b)
      <3> TAKE b \in Nat
      <3>1. b >= 0
        OBVIOUS
      <3> QED
        BY <2>2, <3>1, BitAdded
    <2> QED
      BY <2>1, <2>2
  <1>2. \A n \in T : n + 1 \in T
    <2> TAKE n \in T
    <2>1. ASSUME NEW B \in SUBSET (0..n) PROVE For(n + 1, B)
      <3>1. PICK w \in 0..(TwoTo[n] - 1) : \A b \in Nat : Bit(w, b) <=> b \in B \ {n}
        <4>1. B \ {n} \in SUBSET (0..(n - 1))
          OBVIOUS
        <4> QED
          BY <4>1
      <3>2. TwoTo[n] \in Nat /\ TwoTo[n + 1] = 2 * TwoTo[n]
        BY Powers
      <3>3. CASE n \in B
        <4>1. w + TwoTo[n] \in 0..(TwoTo[n + 1] - 1)
          BY <3>2
        <4>2. \A b \in Nat : Bit(w + TwoTo[n], b) <=> b \in B
          BY <3>1, <3>3, BitAdded
        <4> QED
          BY <4>1, <4>2
      <3>4. CASE n \notin B
        <4>1. w \in 0..(TwoTo[n + 1] - 1)
          BY <3>2
        <4> QED
          BY <3>1, <3>4, <4>1
      <3> QED
        BY <3>3, <3>4
    <2>2. (n + 1) - 1 = n
      OBVIOUS
    <2> HIDE DEF For
    <2> QED
      BY <2>1, <2>2
  <1>3. T = Nat
    <2> HIDE DEF T
    <2>1. T \in SUBSET Nat
      BY DEF T
    <2> QED
      BY <1>1, <1>2, <2>1, SetInduction
  <1> QED
    BY <1>3

LEMMA FromBitsIs ==
    ASSUME NEW B \in SUBSET (0..(WordBits - 1))
    PROVE  FromBits(B) \in Word /\ Bits(FromBits(B)) = B
  <1>1. PICK w \in 0..(TwoTo[WordBits] - 1) : \A b \in Nat : Bit(w, b) <=> b \in B
    BY Sizes, BitsExist
  <1>2. Bits(w) = B
    <2>1. \A b \in 0..(WordBits - 1) : b \in Nat
      BY Sizes
    <2>2. \A b \in 0..(WordBits - 1) : (w \div TwoTo[b]) % 2 = 1 <=> b \in B
      BY <1>1, <2>1 DEF Bit
    <2> QED
      BY <2>2 DEF Bits
  <1>3. w \in Word
    BY DEF Word, Modulus
  <1> QED
    BY <1>2, <1>3 DEF FromBits

LEMMA Bitwise ==
    ASSUME NEW v, NEW w
    PROVE  And(v, w) \in Word /\ Or(v, w) \in Word /\ Xor(v, w) \in Word
  BY FromBitsIs DEF And, Or, Xor, Bits

LEMMA Shifted ==
    ASSUME NEW w \in Word, NEW n \in Nat
    PROVE  ShiftLeft(w, n) \in Word /\ ShiftRight(w, n) \in Word
  <1>1. TwoTo[n] \in Nat \ {0}
    BY Powers
  <1>2. w * TwoTo[n] \in Int
    BY <1>1, Products DEF Word
  <1>3. Signed(w) \in Int
    BY SignedIs, Sizes
  <1>4. Signed(w) \div TwoTo[n] \in Int
    BY <1>1, <1>3, Remainder
  <1> QED
    BY <1>2, <1>4, Wrapped DEF ShiftLeft, ShiftRight

(* Memory *)

LEMMA PairsOf ==
    ASSUME NEW m \in Nat, NEW x \in 0..(m - 1), NEW y \in 0..(m - 1)
    PROVE  x + m * y \in 0..(m * m - 1)
  <1>1. m * y \in Nat /\ m * m \in Nat
    BY Products
  <1>2. m * y <= m * (m - 1)
    BY ProductsGrow
  <1>3. m * (m - 1) = m * m - m * 1
    BY Products
  <1> QED
    BY <1>1, <1>2, <1>3

LEMMA BytesRead ==
    ASSUME NEW m \in [Word -> Byte], NEW a \in Word
    PROVE  /\ BytesAt(m, a, 1) \in Byte
           /\ BytesAt(m, a, 2) \in 0..(TwoTo[HalfBits] - 1)
           /\ \A n \in {1, 2, 4} : BytesAt(m, a, n) \in Word
  <1>1. \A b \in Word : Wrap(b + 1) \in Word /\ Wrap(b + 2) \in Word
    <2> TAKE b \in Word
    <2>1. b + 1 \in Int /\ b + 2 \in Int
      BY WordIs
    <2> QED
      BY <2>1, Wrapped
  <1>2. \A b \in Word : TwoBytes(m, b) \in 0..(TwoTo[HalfBits] - 1)
    <2> TAKE b \in Word
    <2>1. m[b] \in 0..(TwoTo[ByteBits] - 1) /\ m[Wrap(b + 1)] \in 0..(TwoTo[ByteBits] - 1)
      BY <1>1 DEF Byte
    <2> QED
      BY <2>1, Sizes, PairsOf DEF TwoBytes
  <1>3. TwoBytes(m, a) + TwoTo[HalfBits] * TwoBytes(m, Wrap(a + 2)) \in Word
    BY <1>1, <1>2, Sizes, PairsOf DEF Word
  <1>4. TwoTo[ByteBits] <= Modulus /\ TwoTo[HalfBits] <= Modulus
    BY Sizes, PowersGrow DEF Modulus, HalfBits, WordBits
  <1>5. BytesAt(m, a, 1) = m[a] /\ BytesAt(m, a, 2) = TwoBytes(m, a)
        /\ BytesAt(m, a, 4) = TwoBytes(m, a) + TwoTo[HalfBits] * TwoBytes(m, Wrap(a + 2))
    BY DEF BytesAt
  <1>6. m[a] \in Byte
    OBVIOUS
  <1> QED
    <2>1. BytesAt(m, a, 1) \in Byte
      BY <1>5, <1>6
    <2>2. BytesAt(m, a, 2) \in 0..(TwoTo[HalfBits] - 1)
      BY <1>2, <1>5
    <2>3. Byte \subseteq Word /\ 0..(TwoTo[HalfBits] - 1) \subseteq Word
      <3>1. TwoTo[ByteBits] \in Nat /\ TwoTo[HalfBits] \in Nat /\ Modulus \in Nat
        BY Sizes
      <3>2. Byte = 0..(TwoTo[ByteBits] - 1) /\ Word = 0..(Modulus - 1)
        BY DEF Byte, Word
      <3> QED
        BY <1>4, <3>1, <3>2
    <2>4. BytesAt(m, a, 4) \in Word
      BY <1>3, <1>5
    <2> QED
      BY <2>1, <2>2, <2>3, <2>4

LEMMA BytesWritten ==
    ASSUME NEW m \in [Word -> Byte], NEW a \in Word, NEW n, NEW w \in Nat
    PROVE  Stored(m, a, n, w) \in [Word -> Byte]
  <1>1. ASSUME NEW b \in Word, b \in a..(a + n - 1)
        PROVE  (w \div TwoTo[ByteBits * (b - a)]) % TwoTo[ByteBits] \in Byte
    <2>1. ByteBits * (b - a) \in Nat
      BY <1>1, Sizes, Products DEF Word
    <2>2. w \div TwoTo[ByteBits * (b - a)] \in Nat
      <3>1. TwoTo[ByteBits * (b - a)] \in Nat \ {0}
        BY <2>1, Powers
      <3> QED
        BY <3>1, Remainder
    <2>3. TwoTo[ByteBits] \in Nat \ {0}
      BY Sizes
    <2> QED
      BY <2>2, <2>3, NatRemainder DEF Byte
  <1> QED
    BY <1>1 DEF Stored

-----------------------------------------------------------------------------

-----------------------------------------------------------------------------
(* The registers, typed *)

Code == [{a \in Word : a % 4 = 0} -> Instruction]

MipsInv == RegistersSound /\ code \in Code

LEMMA Machine ==
    /\ Registers \subseteq Nat /\ 0 \in Registers /\ R2 \in Registers /\ R31 \in Registers /\ R2 # 0
    /\ TopBits \in Nat /\ TopBits <= WordBits - 3
    /\ Results \subseteq Word
  BY MipsAssumption, Sizes DEF MipsAssumption

(* What an instruction is made of. *)
LEMMA Fetched ==
    ASSUME MipsInv, Aligned(PCReg, 4)
    PROVE  /\ instr \in Instruction
           /\ instr.op \in Opcodes
           /\ instr.rs \in Registers /\ instr.rt \in Registers /\ instr.rd \in Registers
           /\ instr.field \in Word /\ instr.field < FieldLimit(instr.op)
           /\ rsv \in Word /\ rtv \in Word
           /\ extra \in Word
           /\ Address \in Word
           /\ Destination \in Registers
  <1>1. PCReg \in Word /\ registers \in [Registers -> Word]
    BY DEF MipsInv, RegistersSound
  <1>2. instr \in Instruction
    BY <1>1 DEF MipsInv, Code, instr, Aligned
  <1>3. /\ instr.op \in Opcodes
        /\ instr.rs \in Registers /\ instr.rt \in Registers /\ instr.rd \in Registers
        /\ instr.field \in Word /\ instr.field < FieldLimit(instr.op)
    BY <1>2 DEF Instruction
  <1>4. rsv \in Word /\ rtv \in Word
    BY <1>1, <1>3 DEF rsv, rtv
  <1>5. extra \in Word
    <2>1. HalfBits \in 1..WordBits
      BY ByteBitsAssumption DEF HalfBits, WordBits
    <2>2. instr.field \in Nat
      BY <1>3, WordIs
    <2> QED
      BY <1>3, <2>1, <2>2, SignExtended DEF extra
  <1>6. Address \in Word
    <2>1. rsv + extra \in Int
      BY <1>4, <1>5, WordIs
    <2> QED
      BY <2>1, Wrapped DEF Address
  <1>7. Destination \in Registers
    BY <1>3 DEF Destination
  <1> QED
    BY <1>2, <1>3, <1>4, <1>5, <1>6, <1>7

LEMMA FollowingTyped == MipsInv => Following \in Word
  <1> SUFFICES ASSUME MipsInv PROVE Following \in Word
    OBVIOUS
  <1>1. NextPCReg + 4 \in Int
    BY WordIs DEF MipsInv, RegistersSound
  <1> QED
    BY <1>1, Wrapped DEF Following

LEMMA LoadedTyped ==
    ASSUME MipsInv, NEW regs \in [Registers -> Word]
    PROVE  Loaded(regs) \in [Registers -> Word] /\ Loaded(regs)[0] = 0
  <1>1. LoadReg \in Registers /\ LoadValueReg \in Word /\ 0 \in Registers /\ 0 \in Word
    BY Machine, WordIs DEF MipsInv, RegistersSound
  <1> QED
    BY <1>1 DEF Loaded

LEMMA DelayedTyped ==
    ASSUME MipsInv, NEW regs \in [Registers -> Word], NEW r \in Registers, NEW v \in Word,
           DelayedLoad(regs, r, v)
    PROVE  /\ registers' \in [Registers -> Word] /\ registers'[0] = 0
           /\ LoadReg' \in Registers /\ LoadValueReg' \in Word
  BY LoadedTyped DEF DelayedLoad

LEMMA CompletesTyped ==
    ASSUME MipsInv, NEW regs \in [Registers -> Word], NEW r \in Registers, NEW v \in Word,
           NEW to \in Word, Completes(regs, r, v, to),
           HiReg' \in Word, LoReg' \in Word, memory' \in [Word -> Byte]
    PROVE  MipsInv'
  BY DelayedTyped DEF Completes, MipsInv, RegistersSound, Code

LEMMA HaltsTyped == ASSUME MipsInv, Halts PROVE MipsInv'
  <1>1. 0 \in Registers /\ 0 \in Word /\ registers \in [Registers -> Word]
    BY Machine, WordIs DEF MipsInv, RegistersSound
  <1>2. DelayedLoad(registers, 0, 0)
    BY DEF Halts
  <1> QED
    BY <1>1, <1>2, DelayedTyped DEF Halts, counters, MipsInv, RegistersSound, Code

LEMMA ValueTyped ==
    ASSUME MipsInv, Is(Arithmetic)
    PROVE  Value \in Word
  <1>1. /\ rsv \in Word /\ rtv \in Word /\ extra \in Word /\ HiReg \in Word /\ LoReg \in Word
        /\ Aligned(PCReg, 4)
    BY Fetched DEF Is, MipsInv, RegistersSound
  <1>2. /\ rsv \in Int /\ rtv \in Int /\ extra \in Int /\ HalfBits \in Nat
        /\ rsv % WordBits \in Nat /\ extra \in Nat
    <2>1. WordBits \in Nat \ {0} /\ rsv \in Nat
      BY <1>1, WordIs, Sizes
    <2> QED
      BY <1>1, <2>1, WordIs, Sizes, NatRemainder
  <1>3. /\ Wrap(rsv + rtv) \in Word /\ Wrap(rsv + extra) \in Word /\ Wrap(rsv - rtv) \in Word
    BY <1>2, Wrapped
  <1>4. \A b : Truth(b) \in Word
    BY WordIs DEF Truth
  <1>5. \A w \in Word : Not(w) \in Word
    BY Sizes DEF Not, Word
  <1>6. CASE instr.op \in Sums
    <2>1. SumOrAnd \in Word
      BY <1>3, <1>6, Bitwise DEF SumOrAnd, Sums
    <2> QED
      BY <1>6, <2>1 DEF Value
  <1>7. CASE instr.op \in LogicAndMoves
    <2>1. LogicOrMove \in Word
      <3>1. Not(Or(rsv, rtv)) \in Word
        BY <1>5, Bitwise
      <3>2. ShiftLeft(extra, HalfBits) \in Word
        BY <1>1, <1>2, Shifted
      <3> QED
        BY <1>1, <1>7, <3>1, <3>2, Bitwise DEF LogicOrMove, LogicAndMoves
    <2>2. instr.op \notin Sums
      BY <1>7 DEF LogicAndMoves, Sums
    <2> QED
      BY <1>7, <2>1, <2>2 DEF Value
  <1>8. CASE instr.op \notin Sums \cup LogicAndMoves
    <2>1. instr.op \in {"SLL", "SRL", "SRA", "SLTI", "SLTIU"} \cup Differences
      BY <1>8 DEF Is, Arithmetic, Immediates, Shifts, Sums, LogicAndMoves
    <2>2. /\ ShiftLeft(rtv, extra) \in Word /\ ShiftRight(rtv, extra) \in Word
          /\ ShiftLeft(rtv, rsv % WordBits) \in Word /\ ShiftRight(rtv, rsv % WordBits) \in Word
      BY <1>1, <1>2, Shifted
    <2>3. ShiftOrCompare \in Word
      BY <1>3, <1>4, <2>1, <2>2 DEF ShiftOrCompare, Differences
    <2> QED
      BY <1>8, <2>3 DEF Value
  <1> QED
    BY <1>6, <1>7, <1>8

(* The loop of Mult. *)
MultState == [a : Word, bLo : Word, bHi : Word, lo : Word, hi : Word]
MultStart(a, b) == [a |-> a, bLo |-> b, bHi |-> 0, lo |-> 0, hi |-> 0]
MultNext(m) == IF m.a = 0 THEN m ELSE Doubled(Added(m))
Rounds(a, b, n, g) ==
    g = [k \in 0..n |-> IF k = 0 THEN MultStart(a, b) ELSE MultNext(g[k - 1])]

LEMMA RoundsExist ==
    ASSUME NEW a, NEW b
    PROVE  \A n \in Nat : \E g : Rounds(a, b, n, g)
  <1> DEFINE T == {n \in Nat : \E g : Rounds(a, b, n, g)}
  <1>1. 0 \in T
    <2>1. Rounds(a, b, 0, [k \in 0..0 |-> MultStart(a, b)])
      BY DEF Rounds
    <2> QED
      BY <2>1
  <1>2. \A n \in T : n + 1 \in T
    <2> TAKE n \in T
    <2>1. PICK g : Rounds(a, b, n, g)
      OBVIOUS
    <2> DEFINE h == [k \in 0..(n + 1) |-> IF k = n + 1 THEN MultNext(g[n]) ELSE g[k]]
               At(f, k) == IF k = 0 THEN MultStart(a, b) ELSE MultNext(f[k - 1])
    <2>2. \A k \in 0..n : g[k] = At(g, k)
      BY <2>1 DEF Rounds
    <2>3. \A k \in 0..(n + 1) : h[k] = At(h, k)
      <3> TAKE k \in 0..(n + 1)
      <3>1. CASE k = n + 1
        <4>1. h[k] = MultNext(g[n]) /\ h[n] = g[n] /\ k - 1 = n /\ k # 0
          BY <3>1
        <4> HIDE DEF h
        <4> QED
          BY <4>1
      <3>2. CASE k \in 1..n
        <4>1. h[k] = g[k] /\ h[k - 1] = g[k - 1] /\ k # 0
          BY <3>2
        <4> HIDE DEF h
        <4> QED
          BY <2>2, <3>2, <4>1
      <3>3. CASE k = 0
        <4>1. h[0] = g[0]
          OBVIOUS
        <4> HIDE DEF h
        <4> QED
          BY <2>2, <3>3, <4>1
      <3> QED
        BY <3>1, <3>2, <3>3
    <2>4. Rounds(a, b, n + 1, h)
      <3>1. h = [k \in 0..(n + 1) |-> h[k]]
        OBVIOUS
      <3> HIDE DEF h
      <3>2. h = [k \in 0..(n + 1) |-> At(h, k)]
        BY <2>3, <3>1
      <3> QED
        BY <3>2 DEF Rounds
    <2> HIDE DEF h
    <2> QED
      BY <2>4
  <1>3. T = Nat
    <2> HIDE DEF T
    <2>1. T \in SUBSET Nat
      BY DEF T
    <2> QED
      BY <1>1, <1>2, <2>1, SetInduction
  <1> QED
    BY <1>3

(* What holds at first and is kept by every round holds in the end. *)
LEMMA LoopKeeps ==
    ASSUME NEW a, NEW b, NEW inv, MultStart(a, b) \in inv[0],
           \A k \in 0..(WordBits - 1) : \A m \in inv[k] : MultNext(m) \in inv[k + 1]
    PROVE  MultLoop(a, b) \in inv[WordBits]
  <1> DEFINE f == CHOOSE g : Rounds(a, b, WordBits, g)
  <1>1. Rounds(a, b, WordBits, f)
    BY RoundsExist, Sizes
  <1>2. MultLoop(a, b) = f[WordBits]
    BY DEF MultLoop, Rounds, MultStart, MultNext
  <1> HIDE DEF f
  <1> DEFINE T == {k \in Nat : k <= WordBits => f[k] \in inv[k]}
  <1>3. 0 \in T
    BY <1>1, Sizes DEF Rounds
  <1>4. \A k \in T : k + 1 \in T
    <2> TAKE k \in T
    <2>1. ASSUME k + 1 <= WordBits PROVE f[k + 1] \in inv[k + 1]
      <3>1. k \in 0..(WordBits - 1) /\ k + 1 \in 0..WordBits /\ k + 1 # 0 /\ (k + 1) - 1 = k
        BY <2>1, Sizes
      <3>2. f[k + 1] = MultNext(f[k])
        BY <1>1, <3>1 DEF Rounds
      <3>3. f[k] \in inv[k]
        BY <3>1, Sizes
      <3> QED
        BY <3>1, <3>2, <3>3
    <2> QED
      BY <2>1
  <1>5. T = Nat
    <2> HIDE DEF T
    <2>1. T \in SUBSET Nat
      BY DEF T
    <2> QED
      BY <1>3, <1>4, <2>1, SetInduction
  <1> QED
    BY <1>2, <1>5, Sizes

-----------------------------------------------------------------------------

LEMMA RoundTyped ==
    ASSUME NEW m \in MultState
    PROVE  Added(m) \in MultState /\ Doubled(m) \in MultState
  <1>1. /\ m.a \in Word /\ m.bLo \in Word /\ m.bHi \in Word /\ m.lo \in Word /\ m.hi \in Word
        /\ m = [a |-> m.a, bLo |-> m.bLo, bHi |-> m.bHi, lo |-> m.lo, hi |-> m.hi]
    BY DEF MultState
  <1>2. \A b : Truth(b) \in {0, 1}
    BY DEF Truth
  <1>3. Added(m) \in MultState
    <2>0. m.lo + m.bLo \in Int /\ \A c \in {0, 1} : m.hi + c + m.bHi \in Int
      <3>1. m.lo \in Nat /\ m.bLo \in Nat /\ m.hi \in Nat /\ m.bHi \in Nat
        BY <1>1, WordIs
      <3> QED
        BY <3>1
    <2>1. Wrap(m.lo + m.bLo) \in Word
      BY <2>0, Wrapped
    <2>2. \A c \in {0, 1} : Wrap(m.hi + c + m.bHi) \in Word
      BY <2>0, Wrapped
    <2> QED
      BY <1>1, <1>2, <2>1, <2>2 DEF Added, MultState
  <1>4. Doubled(m) \in MultState
    <2>1. ShiftLeft(m.bHi, 1) \in Word /\ ShiftLeft(m.bLo, 1) \in Word /\ ShiftRight(m.a, 1) \in Word
      BY <1>1, Shifted
    <2>2. \A c \in {0, 1} : Wrap(ShiftLeft(m.bHi, 1) + c) \in Word
      BY <2>1, WordIs, Wrapped
    <2> QED
      BY <1>1, <1>2, <2>1, <2>2 DEF Doubled, MultState
  <1> QED
    BY <1>3, <1>4

LEMMA LoopTyped ==
    ASSUME NEW a \in Word, NEW b \in Word
    PROVE  MultLoop(a, b) \in MultState
  <1> DEFINE inv == [k \in Nat |-> MultState]
  <1>1. MultStart(a, b) \in inv[0]
    BY WordIs DEF MultStart, MultState
  <1>2. \A k \in 0..(WordBits - 1) : inv[k] = MultState /\ inv[k + 1] = MultState
    BY Sizes
  <1>3. \A m \in MultState : MultNext(m) \in MultState
    BY RoundTyped DEF MultNext
  <1>4. inv[WordBits] = MultState
    BY Sizes
  <1> HIDE DEF inv
  <1>5. MultLoop(a, b) \in inv[WordBits]
    BY <1>1, <1>2, <1>3, LoopKeeps
  <1> QED
    BY <1>4, <1>5

LEMMA MultTyped ==
    ASSUME NEW a \in Word, NEW b \in Word, NEW signed \in BOOLEAN
    PROVE  Mult(a, b, signed).hi \in Word /\ Mult(a, b, signed).lo \in Word
  <1> DEFINE absolute(w) == IF signed /\ Negative(w) THEN Wrap(-w) ELSE w
  <1>1. absolute(a) \in Word /\ absolute(b) \in Word
    BY WordIs, Wrapped
  <1> HIDE DEF absolute
  <1>2. PICK p \in MultState : p = MultLoop(absolute(a), absolute(b))
    BY <1>1, LoopTyped
  <1>3. p.hi \in Word /\ p.lo \in Word
    BY DEF MultState
  <1>4. Negated(p).hi \in Word /\ Negated(p).lo \in Word
    <2>1. \A w \in Word, c \in {0, 1} : Wrap(Not(w) + c) \in Word
      <3> TAKE w \in Word, c \in {0, 1}
      <3>1. Not(w) + c \in Int
        BY WordIs DEF Not
      <3> QED
        BY <3>1, Wrapped
    <2>2. \A c : Truth(c) \in {0, 1}
      BY DEF Truth
    <2> QED
      BY <1>3, <2>1, <2>2 DEF Negated, MultState
  <1>5. Mult(a, b, signed) \in {p, Negated(p)}
    BY <1>2 DEF Mult, absolute
  <1> QED
    BY <1>3, <1>4, <1>5

(* The division of C. *)
Absolute(a) == IF a < 0 THEN -a ELSE a

LEMMA QuotientIs ==
    ASSUME NEW a \in Int, NEW b \in Int \ {0}
    PROVE  Quotient(a, b) \in Int
  <1>1. Absolute(a) \in Nat /\ Absolute(b) \in Nat \ {0}
    BY DEF Absolute
  <1>2. Absolute(a) \div Absolute(b) \in Nat
    BY <1>1, NatRemainder
  <1> QED
    BY <1>2 DEF Quotient, Absolute

LEMMA DivideTyped ==
    ASSUME NEW a \in Int, NEW b \in Int, Divide(a, b)
    PROVE  HiReg' \in Word /\ LoReg' \in Word
  <1>1. 0 \in Word
    BY WordIs
  <1>2. CASE b # 0
    <2>1. PICK q \in Int : q = Quotient(a, b)
      BY <1>2, QuotientIs
    <2>2. q * b \in Int
      BY Products
    <2>3. Wrap(q) \in Word /\ Wrap(a - q * b) \in Word
      BY <2>2, Wrapped
    <2> QED
      BY <1>2, <2>1, <2>3 DEF Divide
  <1> QED
    BY <1>1, <1>2 DEF Divide

LEMMA LinkedTyped ==
    ASSUME MipsInv, Aligned(PCReg, 4)
    PROVE  Linked \in [Registers -> Word]
  BY Fetched, FollowingTyped, Machine DEF Linked, MipsInv, RegistersSound

(* Where a jump goes: the target has as many bits as the address has left.   *)
LEMMA Segments ==
    ASSUME NEW w \in Word, NEW n \in 2..WordBits, NEW f \in Nat, f < TwoTo[n - 2]
    PROVE  /\ ShiftLeft(f, 2) = 4 * f
           /\ w - (w % TwoTo[n]) = TwoTo[n] * (w \div TwoTo[n])
           /\ (w - (w % TwoTo[n])) + 4 * f \in Word
  <1>1. TwoTo[n] \in Nat \ {0} /\ n \in Nat /\ n - 2 \in Nat /\ WordBits - n \in Nat
        /\ TwoTo[n - 2] \in Nat \ {0} /\ TwoTo[WordBits - n] \in Nat
    BY Sizes, Powers
  <1>2. TwoTo[n] = 4 * TwoTo[n - 2]
    <2>1. TwoTo[(n - 2) + 1] = 2 * TwoTo[n - 2] /\ TwoTo[((n - 2) + 1) + 1] = 2 * TwoTo[(n - 2) + 1]
      BY <1>1, Powers
    <2>2. ((n - 2) + 1) + 1 = n
      BY <1>1
    <2> QED
      BY <1>1, <2>1, <2>2
  <1>3. Modulus = TwoTo[n] * TwoTo[WordBits - n]
    BY <1>1, Sizes, PowersGrow DEF Modulus
  <1>4. 4 * f + 4 <= TwoTo[n] /\ TwoTo[n] <= Modulus
    <2>1. f + 1 <= TwoTo[n - 2]
      BY <1>1
    <2>2. TwoTo[n] <= Modulus
      BY <1>1, Sizes, PowersGrow DEF Modulus
    <2> QED
      BY <1>1, <1>2, <2>1, <2>2
  <1>5. PICK q \in Nat, r \in 0..(TwoTo[n] - 1) :
            /\ w = TwoTo[n] * q + r /\ q = w \div TwoTo[n] /\ r = w % TwoTo[n]
    <2>1. w \in Nat
      BY WordIs
    <2>2. /\ w \div TwoTo[n] \in Nat /\ w % TwoTo[n] \in 0..(TwoTo[n] - 1)
          /\ w = TwoTo[n] * (w \div TwoTo[n]) + (w % TwoTo[n])
      BY <1>1, <2>1, NatRemainder
    <2> QED
      BY <2>2
  <1>6. PICK p \in Nat : p = TwoTo[n] * q
    BY <1>1, Products
  <1>7. p + TwoTo[n] <= Modulus
    <2>1. q + 1 <= TwoTo[WordBits - n]
      <3>1. ASSUME q >= TwoTo[WordBits - n] PROVE FALSE
        <4>1. TwoTo[n] * TwoTo[WordBits - n] <= TwoTo[n] * q
          BY <1>1, <3>1, ProductsGrow
        <4> QED
          BY <1>3, <1>5, <1>6, <4>1, WordIs
      <3> QED
        BY <1>1, <3>1
    <2>2. TwoTo[n] * (q + 1) <= TwoTo[n] * TwoTo[WordBits - n]
      BY <1>1, <2>1, ProductsGrow
    <2>3. TwoTo[n] * (q + 1) = TwoTo[n] * q + TwoTo[n] * 1
      BY <1>1, Products
    <2> QED
      BY <1>1, <1>3, <1>6, <2>2, <2>3
  <1>8. ShiftLeft(f, 2) = 4 * f
    <2>1. TwoTo[2] = 4
      <3>1. TwoTo[0 + 1] = 2 * TwoTo[0] /\ TwoTo[1 + 1] = 2 * TwoTo[1]
        BY Powers
      <3> QED
        BY <3>1, Powers
    <2>2. f * TwoTo[2] = 4 * f /\ 4 * f \in Word
      BY <1>1, <1>4, <2>1, WordIs
    <2> QED
      BY <2>2, Wrapped DEF ShiftLeft
  <1>9. w - (w % TwoTo[n]) = p
    <2>1. w = p + r
      BY <1>5, <1>6
    <2>2. w - r = p
      BY <2>1
    <2> QED
      BY <1>5, <2>2
  <1>10. p + 4 * f \in 0..(Modulus - 1)
    BY <1>1, <1>4, <1>7, WordIs
  <1>11. p = TwoTo[n] * (w \div TwoTo[n])
    BY <1>5, <1>6
  <1> QED
    BY <1>8, <1>9, <1>10, <1>11, WordIs

(* A word of which the low byte is replaced. *)
LEMMA MergedIs ==
    ASSUME NEW w \in Word, NEW v \in Word
    PROVE  /\ w - (w % TwoTo[ByteBits]) = TwoTo[ByteBits] * (w \div TwoTo[ByteBits])
           /\ (w - (w % TwoTo[ByteBits])) + v \div TwoTo[3 * ByteBits] \in Word
  <1>1. TwoTo[ByteBits] \in Nat \ {0} /\ TwoTo[3 * ByteBits] \in Nat \ {0}
        /\ TwoTo[3 * ByteBits] * TwoTo[ByteBits] = Modulus /\ Modulus \in Nat
    BY Sizes
  <1>2. PICK q \in Nat, r \in 0..(TwoTo[ByteBits] - 1) :
            w = TwoTo[ByteBits] * q + r /\ q = w \div TwoTo[ByteBits] /\ r = w % TwoTo[ByteBits]
    BY <1>1, WordIs, NatRemainder
  <1>3. PICK d \in Nat, e \in 0..(TwoTo[3 * ByteBits] - 1) :
            v = TwoTo[3 * ByteBits] * d + e /\ d = v \div TwoTo[3 * ByteBits]
    BY <1>1, WordIs, NatRemainder
  <1>4. d < TwoTo[ByteBits]
    <2>1. ASSUME TwoTo[ByteBits] <= d PROVE FALSE
      <3>1. TwoTo[3 * ByteBits] * TwoTo[ByteBits] <= TwoTo[3 * ByteBits] * d
        BY <1>1, <2>1, ProductsGrow
      <3>2. TwoTo[3 * ByteBits] * d \in Nat
        BY <1>1, Products
      <3> QED
        BY <1>1, <1>3, <3>1, <3>2, WordIs
    <2> QED
      BY <1>1, <2>1
  <1>5. q < TwoTo[3 * ByteBits]
    <2>1. ASSUME TwoTo[3 * ByteBits] <= q PROVE FALSE
      <3>1. TwoTo[ByteBits] * TwoTo[3 * ByteBits] <= TwoTo[ByteBits] * q
        BY <1>1, <2>1, ProductsGrow
      <3>2. TwoTo[ByteBits] * q \in Nat /\ TwoTo[ByteBits] * TwoTo[3 * ByteBits] = Modulus
        BY <1>1, Products
      <3> QED
        BY <1>1, <1>2, <3>1, <3>2, WordIs
    <2> QED
      BY <1>1, <2>1
  <1>6. TwoTo[ByteBits] * q + TwoTo[ByteBits] <= Modulus
    <2>1. TwoTo[ByteBits] * (q + 1) <= TwoTo[ByteBits] * TwoTo[3 * ByteBits]
      BY <1>1, <1>5, ProductsGrow
    <2>2. TwoTo[ByteBits] * (q + 1) = TwoTo[ByteBits] * q + TwoTo[ByteBits] * 1
      <3>1. TwoTo[ByteBits] \in Int /\ q \in Int /\ 1 \in Int
        BY <1>1
      <3> QED
        BY <3>1, Products
    <2>3. TwoTo[ByteBits] * TwoTo[3 * ByteBits] = Modulus
      <3>1. TwoTo[ByteBits] \in Int /\ TwoTo[3 * ByteBits] \in Int
        BY <1>1
      <3> QED
        BY <1>1, <3>1, Products
    <2> QED
      BY <1>1, <2>1, <2>2, <2>3
  <1>7. PICK p \in Nat : p = TwoTo[ByteBits] * q
    BY <1>1, Products
  <1> QED
    <2>1. w = p + r
      BY <1>2, <1>7
    <2>2. w - r = p
      BY <2>1
    <2>3. w - (w % TwoTo[ByteBits]) = p /\ p = TwoTo[ByteBits] * (w \div TwoTo[ByteBits])
      BY <1>2, <1>7, <2>2
    <2>4. p + d \in 0..(Modulus - 1)
      BY <1>1, <1>4, <1>6, <1>7
    <2> QED
      BY <1>3, <2>3, <2>4, WordIs

LEMMA JumpTarget ==
    ASSUME MipsInv, Is(Jumps)
    PROVE  (Following - (Following % TwoTo[WordBits - TopBits])) + IndexToAddr(extra) \in Word
  <1>1. /\ instr.op \in Jumps /\ instr.field \in Word /\ Following \in Word
        /\ instr.field < FieldLimit(instr.op)
    BY Fetched, FollowingTyped DEF Is
  <1>2. instr.op \notin IFMT
    BY <1>1 DEF Jumps, IFMT, Immediates, Loads, Merges, Stores, Branches
  <1>3. extra = instr.field /\ instr.field < TwoTo[WordBits - TopBits - 2]
    BY <1>1, <1>2 DEF extra, FieldLimit
  <1>4. WordBits - TopBits \in 2..WordBits /\ instr.field \in Nat
    BY <1>1, Machine, Sizes, WordIs
  <1> QED
    BY <1>1, <1>3, <1>4, Segments DEF IndexToAddr

-----------------------------------------------------------------------------
(* The actions keep the types *)

LEMMA InitTyped == MipsInit => MipsInv
  <1> SUFFICES ASSUME MipsInit PROVE MipsInv
    OBVIOUS
  <1>1. PICK s \in Starts : registers \in s.registers /\ memory \in s.memory /\ code \in s.code
    BY DEF MipsInit
  <1>2. /\ registers \in [Registers -> Word] /\ registers[0] = 0
        /\ memory \in [Word -> Byte] /\ code \in Code
    BY <1>1, MipsAssumption DEF MipsAssumption, Code
  <1>3. 0 \in Word /\ 4 \in Word /\ 0 \in Registers
    BY WordIs, Machine
  <1> QED
    BY <1>2, <1>3 DEF MipsInit, MipsInv, RegistersSound

LEMMA KeepsTypes ==
    ASSUME MipsInv, NEW regs \in [Registers -> Word], NEW r \in Registers, NEW v \in Word,
           NEW to \in Word, Completes(regs, r, v, to), UNCHANGED <<HiReg, LoReg, memory>>
    PROVE  MipsInv'
  BY CompletesTyped DEF MipsInv, RegistersSound

LEMMA NextTyped == MipsInv /\ [MipsNext]_mipsVars => MipsInv'
  <1> SUFFICES ASSUME MipsInv, [MipsNext]_mipsVars PROVE MipsInv'
    OBVIOUS
  <1> USE DEF MipsInv
  <1>1. /\ 0 \in Registers /\ 0 \in Word /\ registers \in [Registers -> Word]
        /\ HiReg \in Word /\ LoReg \in Word /\ PCReg \in Word /\ NextPCReg \in Word
        /\ LoadReg \in Registers /\ LoadValueReg \in Word
        /\ memory \in [Word -> Byte] /\ Following \in Word
    BY Machine, WordIs, FollowingTyped DEF RegistersSound
  <1>2. CASE UNCHANGED mipsVars
    BY <1>2 DEF mipsVars, RegistersSound, Code
  <1>3. CASE PageFault
    <2>1. DelayedLoad(registers, 0, 0)
      BY <1>3 DEF PageFault
    <2> QED
      BY <1>1, <1>3, <2>1, DelayedTyped DEF PageFault, counters, RegistersSound, Code
  <1>4. CASE AddressError
    BY <1>4, HaltsTyped DEF AddressError
  <1>5. CASE Illegal
    BY <1>5, HaltsTyped DEF Illegal
  <1>6. CASE Syscall
    <2>1. PICK rv \in Results : registers' = [Loaded(registers) EXCEPT ![R2] = rv]
      BY <1>6 DEF Syscall
    <2>2. registers' \in [Registers -> Word] /\ registers'[0] = 0
      BY <1>1, <2>1, LoadedTyped, Machine
    <2>3. Wrap(NextPCReg + 4) \in Word
      BY <1>1 DEF Following
    <2> QED
      BY <1>1, <1>6, <2>2, <2>3 DEF Syscall, RegistersSound, Code
  <1>7. CASE Overflow
    BY <1>7, HaltsTyped DEF Overflow
  <1>8. CASE Compute
    <2>1. Value \in Word /\ Destination \in Registers
      BY <1>8, ValueTyped, Fetched DEF Compute, Is
    <2>2. [registers EXCEPT ![Destination] = Value] \in [Registers -> Word]
      BY <1>1, <2>1
    <2> QED
      BY <1>1, <1>8, <2>2, KeepsTypes DEF Compute
  <1>9. CASE DivisionTraps
    BY <1>9, HaltsTyped DEF DivisionTraps
  <1>10. CASE MultiplyOrDivide
    <2>1. rsv \in Word /\ rtv \in Word
      BY <1>10, Fetched DEF MultiplyOrDivide, Is
    <2>2. HiReg' \in Word /\ LoReg' \in Word
      <3>1. CASE LET m == Mult(rsv, rtv, instr.op = "MULT")
                 IN  HiReg' = m.hi /\ LoReg' = m.lo
        BY <2>1, <3>1, MultTyped
      <3>2. Signed(rsv) \in Int /\ Signed(rtv) \in Int /\ rsv \in Int /\ rtv \in Int
        BY <2>1, WordIs, Sizes, SignedIs
      <3>3. CASE Divide(Signed(rsv), Signed(rtv))
        BY <3>2, <3>3, DivideTyped
      <3>4. CASE Divide(rsv, rtv)
        BY <3>2, <3>4, DivideTyped
      <3> QED
        BY <1>1, <1>10, <2>1, <3>1, <3>3, <3>4 DEF MultiplyOrDivide
    <2>3. Completes(registers, 0, 0, Following) /\ memory' \in [Word -> Byte]
      BY <1>1, <1>10 DEF MultiplyOrDivide
    <2> QED
      BY <1>1, <2>2, <2>3, CompletesTyped
  <1>11. CASE Branch
    <2>1. Aligned(PCReg, 4)
      BY <1>11 DEF Branch, Is
    <2>2. Linked \in [Registers -> Word] /\ extra \in Word
      BY <2>1, LinkedTyped, Fetched
    <2>3. IndexToAddr(extra) \in Word
      BY <2>2, Shifted DEF IndexToAddr
    <2>4. NextPCReg + IndexToAddr(extra) \in Int
      BY <1>1, <2>3, WordIs
    <2>5. PICK to \in Word : to = IF Taken THEN Wrap(NextPCReg + IndexToAddr(extra)) ELSE Following
      BY <1>1, <2>4, Wrapped
    <2>6. Completes(Linked, 0, 0, to) /\ UNCHANGED <<HiReg, LoReg, memory>>
      BY <1>11, <2>5 DEF Branch
    <2> QED
      BY <1>1, <2>2, <2>6, KeepsTypes
  <1>12. CASE Jump
    <2>1. Linked \in [Registers -> Word]
      BY <1>12, LinkedTyped DEF Jump, Is
    <2>2. PICK to \in Word :
             to = (Following - (Following % TwoTo[WordBits - TopBits])) + IndexToAddr(extra)
      BY <1>12, JumpTarget DEF Jump
    <2>3. Completes(Linked, 0, 0, to) /\ UNCHANGED <<HiReg, LoReg, memory>>
      BY <1>12, <2>2 DEF Jump
    <2> QED
      BY <1>1, <2>1, <2>3, KeepsTypes
  <1>13. CASE JumpRegister
    <2>1. Linked \in [Registers -> Word] /\ instr.rs \in Registers
      BY <1>13, LinkedTyped, Fetched DEF JumpRegister, Is
    <2>2. Linked[instr.rs] \in Word
      BY <2>1
    <2> QED
      BY <1>1, <1>13, <2>1, <2>2, KeepsTypes DEF JumpRegister
  <1>14. CASE Load
    <2>1. Aligned(PCReg, 4) /\ instr.op \in Loads
      BY <1>14 DEF Load, Accesses, Is
    <2>2. instr.rt \in Registers /\ Address \in Word
      BY <2>1, Fetched
    <2>3. Size \in {1, 2, 4} /\ (instr.op \in {"LB", "LH"} => Size \in {1, 2})
      BY DEF Size
    <2>4. BytesAt(memory, Address, Size) \in Word
      BY <1>1, <2>2, <2>3, BytesRead
    <2>5. Size \in {1, 2} => SignExtend(BytesAt(memory, Address, Size), Size * ByteBits) \in Word
      <3>1. 1 * ByteBits \in 1..WordBits /\ 2 * ByteBits \in 1..WordBits
        BY ByteBitsAssumption DEF WordBits
      <3>2. BytesAt(memory, Address, Size) \in Nat
        BY <2>4, WordIs
      <3> QED
        BY <3>1, <3>2, SignExtended
    <2>6. PICK v \in Word : v = IF instr.op \in {"LB", "LH"}
                                THEN SignExtend(BytesAt(memory, Address, Size), Size * ByteBits)
                                ELSE BytesAt(memory, Address, Size)
      BY <2>3, <2>4, <2>5
    <2>7. Completes(registers, instr.rt, v, Following) /\ UNCHANGED <<HiReg, LoReg, memory>>
      BY <1>14, <2>6 DEF Load
    <2> QED
      BY <1>1, <2>2, <2>7, KeepsTypes
  <1>15. CASE MergingLoad
    <2>1. Aligned(PCReg, 4)
      BY <1>15 DEF MergingLoad, Accesses, Is
    <2>2. instr.rt \in Registers /\ Address \in Word /\ rtv \in Word
      BY <2>1, Fetched
    <2>3. PICK value \in Word : value = BytesAt(memory, Address, 4)
      BY <1>1, <2>2, BytesRead
    <2>4. Forwarded \in Word
      BY <1>1, <2>2 DEF Forwarded
    <2>5. (Forwarded - Low(Forwarded, ByteBits)) + value \div TwoTo[3 * ByteBits] \in Word
      BY <2>4, MergedIs DEF Low
    <2>6. PICK v \in Word :
             v = IF instr.op = "LWL" THEN value
                 ELSE (Forwarded - Low(Forwarded, ByteBits)) + value \div TwoTo[3 * ByteBits]
      BY <2>5
    <2>7. Completes(registers, instr.rt, v, Following) /\ UNCHANGED <<HiReg, LoReg, memory>>
      BY <1>15, <2>3, <2>6 DEF MergingLoad
    <2> QED
      BY <1>1, <2>2, <2>7, KeepsTypes
  <1>16. CASE Store
    <2>1. Aligned(PCReg, 4)
      BY <1>16 DEF Store, Accesses, Is
    <2>2. Address \in Word /\ rtv \in Word
      BY <2>1, Fetched
    <2>3. Low(BytesAt(memory, Address, 4), 3 * ByteBits) + ShiftLeft(rtv, 3 * ByteBits) \in Nat
      <3>0. BytesAt(memory, Address, 4) \in Word
        BY <1>1, <2>2, BytesRead
      <3>1. 3 * ByteBits \in Nat /\ BytesAt(memory, Address, 4) \in Nat
        BY <3>0, ByteBitsAssumption, WordIs
      <3>2. Low(BytesAt(memory, Address, 4), 3 * ByteBits) \in 0..(TwoTo[3 * ByteBits] - 1)
        BY <3>1, LowIs
      <3>3. ShiftLeft(rtv, 3 * ByteBits) \in Word
        BY <2>2, <3>1, Shifted
      <3>4. Low(BytesAt(memory, Address, 4), 3 * ByteBits) \in Nat
        BY <3>2
      <3>5. ShiftLeft(rtv, 3 * ByteBits) \in Nat
        BY <3>3, WordIs
      <3> QED
        BY <3>4, <3>5
    <2>4. PICK w \in Nat :
             w = IF instr.op = "SWR"
                 THEN Low(BytesAt(memory, Address, 4), 3 * ByteBits) + ShiftLeft(rtv, 3 * ByteBits)
                 ELSE rtv
      BY <2>2, <2>3, WordIs
    <2>5. memory' = Stored(memory, Address, Size, w)
      BY <1>16, <2>4 DEF Store
    <2>6. memory' \in [Word -> Byte]
      BY <1>1, <2>2, <2>5, BytesWritten
    <2>7. Completes(registers, 0, 0, Following) /\ UNCHANGED <<HiReg, LoReg>>
      BY <1>16 DEF Store
    <2> QED
      BY <1>1, <2>6, <2>7, CompletesTyped
  <1> QED
    BY <1>2, <1>3, <1>4, <1>5, <1>6, <1>7, <1>8, <1>9, <1>10, <1>11, <1>12, <1>13, <1>14,
       <1>15, <1>16 DEF MipsNext

LEMMA MipsInvHolds == MipsSpec => []MipsInv
  BY InitTyped, NextTyped, PTL DEF MipsSpec

(***************************************************************************)
(* The registers of the machine are words in every state, R0 is zero       *)
(* although instructions name it as their target and a delayed load can be *)
(* addressed to it, the load that is delayed is to a register of the       *)
(* machine, and the memory holds bytes (OneInstruction and DelayedLoad,    *)
(* machine/mipssim.cc).                                                    *)
(***************************************************************************)
THEOREM MachineTyped == MipsSpec => []RegistersSound
  <1>1. MipsInv => RegistersSound
    BY DEF MipsInv
  <1> QED
    BY <1>1, MipsInvHolds, PTL

-----------------------------------------------------------------------------

-----------------------------------------------------------------------------
(* The steps of the Processor *)

LEMMA SameSizes ==
    /\ Processor!TwoTo = TwoTo
    /\ Processor!HalfBits = HalfBits /\ Processor!WordBits = WordBits
    /\ Processor!Modulus = Modulus /\ Processor!Word = Word
  <1>1. Processor!TwoTo = TwoTo
    BY DEF Processor!TwoTo, TwoTo
  <1>2. Processor!HalfBits = HalfBits /\ Processor!WordBits = WordBits
    BY DEF Processor!HalfBits, HalfBits, Processor!WordBits, WordBits
  <1> QED
    BY <1>1, <1>2 DEF Processor!Modulus, Modulus, Processor!Word, Word

LEMMA SameWords ==
    /\ \A n : Processor!Wrap(n) = Wrap(n)
    /\ \A w : Processor!Signed(w) = Signed(w)
    /\ \A w, n : Processor!Low(w, n) = Low(w, n) /\ Processor!SignExtend(w, n) = SignExtend(w, n)
    /\ \A w : Processor!Bits(w) = Bits(w) /\ Processor!FromBits(w) = FromBits(w)
    /\ \A m, a, n : Processor!BytesAt(m, a, n) = BytesAt(m, a, n)
    /\ \A m, a, n, w : Processor!Stored(m, a, n, w) = Stored(m, a, n, w)
  <1>1. \A n : Processor!Wrap(n) = Wrap(n)
    BY SameSizes DEF Processor!Wrap, Wrap
  <1>2. \A w : Processor!Signed(w) = Signed(w)
    BY SameSizes DEF Processor!Signed, Signed, Processor!Negative, Negative
  <1>3. \A w, n : Processor!Low(w, n) = Low(w, n)
    BY SameSizes DEF Processor!Low, Low
  <1>4. \A w, n : Processor!SignExtend(w, n) = SignExtend(w, n)
    BY SameSizes, <1>1, <1>3 DEF Processor!SignExtend, SignExtend
  <1>5. \A w : Processor!Bits(w) = Bits(w)
    BY SameSizes DEF Processor!Bits, Bits
  <1>6. \A B : Processor!FromBits(B) = FromBits(B)
    <2> TAKE B
    <2>1. \A w \in Word : Processor!Bits(w) = B <=> Bits(w) = B
      BY <1>5
    <2> QED
      BY <2>1, SameSizes DEF Processor!FromBits, FromBits
  <1>7. \A m, a : Processor!TwoBytes(m, a) = TwoBytes(m, a)
    BY SameSizes, <1>1 DEF Processor!TwoBytes, TwoBytes
  <1>8. \A m, a, n : Processor!BytesAt(m, a, n) = BytesAt(m, a, n)
    BY SameSizes, <1>1, <1>7 DEF Processor!BytesAt, BytesAt
  <1>9. \A m, a, n, w : Processor!Stored(m, a, n, w) = Stored(m, a, n, w)
    BY SameSizes DEF Processor!Stored, Stored
  <1> QED
    BY <1>1, <1>2, <1>3, <1>4, <1>5, <1>6, <1>8, <1>9


LEMMA SameInstruction ==
    /\ Processor!i = instr
    /\ Processor!s = Loaded(registers)[instr.rs] /\ Processor!t = Loaded(registers)[instr.rt]
    /\ Processor!immediate = SignExtend(instr.field, HalfBits)
    /\ \A op : Processor!Executes(op) <=> Is({op})
  <1>1. Processor!i = instr
    BY DEF Processor!i, instr
  <1>2. Processor!s = Loaded(registers)[instr.rs] /\ Processor!t = Loaded(registers)[instr.rt]
    BY <1>1 DEF Processor!s, Processor!t
  <1>3. Processor!immediate = SignExtend(instr.field, HalfBits)
    BY <1>1, SameSizes, SameWords DEF Processor!immediate
  <1>4. \A op : Processor!Executes(op) <=> Is({op})
    BY <1>1 DEF Processor!Executes, Is, Aligned
  <1> QED
    BY <1>1, <1>2, <1>3, <1>4

(* A register that no pending load is for. *)
Settled(r) == LoadReg = 0 \/ LoadReg # r

LEMMA SettledSeen ==
    ASSUME MipsInv, NEW r \in Registers, Settled(r)
    PROVE  Loaded(registers)[r] = registers[r]
  BY Machine DEF MipsInv, RegistersSound, Settled, Loaded

LEMMA SettledWritten ==
    ASSUME MipsInv, NEW d \in Registers, d = 0 \/ Settled(d), NEW v \in Word,
           NEW r \in Registers, NEW w \in Word,
           DelayedLoad([registers EXCEPT ![d] = v], 0, 0)
    PROVE  Loaded(registers)' = [Loaded(registers) EXCEPT ![d] = v, ![0] = 0]
  BY Machine DEF MipsInv, RegistersSound, Settled, DelayedLoad, Loaded

LEMMA NothingWritten ==
    ASSUME MipsInv, DelayedLoad(registers, 0, 0)
    PROVE  Loaded(registers)' = Loaded(registers)
  BY Machine DEF MipsInv, RegistersSound, DelayedLoad, Loaded

LEMMA NextLoad ==
    ASSUME MipsInv, NEW d \in Registers, NEW v \in Word, DelayedLoad(registers, d, v)
    PROVE  Loaded(registers)' = [Loaded(registers) EXCEPT ![d] = v, ![0] = 0]
  BY Machine DEF MipsInv, RegistersSound, DelayedLoad, Loaded

LEMMA SetIs ==
    ASSUME NEW r, NEW n
    PROVE  Processor!Set(r, n) <=>
               /\ Loaded(registers)' = [Loaded(registers) EXCEPT ![r] = Wrap(n), ![0] = 0]
               /\ UNCHANGED <<HiReg, LoReg, memory>>
  BY SameWords DEF Processor!Set

LEMMA GoesToIs ==
    ASSUME NEW regs, NEW r, NEW v, NEW to, Completes(regs, r, v, to)
    PROVE  /\ Processor!GoesTo(to)
           /\ to = Following => Processor!GoesOn
  BY SameWords DEF Completes, Processor!GoesTo, Processor!GoesOn, Following

LEMMA StopsIs == ASSUME MipsInv, Halts PROVE Processor!Stops
  BY NothingWritten DEF Halts, Processor!Stops, counters

(* What writes one register. *)
LEMMA GivesIs ==
    ASSUME MipsInv, NEW op, Is({op}), NEW d \in Registers, d = 0 \/ Settled(d), NEW n \in Int,
           Completes([registers EXCEPT ![d] = Wrap(n)], 0, 0, Following),
           UNCHANGED <<HiReg, LoReg, memory>>
    PROVE  Processor!Gives(op, d, n)
  <1>1. Wrap(n) \in Word
    BY Wrapped
  <1>2. Loaded(registers)' = [Loaded(registers) EXCEPT ![d] = Wrap(n), ![0] = 0]
    BY <1>1, SettledWritten, WordIs, Machine DEF Completes
  <1>3. Processor!Set(d, n)
    BY <1>2, SetIs
  <1> QED
    BY <1>3, GoesToIs, SameInstruction DEF Processor!Gives

-----------------------------------------------------------------------------
(* Arithmetic on integers *)

LEMMA Congruent ==
    ASSUME NEW n \in Int, NEW m \in Int, NEW k \in Int, n = m + Modulus * k
    PROVE  Wrap(n) = Wrap(m)
  BY Wrapped

LEMMA NearWrap ==
    ASSUME NEW n \in Int, -Modulus <= n, n < 2 * Modulus
    PROVE  Wrap(n) = IF n < 0 THEN n + Modulus ELSE IF n < Modulus THEN n ELSE n - Modulus
  <1>1. Modulus \in Nat /\ 0 \in Int /\ 1 \in Int /\ -1 \in Int
    BY WordIs
  <1>2. CASE n < 0
    <2>1. n + Modulus \in Word /\ n + Modulus \in Int /\ n = (n + Modulus) + Modulus * (-1)
      BY <1>1, <1>2, WordIs
    <2>2. Wrap(n) = Wrap(n + Modulus)
      BY <1>1, <2>1, Congruent
    <2> QED
      BY <1>2, <2>1, <2>2, Wrapped
  <1>3. CASE 0 <= n /\ n < Modulus
    <2>1. n \in Word
      BY <1>1, <1>3, WordIs
    <2> QED
      BY <1>3, <2>1, Wrapped
  <1>4. CASE Modulus <= n
    <2>1. n - Modulus \in Word /\ n - Modulus \in Int /\ n = (n - Modulus) + Modulus * 1
      BY <1>1, <1>4, WordIs
    <2>2. Wrap(n) = Wrap(n - Modulus)
      BY <1>1, <2>1, Congruent
    <2> QED
      BY <1>1, <1>4, <2>1, <2>2, Wrapped
  <1> QED
    BY <1>1, <1>2, <1>3, <1>4

(* The half of the modulus, and the signs. *)
LEMMA Halves ==
    \E h \in Nat : /\ Modulus = 2 * h /\ h > 0 /\ Modulus \div 2 = h
                   /\ \A w : Negative(w) <=> w >= h
                   /\ \A w : Signed(w) = IF w >= h THEN w - 2 * h ELSE w
                   /\ \A n : Processor!Fits(n) <=> -h <= n /\ n < h
                   /\ \A w \in Word : w \in Nat /\ w < 2 * h
  <1>1. Modulus = 2 * TwoTo[WordBits - 1] /\ Modulus \div 2 = TwoTo[WordBits - 1]
        /\ TwoTo[WordBits - 1] \in Nat /\ TwoTo[WordBits - 1] > 0
    BY Sizes
  <1>2. PICK h \in Nat : h = TwoTo[WordBits - 1]
    BY <1>1
  <1>3. Modulus = 2 * h /\ Modulus \div 2 = h /\ h > 0
    BY <1>1, <1>2
  <1>4. \A w : Negative(w) <=> w >= h
    BY <1>3 DEF Negative
  <1>5. \A w : Signed(w) = IF w >= h THEN w - 2 * h ELSE w
    BY <1>3, <1>4 DEF Signed
  <1>6. \A n : Processor!Fits(n) <=> -h <= n /\ n < h
    BY <1>3, SameSizes DEF Processor!Fits
  <1>7. \A w \in Word : w \in Nat /\ w < 2 * h
    BY <1>3, WordIs
  <1> QED
    BY <1>3, <1>4, <1>5, <1>6, <1>7

LEMMA SumIs ==
    ASSUME NEW v \in Word, NEW w \in Word
    PROVE  /\ Signed(v) + Signed(w) \in Int
           /\ Wrap(Signed(v) + Signed(w)) = Wrap(v + w)
           /\ Processor!Fits(Signed(v) + Signed(w)) <=>
                  ~(SameSign(v, w) /\ ~SameSign(v, Wrap(v + w)))
  <1>1. PICK h \in Nat :
            /\ Modulus = 2 * h /\ h > 0 /\ Modulus \div 2 = h
            /\ \A x : Negative(x) <=> x >= h
            /\ \A x : Signed(x) = IF x >= h THEN x - 2 * h ELSE x
            /\ \A n : Processor!Fits(n) <=> -h <= n /\ n < h
            /\ \A x \in Word : x \in Nat /\ x < 2 * h
    BY Halves
  <1>2. v \in Nat /\ v < 2 * h /\ w \in Nat /\ w < 2 * h
    BY <1>1
  <1>3. /\ Signed(v) = IF v >= h THEN v - 2 * h ELSE v
        /\ Signed(w) = IF w >= h THEN w - 2 * h ELSE w
    BY <1>1
  <1>4. Wrap(v + w) = IF v + w < 2 * h THEN v + w ELSE v + w - 2 * h
    <2>1. v + w \in Int /\ -Modulus <= v + w /\ v + w < 2 * Modulus /\ ~(v + w < 0)
      BY <1>1, <1>2
    <2> QED
      BY <1>1, <2>1, NearWrap
  <1>5. Wrap(Signed(v) + Signed(w)) = Wrap(v + w)
    <2>1. PICK k \in {0, -1, -2} : Signed(v) + Signed(w) = (v + w) + (2 * h) * k
      <3>1. CASE v >= h /\ w >= h
        <4>1. Signed(v) + Signed(w) = (v + w) + (2 * h) * (-2)
          BY <1>2, <1>3, <3>1
        <4> QED
          BY <4>1
      <3>2. CASE v < h /\ w < h
        <4>1. Signed(v) + Signed(w) = (v + w) + (2 * h) * 0
          BY <1>2, <1>3, <3>2
        <4> QED
          BY <4>1
      <3>3. CASE ~(v >= h /\ w >= h) /\ ~(v < h /\ w < h)
        <4>1. Signed(v) + Signed(w) = (v + w) + (2 * h) * (-1)
          BY <1>2, <1>3, <3>3
        <4> QED
          BY <4>1
      <3> QED
        BY <3>1, <3>2, <3>3
    <2>2. Signed(v) + Signed(w) \in Int /\ v + w \in Int /\ k \in Int
      BY <1>2, <1>3
    <2>3. Signed(v) + Signed(w) = (v + w) + Modulus * k
      BY <1>1, <2>1
    <2> QED
      BY <2>2, <2>3, Congruent
  <1>6. PICK x : x = Wrap(v + w)
    OBVIOUS
  <1>7. x \in Nat /\ (x = IF v + w < 2 * h THEN v + w ELSE v + w - 2 * h)
    BY <1>2, <1>4, <1>6
  <1>8. SameSign(v, w) <=> (v >= h <=> w >= h)
    BY <1>1 DEF SameSign
  <1>9. SameSign(v, Wrap(v + w)) <=> (v >= h <=> x >= h)
    BY <1>1, <1>6 DEF SameSign
  <1>10. Processor!Fits(Signed(v) + Signed(w)) <=>
             -h <= Signed(v) + Signed(w) /\ Signed(v) + Signed(w) < h
    BY <1>1
  <1>11. (-h <= Signed(v) + Signed(w) /\ Signed(v) + Signed(w) < h) <=>
             ~((v >= h <=> w >= h) /\ ~(v >= h <=> x >= h))
    BY <1>2, <1>3, <1>7
  <1> QED
    BY <1>2, <1>3, <1>5, <1>8, <1>9, <1>10, <1>11

LEMMA DifferenceIs ==
    ASSUME NEW v \in Word, NEW w \in Word
    PROVE  /\ Signed(v) - Signed(w) \in Int
           /\ Wrap(Signed(v) - Signed(w)) = Wrap(v - w)
           /\ Processor!Fits(Signed(v) - Signed(w)) <=>
                  ~(~SameSign(v, w) /\ ~SameSign(v, Wrap(v - w)))
  <1>1. PICK h \in Nat :
            /\ Modulus = 2 * h /\ h > 0 /\ Modulus \div 2 = h
            /\ \A x : Negative(x) <=> x >= h
            /\ \A x : Signed(x) = IF x >= h THEN x - 2 * h ELSE x
            /\ \A n : Processor!Fits(n) <=> -h <= n /\ n < h
            /\ \A x \in Word : x \in Nat /\ x < 2 * h
    BY Halves
  <1>2. v \in Nat /\ v < 2 * h /\ w \in Nat /\ w < 2 * h
    BY <1>1
  <1>3. /\ Signed(v) = IF v >= h THEN v - 2 * h ELSE v
        /\ Signed(w) = IF w >= h THEN w - 2 * h ELSE w
    BY <1>1
  <1>4. Wrap(v - w) = IF v - w < 0 THEN v - w + 2 * h ELSE v - w
    <2>1. v - w \in Int /\ -Modulus <= v - w /\ v - w < 2 * Modulus /\ v - w < Modulus
      BY <1>1, <1>2
    <2> QED
      BY <1>1, <2>1, NearWrap
  <1>5. Wrap(Signed(v) - Signed(w)) = Wrap(v - w)
    <2>1. PICK k \in {0, -1, 1} : Signed(v) - Signed(w) = (v - w) + (2 * h) * k
      <3>1. CASE v >= h /\ w < h
        <4>1. Signed(v) - Signed(w) = (v - w) + (2 * h) * (-1)
          BY <1>2, <1>3, <3>1
        <4> QED
          BY <4>1
      <3>2. CASE v >= h <=> w >= h
        <4>1. Signed(v) - Signed(w) = (v - w) + (2 * h) * 0
          BY <1>2, <1>3, <3>2
        <4> QED
          BY <4>1
      <3>3. CASE v < h /\ w >= h
        <4>1. Signed(v) - Signed(w) = (v - w) + (2 * h) * 1
          BY <1>2, <1>3, <3>3
        <4> QED
          BY <4>1
      <3> QED
        BY <1>2, <3>1, <3>2, <3>3
    <2>2. Signed(v) - Signed(w) \in Int /\ v - w \in Int /\ k \in Int
      BY <1>2, <1>3
    <2>3. Signed(v) - Signed(w) = (v - w) + Modulus * k
      BY <1>1, <2>1
    <2> QED
      BY <2>2, <2>3, Congruent
  <1>6. PICK x : x = Wrap(v - w)
    OBVIOUS
  <1>7. x \in Nat /\ (x = IF v - w < 0 THEN v - w + 2 * h ELSE v - w)
    BY <1>2, <1>4, <1>6
  <1>8. SameSign(v, w) <=> (v >= h <=> w >= h)
    BY <1>1 DEF SameSign
  <1>9. SameSign(v, Wrap(v - w)) <=> (v >= h <=> x >= h)
    BY <1>1, <1>6 DEF SameSign
  <1>10. Processor!Fits(Signed(v) - Signed(w)) <=>
             -h <= Signed(v) - Signed(w) /\ Signed(v) - Signed(w) < h
    BY <1>1
  <1>11. (-h <= Signed(v) - Signed(w) /\ Signed(v) - Signed(w) < h) <=>
             ~(~(v >= h <=> w >= h) /\ ~(v >= h <=> x >= h))
    BY <1>2, <1>3, <1>7
  <1> QED
    BY <1>2, <1>3, <1>5, <1>8, <1>9, <1>10, <1>11

-----------------------------------------------------------------------------

-----------------------------------------------------------------------------
(* Bits *)

(* A word has the bits of one word only. *)
LEMMA BitsDiffer ==
    \A n \in Nat : \A v, w \in 0..(TwoTo[n] - 1) :
        (\A b \in 0..(n - 1) : Bit(v, b) <=> Bit(w, b)) => v = w
  <1> DEFINE Agree(n, v, w) == \A b \in 0..(n - 1) : Bit(v, b) <=> Bit(w, b)
             T == {n \in Nat : \A v, w \in 0..(TwoTo[n] - 1) : Agree(n, v, w) => v = w}
  <1>1. 0 \in T
    <2>1. TwoTo[0] = 1
      BY Powers
    <2>2. \A v, w \in 0..(TwoTo[0] - 1) : v = w
      BY <2>1
    <2> QED
      BY <2>2
  <1>2. \A n \in T : n + 1 \in T
    <2> TAKE n \in T
    <2>1. TwoTo[n + 1] = 2 * TwoTo[n] /\ TwoTo[n] \in Nat
      BY Powers
    <2>2. \A v \in 0..(TwoTo[n + 1] - 1) : \E u \in 0..(TwoTo[n] - 1) :
              /\ v = IF Bit(v, n) THEN u + TwoTo[n] ELSE u
              /\ \A b \in 0..(n - 1) : Bit(v, b) <=> Bit(u, b)
      <3> TAKE v \in 0..(TwoTo[n + 1] - 1)
      <3>1. CASE v < TwoTo[n]
        <4>1. v \in 0..(TwoTo[n] - 1)
          BY <2>1, <3>1
        <4>2. ~Bit(v, n)
          BY <4>1, BitAdded
        <4> QED
          BY <4>1, <4>2
      <3>2. CASE v >= TwoTo[n]
        <4>1. PICK u \in 0..(TwoTo[n] - 1) : v = u + TwoTo[n]
          <5>1. v - TwoTo[n] \in 0..(TwoTo[n] - 1) /\ v = (v - TwoTo[n]) + TwoTo[n]
            BY <2>1, <3>2
          <5> QED
            BY <5>1
        <4>2. \A b \in Nat : Bit(v, b) <=> b = n \/ Bit(u, b)
          BY <4>1, BitAdded
        <4> QED
          BY <4>1, <4>2
      <3> QED
        BY <2>1, <3>1, <3>2
    <2>3. ASSUME NEW v \in 0..(TwoTo[n + 1] - 1), NEW w \in 0..(TwoTo[n + 1] - 1),
                 Agree(n + 1, v, w)
          PROVE  v = w
      <3>1. PICK x \in 0..(TwoTo[n] - 1) :
                /\ v = IF Bit(v, n) THEN x + TwoTo[n] ELSE x
                /\ \A b \in 0..(n - 1) : Bit(v, b) <=> Bit(x, b)
        BY <2>2
      <3>2. PICK y \in 0..(TwoTo[n] - 1) :
                /\ w = IF Bit(w, n) THEN y + TwoTo[n] ELSE y
                /\ \A b \in 0..(n - 1) : Bit(w, b) <=> Bit(y, b)
        BY <2>2
      <3>3. \A b \in 0..n : Bit(v, b) <=> Bit(w, b)
        BY <2>3
      <3>4. Bit(v, n) <=> Bit(w, n)
        BY <3>3
      <3>5. Agree(n, x, y)
        BY <3>1, <3>2, <3>3
      <3>6. x = y
        BY <3>5
      <3> QED
        BY <3>1, <3>2, <3>4, <3>6
    <2> HIDE DEF Agree
    <2> QED
      BY <2>3
  <1>3. T = Nat
    <2> HIDE DEF T
    <2>1. T \in SUBSET Nat
      BY DEF T
    <2> QED
      BY <1>1, <1>2, <2>1, SetInduction
  <1> QED
    BY <1>3

LEMMA OneWord ==
    ASSUME NEW v \in Word
    PROVE  FromBits(Bits(v)) = v
  <1>1. \A w \in Word : Bits(w) = Bits(v) => w = v
    <2> TAKE w \in Word
    <2> HAVE Bits(w) = Bits(v)
    <2>1. \A b \in 0..(WordBits - 1) : Bit(w, b) <=> Bit(v, b)
      BY DEF Bits, Bit
    <2>2. v \in 0..(TwoTo[WordBits] - 1) /\ w \in 0..(TwoTo[WordBits] - 1) /\ WordBits \in Nat
      BY Sizes DEF Word, Modulus
    <2> QED
      BY <2>1, <2>2, BitsDiffer
  <1>2. Bits(v) \in SUBSET (0..(WordBits - 1))
    BY DEF Bits
  <1> QED
    BY <1>1, <1>2, FromBitsIs

LEMMA Complement ==
    ASSUME NEW w \in Word
    PROVE  Not(w) \in Word /\ Bits(Not(w)) = (0..(WordBits - 1)) \ Bits(w)
  <1>1. Not(w) \in Word
    BY WordIs DEF Not
  <1>2. ASSUME NEW b \in 0..(WordBits - 1)
        PROVE  Bit(Not(w), b) <=> ~Bit(w, b)
    <2>1. b \in Nat /\ WordBits \in Nat /\ WordBits - b - 1 \in Nat /\ b <= WordBits
          /\ (WordBits - b - 1) + 1 = WordBits - b
      BY Sizes
    <2>2. PICK T \in Nat \ {0} : T = TwoTo[b]
      BY <2>1, Powers
    <2>3. PICK half \in Nat : half = TwoTo[WordBits - b - 1]
      BY <2>1, Powers
    <2>4. Modulus = T * (2 * half)
      <3>1. TwoTo[WordBits - b] = 2 * half
        BY <2>1, <2>3, Powers
      <3>2. TwoTo[WordBits] = TwoTo[b] * TwoTo[WordBits - b]
        BY <2>1, PowersGrow
      <3> QED
        BY <2>2, <3>1, <3>2 DEF Modulus
    <2>5. w \in Nat
      BY WordIs
    <2>6. PICK q \in Nat, r \in 0..(T - 1) : w = T * q + r /\ q = w \div T
      <3>1. w \div T \in Nat /\ w % T \in 0..(T - 1) /\ w = T * (w \div T) + (w % T)
        BY <2>5, NatRemainder
      <3> QED
        BY <3>1
    <2>7. Not(w) = T * (2 * half - 1 - q) + (T - 1 - r)
      <3>1. T * (2 * half - 1 - q) = T * (2 * half) - T - T * q
        <4>1. 2 * half \in Int /\ 1 + q \in Int /\ 2 * half - 1 - q = 2 * half - (1 + q)
          OBVIOUS
        <4>2. T * (2 * half - (1 + q)) = T * (2 * half) - T * (1 + q)
          BY <4>1, Products
        <4>3. T * (1 + q) = T * 1 + T * q
          BY Products
        <4>4. T * q \in Int /\ T * (2 * half) \in Int
          BY <4>1, Products
        <4> QED
          BY <4>1, <4>2, <4>3, <4>4
      <3>2. T * q \in Nat /\ T * (2 * half) \in Nat
        BY Products
      <3> QED
        BY <2>4, <2>6, <3>1, <3>2 DEF Not
    <2>8. Not(w) \div T = 2 * half - 1 - q
      <3>1. 2 * half - 1 - q \in Int /\ T - 1 - r \in 0..(T - 1)
        OBVIOUS
      <3> QED
        BY <2>7, <3>1, OneQuotient
    <2>9. (2 * half - 1 - q) % 2 = 1 <=> ~(q % 2 = 1)
      OBVIOUS
    <2> QED
      BY <2>2, <2>6, <2>8, <2>9 DEF Bit
  <1> QED
    BY <1>1, <1>2 DEF Bits, Bit

LEMMA LogicIs ==
    ASSUME NEW v \in Word, NEW w \in Word
    PROVE  LET both(x, y)    == x /\ y
               either(x, y)  == x \/ y
               oneOf(x, y)   == x # y
               neither(x, y) == ~x /\ ~y
           IN  /\ And(v, w) = Processor!Bitwise(v, w, both)
               /\ Or(v, w) = Processor!Bitwise(v, w, either)
               /\ Xor(v, w) = Processor!Bitwise(v, w, oneOf)
               /\ Not(Or(v, w)) = Processor!Bitwise(v, w, neither)
  <1> DEFINE all == 0..(WordBits - 1)
  <1>1. Bits(v) \subseteq all /\ Bits(w) \subseteq all
    BY DEF Bits
  <1>2. And(v, w) = FromBits({b \in all : b \in Bits(v) /\ b \in Bits(w)})
    <2>1. Bits(v) \cap Bits(w) = {b \in all : b \in Bits(v) /\ b \in Bits(w)}
      BY <1>1
    <2> QED
      BY <2>1 DEF And
  <1>3. Or(v, w) = FromBits({b \in all : b \in Bits(v) \/ b \in Bits(w)})
    <2>1. Bits(v) \cup Bits(w) = {b \in all : b \in Bits(v) \/ b \in Bits(w)}
      BY <1>1
    <2> QED
      BY <2>1 DEF Or
  <1>4. Xor(v, w) = FromBits({b \in all : (b \in Bits(v)) # (b \in Bits(w))})
    <2>1. (Bits(v) \ Bits(w)) \cup (Bits(w) \ Bits(v))
              = {b \in all : (b \in Bits(v)) # (b \in Bits(w))}
      BY <1>1
    <2> QED
      BY <2>1 DEF Xor
  <1>5. Not(Or(v, w)) = FromBits({b \in all : ~(b \in Bits(v)) /\ ~(b \in Bits(w))})
    <2>1. Bits(v) \cup Bits(w) \in SUBSET all
      BY <1>1
    <2>2. Or(v, w) \in Word /\ Bits(Or(v, w)) = Bits(v) \cup Bits(w)
      BY <2>1, FromBitsIs DEF Or
    <2>3. Not(Or(v, w)) \in Word
          /\ Bits(Not(Or(v, w))) = {b \in all : ~(b \in Bits(v)) /\ ~(b \in Bits(w))}
      BY <2>2, Complement
    <2> QED
      BY <2>3, OneWord
  <1> HIDE DEF all
  <1> QED
    BY <1>2, <1>3, <1>4, <1>5, SameSizes, SameWords DEF Processor!Bitwise, all

(* An immediate, sign-extended and cut again. *)
LEMMA LowExtended ==
    ASSUME NEW f \in Nat, f < TwoTo[HalfBits]
    PROVE  /\ Low(SignExtend(f, HalfBits), HalfBits) = f
           /\ ShiftLeft(SignExtend(f, HalfBits), HalfBits) = Wrap(f * TwoTo[HalfBits])
  <1>1. PICK T \in Nat \ {0} : T = TwoTo[HalfBits] /\ Modulus = T * T
    BY Sizes
  <1>2. Low(f, HalfBits) = f
    <2>1. f \in 0..(T - 1)
      BY <1>1
    <2> QED
      BY <1>1, <2>1, SmallQuotient DEF Low
  <1>3. CASE SignExtend(f, HalfBits) = f
    BY <1>2, <1>3 DEF ShiftLeft
  <1>4. CASE SignExtend(f, HalfBits) = Wrap(f - T)
    <2>1. T * T \in Nat /\ T <= T * T /\ T * (T - 1) = T * T - T
      BY Products, ProductsGrow
    <2>2. Wrap(f - T) = (f - T) + T * T
      <3>1. f - T \in Int /\ -Modulus <= f - T /\ f - T < 0 /\ f - T < 2 * Modulus
        BY <1>1, <2>1
      <3> QED
        BY <1>1, <3>1, NearWrap
    <2>3. Wrap(f - T) = T * (T - 1) + f
      BY <2>1, <2>2
    <2>4. Low(Wrap(f - T), HalfBits) = f
      <3>1. T - 1 \in Int /\ f \in 0..(T - 1)
        BY <1>1
      <3>2. (T * (T - 1) + f) % T = f
        BY <3>1, OneQuotient
      <3> QED
        BY <1>1, <2>3, <3>2 DEF Low
    <2>5. Wrap((T * (T - 1) + f) * T) = Wrap(f * T)
      <3>1. T * (T - 1) \in Int /\ f * T \in Int /\ T - 1 \in Int
        BY Products
      <3>2. (T * (T - 1) + f) * T = f * T + (T * T) * (T - 1)
        <4>1. (T * (T - 1) + f) * T = (T * (T - 1)) * T + f * T
          BY <3>1, Products
        <4>2. (T * (T - 1)) * T = (T * T) * (T - 1)
          BY <3>1, Products
        <4>3. (T * T) * (T - 1) \in Int
          BY <2>1, <3>1, Products
        <4> QED
          BY <3>1, <4>1, <4>2, <4>3
      <3>3. (T * (T - 1) + f) * T \in Int
        BY <3>1, Products
      <3>4. (T * (T - 1) + f) * T = f * T + Modulus * (T - 1)
        BY <1>1, <3>2
      <3> DEFINE n == (T * (T - 1) + f) * T
                 m == f * T
                 k == T - 1
      <3>5. n \in Int /\ m \in Int /\ k \in Int /\ n = m + Modulus * k
        BY <3>1, <3>3, <3>4
      <3>6. Wrap(n) = Wrap(m)
        <4> HIDE DEF n, m, k
        <4> QED
          BY <3>5, Congruent
      <3> QED
        BY <3>6
    <2> QED
      BY <1>1, <1>4, <2>3, <2>4, <2>5 DEF ShiftLeft
  <1> QED
    BY <1>1, <1>2, <1>3, <1>4 DEF SignExtend

-----------------------------------------------------------------------------

-----------------------------------------------------------------------------
(* Arithmetic *)

LEMMA OperandsSeen ==
    ASSUME MipsInv, Aligned(PCReg, 4), ~TouchesPendingLoad
    PROVE  /\ instr.rs \in Touched => Processor!s = rsv
           /\ instr.rt \in Touched => Processor!t = rtv
           /\ \A r \in Touched : Settled(r)
  <1>1. instr.rs \in Registers /\ instr.rt \in Registers
    BY Fetched
  <1>2. \A r \in Touched : Settled(r)
    BY DEF TouchesPendingLoad, Settled
  <1> QED
    BY <1>1, <1>2, SettledSeen, SameInstruction DEF rsv, rtv

(* The kinds of instructions are disjoint. *)
LEMMA Kinds ==
    /\ \A op \in Arithmetic :
          op \notin Loads \cup Merges \cup {"BGEZAL", "BLTZAL", "JAL", "JALR", "SYSCALL"}
    /\ \A op \in Arithmetic : op \in IFMT <=> op \in Immediates
    /\ \A op \in Loads \cup Merges : op \notin {"BGEZAL", "BLTZAL", "JAL", "JALR", "SYSCALL"}
    /\ \A op \in IFMT : op \notin Jumps
    /\ \A op \in Arithmetic : op \notin Jumps
  BY DEF Arithmetic, Immediates, IFMT, Shifts, Sums, LogicAndMoves, Differences,
         Loads, Merges, Stores, Branches, Jumps

LEMMA TouchedIs ==
    /\ instr.op \in Arithmetic => Touched = {instr.rs, instr.rt, Destination}
    /\ instr.op \in Loads \cup Merges => Touched = {instr.rs}
  BY Kinds DEF Touched

LEMMA ComputeGives ==
    ASSUME MipsInv, Compute, ~TouchesPendingLoad, NEW n \in Int, Value = Wrap(n)
    PROVE  Processor!Gives(instr.op, Destination, n)
  <1>1. Is({instr.op}) /\ Aligned(PCReg, 4) /\ instr.op \in Arithmetic
    BY DEF Compute, Is
  <1>2. Destination \in Registers
    BY <1>1, Fetched
  <1>3. Destination \in Touched
    BY <1>1, TouchedIs
  <1>4. Settled(Destination)
    BY <1>1, <1>3, OperandsSeen
  <1>5. /\ Completes([registers EXCEPT ![Destination] = Wrap(n)], 0, 0, Following)
        /\ UNCHANGED <<HiReg, LoReg, memory>>
    BY DEF Compute
  <1> QED
    BY <1>1, <1>2, <1>4, <1>5, GivesIs

(* What Compute works on, as the Processor has it. *)
LEMMA ComputeOperands ==
    ASSUME MipsInv, Is(Arithmetic), ~TouchesPendingLoad
    PROVE  /\ Processor!s = rsv /\ Processor!t = rtv
           /\ rsv \in Word /\ rtv \in Word /\ extra \in Word
           /\ Processor!i = instr
           /\ instr.op \in Immediates => Destination = instr.rt /\ extra = Processor!immediate
           /\ instr.op \in Immediates =>
                  /\ Low(extra, HalfBits) = instr.field
                  /\ ShiftLeft(extra, HalfBits) = Wrap(instr.field * TwoTo[HalfBits])
           /\ instr.op \notin Immediates => Destination = instr.rd /\ extra = instr.field
           /\ instr.field \in Word
  <1>1. Aligned(PCReg, 4) /\ instr.op \in Arithmetic
    BY DEF Is
  <1>2. instr.rs \in Touched /\ instr.rt \in Touched
    BY <1>1, TouchedIs
  <1>3. instr.op \in Immediates => instr.op \in IFMT /\ extra = Processor!immediate
    BY SameInstruction DEF IFMT, extra
  <1>4. instr.op \in Immediates =>
            /\ Low(extra, HalfBits) = instr.field
            /\ ShiftLeft(extra, HalfBits) = Wrap(instr.field * TwoTo[HalfBits])
    <2> SUFFICES ASSUME instr.op \in Immediates
                 PROVE  /\ Low(extra, HalfBits) = instr.field
                        /\ ShiftLeft(extra, HalfBits) = Wrap(instr.field * TwoTo[HalfBits])
      OBVIOUS
    <2>1. instr.field \in Nat /\ instr.field < TwoTo[HalfBits]
      BY <1>1, <1>3, Fetched, Kinds, WordIs DEF FieldLimit
    <2> QED
      BY <1>3, <2>1, LowExtended DEF extra
  <1>5. instr.op \notin Immediates => instr.op \notin IFMT
    BY <1>1, Kinds
  <1> QED
    BY <1>1, <1>2, <1>3, <1>4, <1>5, OperandsSeen, Fetched, SameInstruction
       DEF Destination, extra

LEMMA LogicStep ==
    ASSUME MipsInv, Compute, ~TouchesPendingLoad,
           instr.op \in {"AND", "ANDI", "ORI", "XOR", "XORI", "NOR"}
    PROVE  Processor!Logic
  <1> DEFINE both(x, y)    == x /\ y
             either(x, y)  == x \/ y
             oneOf(x, y)   == x # y
             neither(x, y) == ~x /\ ~y
  <1>1. Is(Arithmetic)
    BY DEF Compute
  <1>2. /\ rsv \in Word /\ rtv \in Word /\ instr.field \in Word
        /\ Processor!s = rsv /\ Processor!t = rtv /\ Processor!i = instr
    BY <1>1, ComputeOperands
  <1>3. \A n \in Word : n \in Int /\ Wrap(n) = n
    BY WordIs, Wrapped
  <1>4. ASSUME NEW n \in Word, Value = n PROVE Processor!Gives(instr.op, Destination, n)
    BY <1>3, <1>4, ComputeGives
  <1>5. /\ And(rsv, rtv) \in Word /\ And(rsv, instr.field) \in Word
        /\ Or(rsv, instr.field) \in Word
        /\ Xor(rsv, rtv) \in Word /\ Xor(rsv, instr.field) \in Word
        /\ Not(Or(rsv, rtv)) \in Word
    BY Bitwise, Complement
  <1>6. CASE instr.op = "AND"
    <2>1. Value = And(rsv, rtv) /\ Destination = instr.rd
      BY <1>1, <1>6, ComputeOperands DEF Value, SumOrAnd, Sums, Immediates
    <2>2. Processor!Gives("AND", Processor!i.rd, Processor!Bitwise(Processor!s, Processor!t, both))
      BY <1>2, <1>4, <1>5, <1>6, <2>1, LogicIs
    <2> QED
      BY <2>2 DEF Processor!Logic
  <1>7. CASE instr.op = "ANDI"
    <2>1. Value = And(rsv, instr.field) /\ Destination = instr.rt
      BY <1>1, <1>7, ComputeOperands DEF Value, SumOrAnd, Sums, Immediates
    <2>2. Processor!Gives("ANDI", Processor!i.rt,
                          Processor!Bitwise(Processor!s, Processor!i.field, both))
      BY <1>2, <1>4, <1>5, <1>7, <2>1, LogicIs
    <2> QED
      BY <2>2 DEF Processor!Logic
  <1>8. CASE instr.op = "ORI"
    <2>1. Value = Or(rsv, instr.field) /\ Destination = instr.rt
      BY <1>1, <1>8, ComputeOperands DEF Value, LogicOrMove, LogicAndMoves, Sums, Immediates
    <2>2. Processor!Gives("ORI", Processor!i.rt,
                          Processor!Bitwise(Processor!s, Processor!i.field, either))
      BY <1>2, <1>4, <1>5, <1>8, <2>1, LogicIs
    <2> QED
      BY <2>2 DEF Processor!Logic
  <1>9. CASE instr.op = "XOR"
    <2>1. Value = Xor(rsv, rtv) /\ Destination = instr.rd
      BY <1>1, <1>9, ComputeOperands DEF Value, LogicOrMove, LogicAndMoves, Sums, Immediates
    <2>2. Processor!Gives("XOR", Processor!i.rd,
                          Processor!Bitwise(Processor!s, Processor!t, oneOf))
      BY <1>2, <1>4, <1>5, <1>9, <2>1, LogicIs
    <2> QED
      BY <2>2 DEF Processor!Logic
  <1>10. CASE instr.op = "XORI"
    <2>1. Value = Xor(rsv, instr.field) /\ Destination = instr.rt
      BY <1>1, <1>10, ComputeOperands DEF Value, LogicOrMove, LogicAndMoves, Sums, Immediates
    <2>2. Processor!Gives("XORI", Processor!i.rt,
                          Processor!Bitwise(Processor!s, Processor!i.field, oneOf))
      BY <1>2, <1>4, <1>5, <1>10, <2>1, LogicIs
    <2> QED
      BY <2>2 DEF Processor!Logic
  <1>11. CASE instr.op = "NOR"
    <2>1. Value = Not(Or(rsv, rtv)) /\ Destination = instr.rd
      BY <1>1, <1>11, ComputeOperands DEF Value, LogicOrMove, LogicAndMoves, Sums, Immediates
    <2>2. Processor!Gives("NOR", Processor!i.rd,
                          Processor!Bitwise(Processor!s, Processor!t, neither))
      BY <1>2, <1>4, <1>5, <1>11, <2>1, LogicIs
    <2> QED
      BY <2>2 DEF Processor!Logic
  <1> QED
    BY <1>6, <1>7, <1>8, <1>9, <1>10, <1>11

LEMMA SumsStep ==
    ASSUME MipsInv, Compute, ~TouchesPendingLoad,
           instr.op \in {"ADD", "ADDI", "SUB", "ADDU", "ADDIU", "SUBU", "LUI"}
    PROVE  Processor!Sums
  <1>1. Is(Arithmetic) /\ ~Overflows
    BY DEF Compute
  <1>2. /\ rsv \in Word /\ rtv \in Word /\ extra \in Word /\ instr.field \in Word
        /\ Processor!s = rsv /\ Processor!t = rtv /\ Processor!i = instr
    BY <1>1, ComputeOperands
  <1>3. /\ rsv \in Int /\ rtv \in Int /\ extra \in Int /\ instr.field \in Int
    BY <1>2, WordIs
  <1>4. \A op, r, n : /\ Processor!Fits(n) /\ Processor!Gives(op, r, n)
                         => Processor!Checked(op, r, n)
    BY DEF Processor!Checked, Processor!Gives
  <1>5. CASE instr.op = "ADD"
    <2>1. Value = Wrap(rsv + rtv) /\ Destination = instr.rd
      BY <1>1, <1>5, ComputeOperands DEF Value, SumOrAnd, Sums, Immediates
    <2>2. Processor!Gives("ADD", instr.rd, Signed(rsv) + Signed(rtv))
      BY <1>2, <1>5, <2>1, SumIs, ComputeGives
    <2>3. Processor!Fits(Signed(rsv) + Signed(rtv))
      BY <1>1, <1>2, <1>5, SumIs DEF Overflows
    <2>4. Processor!Checked("ADD", Processor!i.rd, Processor!Signed(Processor!s) + Processor!Signed(Processor!t))
      BY <1>2, <1>4, <2>2, <2>3, SameWords
    <2> QED
      BY <2>4 DEF Processor!Sums
  <1>6. CASE instr.op = "ADDI"
    <2>1. Value = Wrap(rsv + extra) /\ Destination = instr.rt /\ extra = Processor!immediate
      BY <1>1, <1>6, ComputeOperands DEF Value, SumOrAnd, Sums, Immediates
    <2>2. Processor!Gives("ADDI", instr.rt, Signed(rsv) + Signed(extra))
      BY <1>2, <1>6, <2>1, SumIs, ComputeGives
    <2>3. Processor!Fits(Signed(rsv) + Signed(extra))
      BY <1>1, <1>2, <1>6, SumIs DEF Overflows, SameSign
    <2>4. Processor!Checked("ADDI", Processor!i.rt, Processor!Signed(Processor!s) + Processor!Signed(Processor!immediate))
      BY <1>2, <1>4, <2>1, <2>2, <2>3, SameWords
    <2> QED
      BY <2>4 DEF Processor!Sums
  <1>7. CASE instr.op = "SUB"
    <2>1. Value = Wrap(rsv - rtv) /\ Destination = instr.rd
      BY <1>1, <1>7, ComputeOperands
         DEF Value, ShiftOrCompare, Sums, LogicAndMoves, Immediates
    <2>2. Processor!Gives("SUB", instr.rd, Signed(rsv) - Signed(rtv))
      BY <1>2, <1>7, <2>1, DifferenceIs, ComputeGives
    <2>3. Processor!Fits(Signed(rsv) - Signed(rtv))
      BY <1>1, <1>2, <1>7, DifferenceIs DEF Overflows
    <2>4. Processor!Checked("SUB", Processor!i.rd, Processor!Signed(Processor!s) - Processor!Signed(Processor!t))
      BY <1>2, <1>4, <2>2, <2>3, SameWords
    <2> QED
      BY <2>4 DEF Processor!Sums
  <1>8. CASE instr.op = "ADDU"
    <2>1. Value = Wrap(rsv + rtv) /\ Destination = instr.rd /\ rsv + rtv \in Int
      BY <1>1, <1>3, <1>8, ComputeOperands DEF Value, SumOrAnd, Sums, Immediates
    <2>2. Processor!Gives("ADDU", Processor!i.rd, Processor!s + Processor!t)
      BY <1>2, <1>8, <2>1, ComputeGives
    <2> QED
      BY <2>2 DEF Processor!Sums
  <1>9. CASE instr.op = "ADDIU"
    <2>1. /\ Value = Wrap(rsv + extra) /\ Destination = instr.rt /\ extra = Processor!immediate
          /\ rsv + extra \in Int
      BY <1>1, <1>3, <1>9, ComputeOperands DEF Value, SumOrAnd, Sums, Immediates
    <2>2. Processor!Gives("ADDIU", Processor!i.rt, Processor!s + Processor!immediate)
      BY <1>2, <1>9, <2>1, ComputeGives
    <2> QED
      BY <2>2 DEF Processor!Sums
  <1>10. CASE instr.op = "SUBU"
    <2>1. Value = Wrap(rsv - rtv) /\ Destination = instr.rd /\ rsv - rtv \in Int
      BY <1>1, <1>3, <1>10, ComputeOperands
         DEF Value, ShiftOrCompare, Sums, LogicAndMoves, Immediates
    <2>2. Processor!Gives("SUBU", Processor!i.rd, Processor!s - Processor!t)
      BY <1>2, <1>10, <2>1, ComputeGives
    <2> QED
      BY <2>2 DEF Processor!Sums
  <1>11. CASE instr.op = "LUI"
    <2>1. Value = Wrap(instr.field * TwoTo[HalfBits]) /\ Destination = instr.rt
      BY <1>1, <1>11, ComputeOperands DEF Value, LogicOrMove, Sums, LogicAndMoves, Immediates
    <2>2. instr.field * TwoTo[HalfBits] \in Int
      <3>1. HalfBits \in Nat /\ TwoTo[HalfBits] \in Int
        BY Sizes, Powers
      <3> QED
        BY <1>3, <3>1, Products
    <2>3. Processor!Gives("LUI", Processor!i.rt, Processor!i.field * Processor!TwoTo[Processor!HalfBits])
      BY <1>2, <1>11, <2>1, <2>2, ComputeGives, SameSizes
    <2> QED
      BY <2>3 DEF Processor!Sums
  <1> QED
    BY <1>5, <1>6, <1>7, <1>8, <1>9, <1>10, <1>11

LEMMA ComparisonsStep ==
    ASSUME MipsInv, Compute, ~TouchesPendingLoad,
           instr.op \in {"SLT", "SLTI", "SLTU", "SLTIU"}
    PROVE  Processor!Comparisons
  <1>1. Is(Arithmetic)
    BY DEF Compute
  <1>2. Processor!s = rsv /\ Processor!t = rtv /\ Processor!i = instr
    BY <1>1, ComputeOperands
  <1>3. ASSUME NEW b, Value = Truth(b) PROVE Processor!Gives(instr.op, Destination, Processor!OneIf(b))
    <2>1. Truth(b) \in Word /\ Truth(b) = Processor!OneIf(b)
      BY WordIs DEF Truth, Processor!OneIf
    <2>2. Truth(b) \in Int /\ Wrap(Truth(b)) = Truth(b)
      BY <2>1, WordIs, Wrapped
    <2> QED
      BY <1>3, <2>1, <2>2, ComputeGives
  <1>4. CASE instr.op = "SLT"
    <2>1. Value = Truth(Signed(rsv) < Signed(rtv)) /\ Destination = instr.rd
      BY <1>1, <1>4, ComputeOperands
         DEF Value, ShiftOrCompare, Sums, LogicAndMoves, Immediates
    <2>2. Processor!Gives("SLT", instr.rd, Processor!OneIf(Signed(rsv) < Signed(rtv)))
      BY <1>3, <1>4, <2>1
    <2> QED
      BY <1>2, <2>2, SameWords DEF Processor!Comparisons
  <1>5. CASE instr.op = "SLTI"
    <2>1. /\ Value = Truth(Signed(rsv) < Signed(extra)) /\ Destination = instr.rt
          /\ extra = Processor!immediate
      BY <1>1, <1>5, ComputeOperands
         DEF Value, ShiftOrCompare, Sums, LogicAndMoves, Immediates
    <2>2. Processor!Gives("SLTI", instr.rt, Processor!OneIf(Signed(rsv) < Signed(extra)))
      BY <1>3, <1>5, <2>1
    <2> QED
      BY <1>2, <2>1, <2>2, SameWords DEF Processor!Comparisons
  <1>6. CASE instr.op = "SLTU"
    <2>1. Value = Truth(rsv < rtv) /\ Destination = instr.rd
      BY <1>1, <1>6, ComputeOperands
         DEF Value, ShiftOrCompare, Sums, LogicAndMoves, Immediates
    <2>2. Processor!Gives("SLTU", instr.rd, Processor!OneIf(rsv < rtv))
      BY <1>3, <1>6, <2>1
    <2> QED
      BY <1>2, <2>2 DEF Processor!Comparisons
  <1>7. CASE instr.op = "SLTIU"
    <2>1. /\ Value = Truth(rsv < extra) /\ Destination = instr.rt
          /\ extra = Processor!immediate
      BY <1>1, <1>7, ComputeOperands
         DEF Value, ShiftOrCompare, Sums, LogicAndMoves, Immediates
    <2>2. Processor!Gives("SLTIU", instr.rt, Processor!OneIf(rsv < extra))
      BY <1>3, <1>7, <2>1
    <2> QED
      BY <1>2, <2>1, <2>2 DEF Processor!Comparisons
  <1> QED
    BY <1>4, <1>5, <1>6, <1>7

LEMMA ShiftingStep ==
    ASSUME MipsInv, Compute, ~TouchesPendingLoad,
           instr.op \in {"SLL", "SLLV", "SRA", "SRAV"}
    PROVE  Processor!Shifting
  <1>1. Is(Arithmetic)
    BY DEF Compute
  <1>2. /\ rsv \in Word /\ rtv \in Word /\ instr.field \in Word
        /\ Processor!s = rsv /\ Processor!t = rtv /\ Processor!i = instr
        /\ Destination = instr.rd /\ extra = instr.field
    BY <1>1, ComputeOperands DEF Immediates
  <1>3. instr.field \in Nat /\ rsv % WordBits \in Nat
    <2>1. WordBits \in Nat \ {0} /\ rsv \in Nat
      BY <1>2, WordIs, Sizes
    <2> QED
      BY <1>2, <2>1, WordIs, NatRemainder
  <1>4. ASSUME NEW k \in Nat
        PROVE  /\ rtv * TwoTo[k] \in Int /\ ShiftLeft(rtv, k) = Wrap(rtv * TwoTo[k])
               /\ Signed(rtv) \div TwoTo[k] \in Int
               /\ ShiftRight(rtv, k) = Wrap(Signed(rtv) \div TwoTo[k])
    <2>1. TwoTo[k] \in Nat \ {0} /\ rtv \in Int /\ Signed(rtv) \in Int
      <3>1. Signed(rtv) \in Int
        BY <1>2, SignedIs, Sizes
      <3> QED
        BY <1>2, <3>1, Powers, WordIs
    <2>2. rtv * TwoTo[k] \in Int
      BY <2>1, Products
    <2>3. Signed(rtv) \div TwoTo[k] \in Int
      BY <2>1, Remainder
    <2> QED
      BY <2>2, <2>3 DEF ShiftLeft, ShiftRight
  <1>5. CASE instr.op = "SLL"
    <2>1. Value = ShiftLeft(rtv, instr.field)
      BY <1>2, <1>5 DEF Value, ShiftOrCompare, Sums, LogicAndMoves
    <2>2. Processor!Gives("SLL", instr.rd, rtv * TwoTo[instr.field])
      BY <1>2, <1>3, <1>4, <1>5, <2>1, ComputeGives
    <2> QED
      BY <1>2, <2>2, SameSizes DEF Processor!Shifting
  <1>6. CASE instr.op = "SLLV"
    <2>1. Value = ShiftLeft(rtv, rsv % WordBits)
      BY <1>6 DEF Value, ShiftOrCompare, Sums, LogicAndMoves
    <2>2. Processor!Gives("SLLV", instr.rd, rtv * TwoTo[rsv % WordBits])
      BY <1>2, <1>3, <1>4, <1>6, <2>1, ComputeGives
    <2> QED
      BY <1>2, <2>2, SameSizes DEF Processor!Shifting
  <1>7. CASE instr.op = "SRA"
    <2>1. Value = ShiftRight(rtv, instr.field)
      BY <1>2, <1>7 DEF Value, ShiftOrCompare, Sums, LogicAndMoves
    <2>2. Processor!Gives("SRA", instr.rd, Signed(rtv) \div TwoTo[instr.field])
      BY <1>2, <1>3, <1>4, <1>7, <2>1, ComputeGives
    <2> QED
      BY <1>2, <2>2, SameSizes, SameWords DEF Processor!Shifting
  <1>8. CASE instr.op = "SRAV"
    <2>1. Value = ShiftRight(rtv, rsv % WordBits)
      BY <1>8 DEF Value, ShiftOrCompare, Sums, LogicAndMoves
    <2>2. Processor!Gives("SRAV", instr.rd, Signed(rtv) \div TwoTo[rsv % WordBits])
      BY <1>2, <1>3, <1>4, <1>8, <2>1, ComputeGives
    <2> QED
      BY <1>2, <2>2, SameSizes, SameWords DEF Processor!Shifting
  <1> QED
    BY <1>5, <1>6, <1>7, <1>8

-----------------------------------------------------------------------------

LEMMA ComputeStep ==
    ASSUME MipsInv, Compute, ~TouchesPendingLoad, instr.op \notin {"OR", "SRL", "SRLV"}
    PROVE  Processor!Next
  <1>1. Is(Arithmetic) /\ instr.op \in Arithmetic
    BY DEF Compute, Is
  <1>2. CASE instr.op \in {"MFHI", "MFLO"}
    <2>1. Processor!i = instr /\ Destination = instr.rd
      BY <1>1, <1>2, ComputeOperands DEF Immediates
    <2>2. /\ HiReg \in Int /\ Wrap(HiReg) = HiReg
          /\ LoReg \in Int /\ Wrap(LoReg) = LoReg
      BY WordIs, Wrapped DEF MipsInv, RegistersSound
    <2>3. CASE instr.op = "MFHI"
      <3>1. Value = HiReg
        BY <2>3 DEF Value, LogicOrMove, Sums, LogicAndMoves
      <3>2. Processor!Gives("MFHI", Processor!i.rd, HiReg)
        BY <2>1, <2>2, <2>3, <3>1, ComputeGives
      <3> QED
        BY <3>2 DEF Processor!HiAndLo, Processor!Next
    <2>4. CASE instr.op = "MFLO"
      <3>1. Value = LoReg
        BY <2>4 DEF Value, LogicOrMove, Sums, LogicAndMoves
      <3>2. Processor!Gives("MFLO", Processor!i.rd, LoReg)
        BY <2>1, <2>2, <2>4, <3>1, ComputeGives
      <3> QED
        BY <3>2 DEF Processor!HiAndLo, Processor!Next
    <2> QED
      BY <1>2, <2>3, <2>4
  <1>3. CASE instr.op \in {"AND", "ANDI", "ORI", "XOR", "XORI", "NOR"}
    BY <1>3, LogicStep DEF Processor!Next
  <1>4. CASE instr.op \in {"ADD", "ADDI", "SUB", "ADDU", "ADDIU", "SUBU", "LUI"}
    BY <1>4, SumsStep DEF Processor!Next
  <1>5. CASE instr.op \in {"SLT", "SLTI", "SLTU", "SLTIU"}
    BY <1>5, ComparisonsStep DEF Processor!Next
  <1>6. CASE instr.op \in {"SLL", "SLLV", "SRA", "SRAV"}
    BY <1>6, ShiftingStep DEF Processor!Next
  <1> QED
    BY <1>1, <1>2, <1>3, <1>4, <1>5, <1>6
       DEF Arithmetic, Immediates, Shifts, Sums, LogicAndMoves, Differences

LEMMA OverflowStep ==
    ASSUME MipsInv, Overflow, ~TouchesPendingLoad
    PROVE  Processor!Next
  <1>1. Is({instr.op}) /\ Is(Arithmetic) /\ instr.op \in {"ADD", "ADDI", "SUB"}
    BY DEF Overflow, Is, Arithmetic, Immediates, Sums, Differences
  <1>2. /\ rsv \in Word /\ rtv \in Word /\ extra \in Word
        /\ Processor!s = rsv /\ Processor!t = rtv
        /\ instr.op \in Immediates => extra = Processor!immediate
    BY <1>1, ComputeOperands
  <1>3. Overflows /\ Processor!Stops
    BY StopsIs DEF Overflow
  <1>4. ASSUME NEW n, NEW r, ~Processor!Fits(n)
        PROVE  Processor!Checked(instr.op, r, n)
    BY <1>1, <1>3, <1>4, SameInstruction DEF Processor!Checked
  <1>5. CASE instr.op = "ADD"
    <2>1. ~Processor!Fits(Signed(rsv) + Signed(rtv))
      BY <1>2, <1>3, <1>5, SumIs DEF Overflows
    <2>2. Processor!Checked("ADD", Processor!i.rd, Processor!Signed(Processor!s) + Processor!Signed(Processor!t))
      BY <1>2, <1>4, <1>5, <2>1, SameWords
    <2> QED
      BY <2>2 DEF Processor!Sums, Processor!Next
  <1>6. CASE instr.op = "ADDI"
    <2>1. ~Processor!Fits(Signed(rsv) + Signed(extra))
      BY <1>2, <1>3, <1>6, SumIs DEF Overflows, SameSign
    <2>2. Processor!Checked("ADDI", Processor!i.rt, Processor!Signed(Processor!s) + Processor!Signed(Processor!immediate))
      BY <1>2, <1>4, <1>6, <2>1, SameWords DEF Immediates
    <2> QED
      BY <2>2 DEF Processor!Sums, Processor!Next
  <1>7. CASE instr.op = "SUB"
    <2>1. ~Processor!Fits(Signed(rsv) - Signed(rtv))
      BY <1>2, <1>3, <1>7, DifferenceIs DEF Overflows
    <2>2. Processor!Checked("SUB", Processor!i.rd, Processor!Signed(Processor!s) - Processor!Signed(Processor!t))
      BY <1>2, <1>4, <1>7, <2>1, SameWords
    <2> QED
      BY <2>2 DEF Processor!Sums, Processor!Next
  <1> QED
    BY <1>1, <1>5, <1>6, <1>7

-----------------------------------------------------------------------------
(* Exceptions and branches *)

LEMMA IllegalStep == ASSUME MipsInv, Illegal PROVE Processor!Next
  <1>1. Processor!Stops /\ instr.op \in {"RES", "UNIMP"} /\ Is({instr.op})
    BY StopsIs DEF Illegal, Is
  <1> QED
    BY <1>1, SameInstruction DEF Processor!Exceptions, Processor!Next

LEMMA SyscallStep == ASSUME MipsInv, Syscall PROVE Processor!Next
  <1>1. PICK rv \in Results : registers' = [Loaded(registers) EXCEPT ![R2] = rv]
    BY DEF Syscall
  <1>2. rv \in Word /\ Wrap(rv) = rv
    BY Machine, Wrapped
  <1>3. LoadReg' = 0 /\ LoadValueReg' = 0 /\ UNCHANGED <<HiReg, LoReg, memory>>
    BY DEF Syscall
  <1>4. Loaded(registers) \in [Registers -> Word] /\ Loaded(registers)[0] = 0
    BY LoadedTyped DEF MipsInv, RegistersSound
  <1>5. Loaded(registers)' = [registers' EXCEPT ![LoadReg'] = LoadValueReg', ![0] = 0]
    BY DEF Loaded
  <1>6. Loaded(registers)' = [Loaded(registers) EXCEPT ![R2] = rv, ![0] = 0]
    <2> DEFINE regs == Loaded(registers)
    <2> HIDE DEF regs
    <2>1. [regs EXCEPT ![R2] = rv, ![0] = 0]
              = [[regs EXCEPT ![R2] = rv] EXCEPT ![0] = 0, ![0] = 0]
      OBVIOUS
    <2> QED
      BY <1>1, <1>3, <1>5, <2>1 DEF regs
  <1>7. Processor!Set(R2, rv)
    BY <1>2, <1>3, <1>6, SetIs
  <1>8. Processor!GoesOn
    BY SameWords DEF Syscall, Processor!GoesOn, Processor!GoesTo
  <1>9. Processor!Executes("SYSCALL")
    BY SameInstruction DEF Syscall
  <1> QED
    BY <1>7, <1>8, <1>9 DEF Processor!Exceptions, Processor!Next

LEMMA PageFaultStep == ASSUME MipsInv, PageFault PROVE UNCHANGED Processor!vars
  BY NothingWritten DEF PageFault, Processor!vars, counters

(* Where a branch goes. *)
LEMMA BranchTarget ==
    ASSUME NEW w \in Word, NEW e \in Word
    PROVE  Wrap(w + IndexToAddr(e)) = Wrap(w + 4 * Signed(e))
  <1>1. Modulus \in Int /\ w \in Int /\ e \in Int
    BY WordIs
  <1>2. PICK k \in {0, 1} : Signed(e) = e - Modulus * k
    <2>1. Signed(e) = e - Modulus * 1 \/ Signed(e) = e - Modulus * 0
      BY <1>1 DEF Signed
    <2> QED
      BY <2>1
  <1>3. TwoTo[2] = 4
    <2>1. TwoTo[1] = 2
      BY Powers
    <2>2. TwoTo[1 + 1] = 2 * TwoTo[1]
      BY Powers
    <2> QED
      BY <2>1, <2>2
  <1>4. PICK d \in Int : IndexToAddr(e) = 4 * e - Modulus * d
    <2>1. 4 * e \in Int /\ Modulus \in Nat \ {0}
      BY <1>1, WordIs
    <2>2. PICK n \in Int : n = 4 * e
      BY <2>1
    <2>3. PICK q \in Int, r \in Int : n = Modulus * q + r /\ r = n % Modulus
      <3>1. /\ n \div Modulus \in Int /\ n % Modulus \in 0..(Modulus - 1)
            /\ n = Modulus * (n \div Modulus) + (n % Modulus)
        BY <2>1, Remainder
      <3>2. n % Modulus \in Int
        BY <2>1, <3>1
      <3> QED
        BY <3>1, <3>2
    <2>4. IndexToAddr(e) = r
      <3>1. e * 4 = 4 * e
        BY <1>1
      <3> QED
        BY <1>3, <2>2, <2>3, <3>1 DEF IndexToAddr, ShiftLeft, Wrap
    <2>5. PICK p \in Int : p = Modulus * q
      BY <1>1, Products
    <2> QED
      BY <2>2, <2>3, <2>4, <2>5
  <1>5. w + IndexToAddr(e) = (w + 4 * Signed(e)) + Modulus * (4 * k - d)
    <2>1. Modulus * (4 * k - d) = Modulus * (4 * k) - Modulus * d
      BY <1>1, Products
    <2>2. Modulus * (4 * k) = 4 * (Modulus * k)
      BY <1>1
    <2>3. Modulus * k \in Int /\ Modulus * d \in Int
      BY <1>1, Products
    <2> QED
      BY <1>1, <1>2, <1>4, <2>1, <2>2, <2>3
  <1>6. w + IndexToAddr(e) \in Int /\ w + 4 * Signed(e) \in Int /\ 4 * k - d \in Int
    <2>1. Modulus * k \in Int /\ Modulus * d \in Int
      BY <1>1, Products
    <2> QED
      BY <1>1, <1>2, <1>4, <2>1
  <1> QED
    BY <1>5, <1>6, Congruent

LEMMA BranchesSeen ==
    ASSUME MipsInv, Is(Branches), ~TouchesPendingLoad
    PROVE  /\ instr.rs \in Touched /\ Processor!s = rsv /\ rsv \in Word
           /\ instr.op \in {"BEQ", "BNE"} => Processor!t = rtv
           /\ instr.op \in {"BGEZAL", "BLTZAL"} => R31 \in Touched
           /\ extra = Processor!immediate /\ extra \in Word
           /\ Is({instr.op}) /\ Aligned(PCReg, 4)
  <1>1. Aligned(PCReg, 4) /\ instr.op \in Branches /\ Is({instr.op})
    BY DEF Is
  <1>2. instr.op \notin Arithmetic \cup Loads \cup Merges
    BY <1>1 DEF Branches, Arithmetic, Immediates, Shifts, Sums, LogicAndMoves, Differences,
                Loads, Merges
  <1>3. /\ instr.rs \in Touched
        /\ instr.op \in {"BEQ", "BNE"} => instr.rt \in Touched
        /\ instr.op \in {"BGEZAL", "BLTZAL"} => R31 \in Touched
    BY <1>1, <1>2 DEF Touched, Branches
  <1>4. extra = Processor!immediate
    BY <1>1, SameInstruction DEF extra, IFMT
  <1> QED
    BY <1>1, <1>3, <1>4, Fetched, OperandsSeen

(* A branch goes where the Processor says. *)
LEMMA BranchGoes ==
    ASSUME MipsInv, Branch, ~TouchesPendingLoad
    PROVE  Processor!GoesTo(Processor!Wrap(IF Taken THEN NextPCReg + 4 * Processor!Signed(Processor!immediate)
                                 ELSE NextPCReg + 4))
  <1>1. extra = Processor!immediate /\ extra \in Word /\ NextPCReg \in Word
    BY BranchesSeen DEF Branch, MipsInv, RegistersSound
  <1>2. Wrap(NextPCReg + IndexToAddr(extra)) = Wrap(NextPCReg + 4 * Signed(extra))
    BY <1>1, BranchTarget
  <1> DEFINE to == IF Taken THEN Wrap(NextPCReg + IndexToAddr(extra)) ELSE Following
  <1>3. Processor!GoesTo(to)
    BY GoesToIs DEF Branch
  <1>4. to = Processor!Wrap(IF Taken THEN NextPCReg + 4 * Processor!Signed(Processor!immediate)
                                 ELSE NextPCReg + 4)
    BY <1>1, <1>2, SameWords DEF Following
  <1> QED
    BY <1>3, <1>4

LEMMA BranchStep ==
    ASSUME MipsInv, Branch, ~TouchesPendingLoad
    PROVE  Processor!Next
  <1>1. Is(Branches) /\ instr.op \in Branches /\ UNCHANGED <<HiReg, LoReg, memory>>
    BY DEF Branch, Is
  <1>2. /\ instr.rs \in Registers /\ R31 \in Registers /\ 0 \in Word /\ 0 \in Registers
        /\ registers \in [Registers -> Word] /\ rsv = registers[instr.rs]
    BY <1>1, BranchesSeen, Fetched, Machine, WordIs DEF MipsInv, RegistersSound, rsv
  <1>3. CASE instr.op \in Branches \ {"BGEZAL", "BLTZAL"}
    <2>1. Linked = registers
      BY <1>3 DEF Linked, Branches
    <2>2. UNCHANGED Loaded(registers)
      BY <2>1, NothingWritten DEF Branch, Completes
    <2> DEFINE near == NextPCReg + 4 * Processor!Signed(Processor!immediate)
               on   == NextPCReg + 4
    <2>3. /\ Processor!Executes(instr.op)
          /\ Processor!GoesTo(Processor!Wrap(IF Taken THEN near ELSE on))
          /\ UNCHANGED <<Loaded(registers), HiReg, LoReg, memory>>
      BY <1>1, <2>2, BranchesSeen, SameInstruction, BranchGoes
    <2>4. Processor!s = rsv /\ (instr.op \in {"BEQ", "BNE"} => Processor!t = rtv)
          /\ rsv \in Word /\ Linked[instr.rs] = rsv
      BY <1>1, <1>2, <2>1, BranchesSeen
    <2>5. Negative(rsv) <=> Signed(rsv) < 0
      BY <2>4, SignedIs
    <2>6. Signed(rsv) \in Int
      BY <2>4, SignedIs, Sizes
    <2>7. CASE instr.op = "BEQ"
      <3>1. Taken <=> Processor!s = Processor!t
        BY <2>4, <2>7 DEF Taken
      <3>5. (IF Processor!s = Processor!t THEN near ELSE on) = (IF Taken THEN near ELSE on)
        BY <3>1
      <3>6. Processor!Branches("BEQ", Processor!s = Processor!t)
        BY <2>3, <2>7, <3>5 DEF Processor!Branches
      <3> QED
        BY <3>6 DEF Processor!Branching, Processor!Next
    <2>8. CASE instr.op = "BNE"
      <3>1. Taken <=> Processor!s # Processor!t
        BY <2>4, <2>8 DEF Taken
      <3>5. (IF Processor!s # Processor!t THEN near ELSE on) = (IF Taken THEN near ELSE on)
        BY <3>1
      <3>6. Processor!Branches("BNE", Processor!s # Processor!t)
        BY <2>3, <2>8, <3>5 DEF Processor!Branches
      <3> QED
        BY <3>6 DEF Processor!Branching, Processor!Next
    <2>9. CASE instr.op = "BGTZ"
      <3>1. Taken <=> Processor!Signed(Processor!s) > 0
        BY <2>4, <2>9, SameWords DEF Taken
      <3>5. (IF Processor!Signed(Processor!s) > 0 THEN near ELSE on) = (IF Taken THEN near ELSE on)
        BY <3>1
      <3>6. Processor!Branches("BGTZ", Processor!Signed(Processor!s) > 0)
        BY <2>3, <2>9, <3>5 DEF Processor!Branches
      <3> QED
        BY <3>6 DEF Processor!Branching, Processor!Next
    <2>10. CASE instr.op = "BLEZ"
      <3>1. Taken <=> Processor!Signed(Processor!s) <= 0
        BY <2>4, <2>10, SameWords DEF Taken
      <3>5. (IF Processor!Signed(Processor!s) <= 0 THEN near ELSE on) = (IF Taken THEN near ELSE on)
        BY <3>1
      <3>6. Processor!Branches("BLEZ", Processor!Signed(Processor!s) <= 0)
        BY <2>3, <2>10, <3>5 DEF Processor!Branches
      <3> QED
        BY <3>6 DEF Processor!Branching, Processor!Next
    <2>11. CASE instr.op = "BGEZ"
      <3>1. Taken <=> ~Negative(rsv)
        BY <2>4, <2>11 DEF Taken
      <3>2. Taken <=> Processor!Signed(Processor!s) >= 0
        BY <2>4, <2>5, <2>6, <3>1, SameWords
      <3>5. (IF Processor!Signed(Processor!s) >= 0 THEN near ELSE on) = (IF Taken THEN near ELSE on)
        BY <3>2
      <3>6. Processor!Branches("BGEZ", Processor!Signed(Processor!s) >= 0)
        BY <2>3, <2>11, <3>5 DEF Processor!Branches
      <3> QED
        BY <3>6 DEF Processor!Branching, Processor!Next
    <2>12. CASE instr.op = "BLTZ"
      <3>1. Taken <=> Negative(rsv)
        BY <2>4, <2>12 DEF Taken
      <3>2. Taken <=> Processor!Signed(Processor!s) < 0
        BY <2>4, <2>5, <2>6, <3>1, SameWords
      <3>5. (IF Processor!Signed(Processor!s) < 0 THEN near ELSE on) = (IF Taken THEN near ELSE on)
        BY <3>2
      <3>6. Processor!Branches("BLTZ", Processor!Signed(Processor!s) < 0)
        BY <2>3, <2>12, <3>5 DEF Processor!Branches
      <3> QED
        BY <3>6 DEF Processor!Branching, Processor!Next
    <2> QED
      BY <1>3, <2>7, <2>8, <2>9, <2>10, <2>11, <2>12 DEF Branches
  <1>4. CASE instr.op \in {"BGEZAL", "BLTZAL"}
    <2>1. Linked = [registers EXCEPT ![R31] = Following] /\ Following \in Word
      BY <1>4, FollowingTyped DEF Linked
    <2>2. Settled(R31) /\ Settled(instr.rs) /\ Aligned(PCReg, 4)
      BY <1>1, <1>4, BranchesSeen, OperandsSeen
    <2>3. DelayedLoad(Linked, 0, 0)
      BY DEF Branch, Completes
    <2>4. Processor!Set(R31, NextPCReg + 4)
      <3>1. Loaded(registers)' = [Loaded(registers) EXCEPT ![R31] = Following, ![0] = 0]
        BY <1>2, <2>1, <2>2, <2>3, SettledWritten
      <3> QED
        BY <1>1, <3>1, SetIs DEF Following
    <2>5. /\ Loaded(registers) \in [Registers -> Word]
          /\ Loaded(registers)[instr.rs] = registers[instr.rs]
      BY <1>2, <2>2, LoadedTyped, SettledSeen
    <2>6. PICK x : x = [Loaded(registers) EXCEPT ![R31] = Wrap(NextPCReg + 4)][instr.rs]
      OBVIOUS
    <2>7. x = Linked[instr.rs] /\ x \in Word
      BY <1>2, <2>1, <2>5, <2>6 DEF Following
    <2>8. (Negative(x) <=> Signed(x) < 0) /\ Signed(x) \in Int
      BY <2>7, SignedIs, Sizes
    <2>9. PICK to : /\ to = IF Taken THEN NextPCReg + 4 * Processor!Signed(Processor!immediate)
                                 ELSE NextPCReg + 4
                    /\ Processor!GoesTo(Processor!Wrap(to))
      BY BranchGoes
    <2>10. Processor!Executes(instr.op) /\ Processor!i = instr
      BY <1>1, BranchesSeen, SameInstruction
    <2> DEFINE near == NextPCReg + 4 * Processor!Signed(Processor!immediate)
               atLeast(y) == IF Processor!Signed(y) >= 0 THEN near ELSE NextPCReg + 4
               less(y)    == IF Processor!Signed(y) < 0 THEN near ELSE NextPCReg + 4
    <2>11. CASE instr.op = "BGEZAL"
      <3>1. Taken <=> ~Negative(x)
        BY <2>7, <2>11 DEF Taken
      <3>2. Taken <=> Processor!Signed(x) >= 0
        BY <2>8, <3>1, SameWords
      <3>3. to = atLeast(x)
        BY <2>9, <3>2
      <3>4. to = atLeast([Loaded(registers) EXCEPT ![R31] = Processor!Wrap(NextPCReg + 4)][Processor!i.rs])
        BY <2>6, <2>10, <3>3, SameWords
      <3>5. Processor!Linking("BGEZAL", R31, atLeast)
        BY <2>4, <2>9, <2>10, <2>11, <3>4 DEF Processor!Linking
      <3> QED
        BY <3>5 DEF Processor!Jumping, Processor!Next
    <2>12. CASE instr.op = "BLTZAL"
      <3>1. Taken <=> Negative(x)
        BY <2>7, <2>12 DEF Taken
      <3>2. Taken <=> Processor!Signed(x) < 0
        BY <2>8, <3>1, SameWords
      <3>3. to = less(x)
        BY <2>9, <3>2
      <3>4. to = less([Loaded(registers) EXCEPT ![R31] = Processor!Wrap(NextPCReg + 4)][Processor!i.rs])
        BY <2>6, <2>10, <3>3, SameWords
      <3>5. Processor!Linking("BLTZAL", R31, less)
        BY <2>4, <2>9, <2>10, <2>12, <3>4 DEF Processor!Linking
      <3> QED
        BY <3>5 DEF Processor!Jumping, Processor!Next
    <2> QED
      BY <1>4, <2>11, <2>12
  <1> QED
    BY <1>1, <1>3, <1>4

-----------------------------------------------------------------------------

LEMMA JumpStep ==
    ASSUME MipsInv, Jump, ~TouchesPendingLoad
    PROVE  Processor!Next
  <1>1. Is(Jumps) /\ instr.op \in {"J", "JAL"} /\ Is({instr.op}) /\ Aligned(PCReg, 4)
        /\ UNCHANGED <<HiReg, LoReg, memory>>
    BY DEF Jump, Is, Jumps
  <1>2. /\ R31 \in Registers /\ 0 \in Word /\ 0 \in Registers
        /\ registers \in [Registers -> Word] /\ Following \in Word
    BY Machine, WordIs, FollowingTyped DEF MipsInv, RegistersSound
  <1>3. /\ extra = instr.field /\ extra \in Nat /\ WordBits - TopBits \in 2..WordBits
        /\ extra < TwoTo[(WordBits - TopBits) - 2]
    <2>1. instr.op \notin IFMT /\ instr.op \in Jumps
      BY <1>1 DEF IFMT, Jumps, Immediates, Loads, Merges, Stores, Branches
    <2>2. instr.field \in Nat /\ instr.field < FieldLimit(instr.op)
      BY <1>1, Fetched, WordIs
    <2>3. FieldLimit(instr.op) = TwoTo[WordBits - TopBits - 2]
      BY <2>1 DEF FieldLimit
    <2> QED
      BY <2>1, <2>2, <2>3, Machine, Sizes DEF extra
  <1> DEFINE kept == TwoTo[WordBits - TopBits]
             jump == (Following - (Following % kept)) + IndexToAddr(extra)
  <1>4. /\ jump = kept * (Following \div kept) + 4 * instr.field
        /\ jump \in Word
    BY <1>2, <1>3, Segments DEF IndexToAddr
  <1>5. Processor!GoesTo(jump) /\ DelayedLoad(Linked, 0, 0)
    BY GoesToIs DEF Jump, Completes
  <1>6. jump = Processor!TwoTo[Processor!WordBits - TopBits]
                 * (Processor!Wrap(NextPCReg + 4) \div Processor!TwoTo[Processor!WordBits - TopBits])
               + 4 * Processor!i.field
    BY <1>4, SameSizes, SameWords, SameInstruction DEF Following
  <1>7. Wrap(jump) = jump
    BY <1>4, Wrapped
  <1> HIDE DEF jump
  <1>8. CASE instr.op = "J"
    <2>1. Linked = registers
      BY <1>8 DEF Linked
    <2>2. UNCHANGED Loaded(registers)
      BY <1>5, <2>1, NothingWritten
    <2>3. Processor!Executes("J")
      BY <1>1, <1>8, SameInstruction
    <2> QED
      BY <1>1, <1>5, <1>6, <2>2, <2>3 DEF Processor!Jumping, Processor!Next
  <1>9. CASE instr.op = "JAL"
    <2>1. Linked = [registers EXCEPT ![R31] = Following]
      BY <1>9 DEF Linked
    <2>2. R31 \in Touched
      <3>1. instr.op \notin Arithmetic \cup Loads \cup Merges
        BY <1>9 DEF Arithmetic, Immediates, Shifts, Sums, LogicAndMoves, Differences, Loads, Merges
      <3> QED
        BY <1>9, <3>1 DEF Touched
    <2>3. Settled(R31)
      BY <1>1, <2>2, OperandsSeen
    <2>4. Loaded(registers)' = [Loaded(registers) EXCEPT ![R31] = Following, ![0] = 0]
      BY <1>2, <1>5, <2>1, <2>3, SettledWritten
    <2>5. Processor!Set(R31, NextPCReg + 4)
      BY <1>1, <2>4, SetIs DEF Following
    <2>6. Processor!Executes("JAL")
      BY <1>1, <1>9, SameInstruction
    <2>7. Processor!GoesTo(Processor!Wrap(jump))
      BY <1>5, <1>7, SameWords
    <2> DEFINE far(x) == Processor!TwoTo[Processor!WordBits - TopBits]
                 * (Processor!Wrap(NextPCReg + 4) \div Processor!TwoTo[Processor!WordBits - TopBits])
               + 4 * Processor!i.field
    <2>8. Processor!Linking("JAL", R31, far)
      BY <1>6, <2>5, <2>6, <2>7 DEF Processor!Linking
    <2> QED
      BY <2>8 DEF Processor!Jumping, Processor!Next
  <1> QED
    BY <1>1, <1>8, <1>9

LEMMA JumpRegisterStep ==
    ASSUME MipsInv, JumpRegister, ~TouchesPendingLoad
    PROVE  Processor!Next
  <1>1. Is({instr.op}) /\ instr.op \in {"JR", "JALR"} /\ Aligned(PCReg, 4)
        /\ UNCHANGED <<HiReg, LoReg, memory>>
    BY DEF JumpRegister, Is, RegisterJumps
  <1>2. /\ instr.rs \in Registers /\ instr.rd \in Registers /\ 0 \in Word /\ 0 \in Registers
        /\ registers \in [Registers -> Word] /\ Following \in Word /\ rsv = registers[instr.rs]
    BY <1>1, Fetched, Machine, WordIs, FollowingTyped DEF MipsInv, RegistersSound, rsv
  <1>3. Processor!GoesTo(Linked[instr.rs]) /\ DelayedLoad(Linked, 0, 0)
    BY GoesToIs DEF JumpRegister, Completes
  <1>4. instr.op \notin Arithmetic \cup Loads \cup Merges
    BY <1>1 DEF Arithmetic, Immediates, Shifts, Sums, LogicAndMoves, Differences, Loads, Merges
  <1>5. instr.rs \in Touched /\ (instr.op = "JALR" => instr.rd \in Touched)
    BY <1>1, <1>4 DEF Touched
  <1>6. /\ Processor!s = rsv /\ Settled(instr.rs) /\ (instr.op = "JALR" => Settled(instr.rd))
        /\ Processor!i = instr
    BY <1>1, <1>5, OperandsSeen, SameInstruction
  <1>7. CASE instr.op = "JR"
    <2>1. Linked = registers
      BY <1>7 DEF Linked
    <2>2. UNCHANGED Loaded(registers)
      BY <1>3, <2>1, NothingWritten
    <2>3. Processor!Executes("JR")
      BY <1>1, <1>7, SameInstruction
    <2>4. Processor!GoesTo(Processor!s)
      BY <1>2, <1>3, <1>6, <2>1
    <2> QED
      BY <1>1, <2>2, <2>3, <2>4 DEF Processor!Jumping, Processor!Next
  <1>8. CASE instr.op = "JALR"
    <2>1. Linked = [registers EXCEPT ![instr.rd] = Following]
      BY <1>8 DEF Linked
    <2>4. Loaded(registers)' = [Loaded(registers) EXCEPT ![instr.rd] = Following, ![0] = 0]
      BY <1>2, <1>3, <1>6, <1>8, <2>1, SettledWritten
    <2>5. Processor!Set(instr.rd, NextPCReg + 4)
      BY <1>1, <2>4, SetIs DEF Following
    <2>6. Processor!Executes("JALR")
      BY <1>1, <1>8, SameInstruction
    <2>7. /\ Loaded(registers) \in [Registers -> Word]
          /\ Loaded(registers)[instr.rs] = registers[instr.rs]
      BY <1>2, <1>6, LoadedTyped, SettledSeen
    <2>8. PICK x : x = [Loaded(registers) EXCEPT ![instr.rd] = Processor!Wrap(NextPCReg + 4)][Processor!i.rs]
      OBVIOUS
    <2>9. x = Linked[instr.rs] /\ x \in Word
      BY <1>2, <1>6, <2>1, <2>7, <2>8, SameWords DEF Following
    <2>10. Processor!GoesTo(Processor!Wrap(x))
      BY <1>3, <2>9, SameWords, Wrapped
    <2> DEFINE there(y) == y
    <2>11. Processor!Linking("JALR", Processor!i.rd, there)
      BY <1>6, <2>5, <2>6, <2>8, <2>10 DEF Processor!Linking
    <2> QED
      BY <2>11 DEF Processor!Jumping, Processor!Next
  <1> QED
    BY <1>1, <1>7, <1>8

-----------------------------------------------------------------------------

-----------------------------------------------------------------------------
(* Memory *)

LEMMA AddressSeen ==
    ASSUME MipsInv, Aligned(PCReg, 4), UsesMemory, ~TouchesPendingLoad
    PROVE  /\ Processor!At = Address /\ Address \in Word
           /\ instr.op \in Stores => Processor!t = rtv
           /\ Processor!i = instr
  <1>1. instr.op \in IFMT
    BY DEF UsesMemory, IFMT
  <1>2. instr.rs \in Touched /\ (instr.op \in Stores => instr.rt \in Touched)
    <2>1. CASE instr.op \in Loads \cup Merges
      <3>1. instr.op \notin Stores
        BY <2>1 DEF Loads, Merges, Stores
      <3> QED
        BY <2>1, <3>1, TouchedIs
    <2>2. CASE instr.op \in Stores
      <3>1. instr.op \notin Arithmetic \cup Loads \cup Merges
                             \cup {"BGEZAL", "BLTZAL", "JAL", "JALR", "SYSCALL"}
        BY <2>2 DEF Stores, Arithmetic, Immediates, Shifts, Sums, LogicAndMoves, Differences,
                    Loads, Merges
      <3>2. Touched = {instr.rs, instr.rt}
        BY <3>1 DEF Touched
      <3> QED
        BY <3>2
    <2> QED
      BY <2>1, <2>2 DEF UsesMemory
  <1>3. Processor!immediate = extra
    BY <1>1, SameInstruction DEF extra
  <1> QED
    BY <1>2, <1>3, OperandsSeen, Fetched, SameWords, SameInstruction
       DEF Processor!At, Address

LEMMA AddressErrorStep ==
    ASSUME MipsInv, AddressError, ~TouchesPendingLoad
    PROVE  Processor!Next
  <1>1. ~halted /\ Processor!Stops
    BY StopsIs DEF AddressError
  <1>2. CASE ~Aligned(PCReg, 4)
    BY <1>1, <1>2 DEF Aligned, Processor!Exceptions, Processor!Next
  <1>3. CASE Aligned(PCReg, 4) /\ UsesMemory /\ ~Aligned(Address, Size)
    <2>1. Processor!At % Size # 0 /\ Processor!Executes(instr.op)
      BY <1>1, <1>3, AddressSeen, SameInstruction DEF Aligned, Is
    <2>2. CASE instr.op \in {"LB", "LBU", "SB"}
      <3>1. Size = 1
        BY <2>2 DEF Size
      <3> QED
        BY <1>1, <2>1, <2>2, <3>1
           DEF Processor!Loading, Processor!Storing, Processor!Memory, Processor!Next
    <2>3. CASE instr.op \in {"LH", "LHU", "SH"}
      <3>1. Size = 2
        BY <2>3 DEF Size
      <3> QED
        BY <1>1, <2>1, <2>3, <3>1
           DEF Processor!Loading, Processor!Storing, Processor!Memory, Processor!Next
    <2>4. CASE instr.op \in {"LW", "LWL", "LWR", "SW", "SWL", "SWR"}
      <3>1. Size = 4
        BY <2>4 DEF Size
      <3> QED
        BY <1>1, <2>1, <2>4, <3>1
           DEF Processor!Loading, Processor!Storing, Processor!Memory, Processor!Next
    <2> QED
      BY <1>3, <2>2, <2>3, <2>4 DEF UsesMemory, Loads, Merges, Stores
  <1> QED
    BY <1>2, <1>3 DEF AddressError

(* What a load puts in its register. *)
LEMMA LoadGives ==
    ASSUME MipsInv, Is({instr.op}), NEW v \in Word, NEW w \in Word, instr.rt = 0 \/ w = v,
           Completes(registers, instr.rt, v, Following), UNCHANGED <<HiReg, LoReg, memory>>
    PROVE  /\ Processor!Executes(instr.op) /\ Processor!GoesOn /\ Processor!i = instr
           /\ Processor!Set(instr.rt, w)
  <1>1. instr.rt \in Registers /\ 0 \in Registers /\ Wrap(w) = w
    BY Fetched, Machine, Wrapped DEF Is
  <1>2. Loaded(registers)' = [Loaded(registers) EXCEPT ![instr.rt] = v, ![0] = 0]
    BY <1>1, NextLoad DEF Completes
  <1>3. Loaded(registers)' = [Loaded(registers) EXCEPT ![instr.rt] = w, ![0] = 0]
    <2> DEFINE regs == Loaded(registers)
    <2> HIDE DEF regs
    <2>1. instr.rt = 0 => [regs EXCEPT ![instr.rt] = v, ![0] = 0]
                           = [regs EXCEPT ![instr.rt] = w, ![0] = 0]
      OBVIOUS
    <2> QED
      BY <1>2, <2>1 DEF regs
  <1> QED
    BY <1>1, <1>3, SetIs, GoesToIs, SameInstruction

LEMMA LoadStep ==
    ASSUME MipsInv, Load, ~TouchesPendingLoad
    PROVE  Processor!Next
  <1>1. /\ Is({instr.op}) /\ Aligned(PCReg, 4) /\ instr.op \in Loads /\ UsesMemory
        /\ Aligned(Address, Size) /\ UNCHANGED <<HiReg, LoReg, memory>>
    BY DEF Load, Accesses, Is, UsesMemory
  <1>2. Processor!At = Address /\ Address \in Word
    BY <1>1, AddressSeen
  <1>3. memory \in [Word -> Byte]
    BY DEF MipsInv, RegistersSound
  <1> DEFINE n == Size
             value == BytesAt(memory, Address, n)
             loaded == IF instr.op \in {"LB", "LH"} THEN SignExtend(value, n * ByteBits)
                       ELSE value
  <1>4. n \in {1, 2, 4} /\ value \in Word
    BY <1>2, <1>3, BytesRead DEF Size
  <1>5. loaded \in Word
    <2>1. n * ByteBits \in 1..WordBits
      BY <1>4, ByteBitsAssumption DEF WordBits
    <2> QED
      BY <1>4, <2>1, WordIs, SignExtended
  <1>6. Completes(registers, instr.rt, loaded, Following)
    BY DEF Load
  <1>7. value = Processor!BytesAt(memory, Processor!At, n)
    BY <1>2, SameWords
  <1>8. Processor!At % n = 0
    BY <1>1, <1>2 DEF Aligned
  <1> HIDE DEF n, value, loaded
  <1>9. /\ Processor!Executes(instr.op) /\ Processor!GoesOn /\ Processor!i = instr
        /\ Processor!Set(instr.rt, loaded)
    BY <1>1, <1>5, <1>6, LoadGives
  <1>10. CASE instr.op = "LB"
    <2>1. n = 1 /\ 1 * ByteBits = ByteBits
      BY <1>10, ByteBitsAssumption DEF n, Size
    <2>2. loaded = Processor!SignExtend(value, ByteBits)
      BY <1>10, <2>1, SameWords DEF loaded
    <2> QED
      BY <1>7, <1>8, <1>9, <1>10, <2>1, <2>2
         DEF Processor!Uses, Processor!Loading, Processor!Memory, Processor!Next
  <1>11. CASE instr.op = "LH"
    <2>1. n = 2 /\ n * ByteBits = HalfBits
      BY <1>11 DEF n, Size, HalfBits
    <2>2. loaded = Processor!SignExtend(value, Processor!HalfBits)
      BY <1>11, <2>1, SameSizes, SameWords DEF loaded
    <2> QED
      BY <1>7, <1>8, <1>9, <1>11, <2>1, <2>2
         DEF Processor!Uses, Processor!Loading, Processor!Memory, Processor!Next
  <1>12. CASE instr.op = "LBU"
    <2>1. n = 1 /\ loaded = value
      BY <1>12 DEF n, Size, loaded
    <2> QED
      BY <1>7, <1>8, <1>9, <1>12, <2>1
         DEF Processor!Uses, Processor!Loading, Processor!Memory, Processor!Next
  <1>13. CASE instr.op = "LHU"
    <2>1. n = 2 /\ loaded = value
      BY <1>13 DEF n, Size, loaded
    <2> QED
      BY <1>7, <1>8, <1>9, <1>13, <2>1
         DEF Processor!Uses, Processor!Loading, Processor!Memory, Processor!Next
  <1>14. CASE instr.op = "LW"
    <2>1. n = 4 /\ loaded = value
      BY <1>14 DEF n, Size, loaded
    <2> QED
      BY <1>7, <1>8, <1>9, <1>14, <2>1
         DEF Processor!Uses, Processor!Loading, Processor!Memory, Processor!Next
  <1> QED
    BY <1>1, <1>10, <1>11, <1>12, <1>13, <1>14 DEF Loads

LEMMA MergingLoadStep ==
    ASSUME MipsInv, MergingLoad, ~TouchesPendingLoad
    PROVE  Processor!Next
  <1>1. /\ Is({instr.op}) /\ Aligned(PCReg, 4) /\ instr.op \in Merges /\ UsesMemory
        /\ Aligned(Address, Size) /\ UNCHANGED <<HiReg, LoReg, memory>>
    BY DEF MergingLoad, Accesses, Is, UsesMemory
  <1>2. Processor!At = Address /\ Address \in Word
    BY <1>1, AddressSeen
  <1>3. Size = 4 /\ Processor!At % 4 = 0
    <2>1. Size = 4
      BY <1>1 DEF Size, Merges
    <2> QED
      BY <1>1, <1>2, <2>1 DEF Aligned
  <1> DEFINE value == BytesAt(memory, Address, 4)
             low   == TwoTo[ByteBits]
             top   == TwoTo[3 * ByteBits]
  <1>4. value \in Word /\ value = Processor!BytesAt(memory, Processor!At, 4)
    <2>1. memory \in [Word -> Byte]
      BY DEF MipsInv, RegistersSound
    <2> QED
      BY <1>2, <2>1, BytesRead, SameWords
  <1>5. CASE instr.op = "LWL"
    <2>1. Completes(registers, instr.rt, value, Following)
      BY <1>5 DEF MergingLoad
    <2> HIDE DEF value
    <2>2. /\ Processor!Executes("LWL") /\ Processor!GoesOn /\ Processor!i = instr
          /\ Processor!Set(instr.rt, value)
      BY <1>1, <1>4, <1>5, <2>1, LoadGives
    <2> QED
      BY <1>3, <1>4, <2>2
         DEF Processor!Uses, Processor!Loading, Processor!Memory, Processor!Next
  <1>6. CASE instr.op = "LWR"
    <2> DEFINE t == Loaded(registers)[instr.rt]
               merged(w) == (w - (w % low)) + value \div top
    <2>1. Completes(registers, instr.rt, merged(Forwarded), Following)
      BY <1>6 DEF MergingLoad, Low
    <2>2. Forwarded \in Word /\ t \in Word /\ (instr.rt # 0 => t = Forwarded)
      <3>1. /\ instr.rt \in Registers /\ LoadReg \in Registers /\ LoadValueReg \in Word
            /\ registers \in [Registers -> Word] /\ 0 \in Registers
        BY <1>1, Fetched, Machine DEF MipsInv, RegistersSound
      <3>2. t \in Word
        BY <3>1, LoadedTyped
      <3> QED
        BY <3>1, <3>2 DEF Forwarded, rtv, Loaded
    <2>3. merged(Forwarded) \in Word /\ merged(t) \in Word
      BY <1>4, <2>2, MergedIs
    <2>4. merged(t) = low * (t \div low) + (value \div top)
      BY <1>4, <2>2, MergedIs
    <2>5. instr.rt # 0 => merged(t) = merged(Forwarded)
      BY <2>2
    <2>6. t = Processor!t
      BY SameInstruction
    <2> HIDE DEF t, merged, value
    <2>7. /\ Processor!Executes("LWR") /\ Processor!GoesOn /\ Processor!i = instr
          /\ Processor!Set(instr.rt, merged(t))
      BY <1>1, <1>6, <2>1, <2>3, <2>5, LoadGives
    <2>8. merged(t) = Processor!TwoTo[ByteBits] * (Processor!t \div Processor!TwoTo[ByteBits])
                      + (Processor!BytesAt(memory, Processor!At, 4) \div Processor!TwoTo[3 * ByteBits])
      BY <1>4, <2>4, <2>6, SameSizes
    <2> QED
      BY <1>3, <2>7, <2>8
         DEF Processor!Uses, Processor!Loading, Processor!Memory, Processor!Next
  <1> QED
    BY <1>1, <1>5, <1>6 DEF Merges

(* The lowest byte of a word, as its highest. *)
LEMMA HighByte ==
    ASSUME NEW w \in Word
    PROVE  ShiftLeft(w, 3 * ByteBits) = TwoTo[3 * ByteBits] * (w % TwoTo[ByteBits])
  <1>1. PICK low \in Nat \ {0}, top \in Nat \ {0} :
            /\ low = TwoTo[ByteBits] /\ top = TwoTo[3 * ByteBits]
            /\ top * low = Modulus
    BY Sizes
  <1>2. PICK q \in Nat, r \in 0..(low - 1) : w = low * q + r /\ r = w % low
    <2>1. w \in Nat
      BY WordIs
    <2>2. w \div low \in Nat /\ w % low \in 0..(low - 1) /\ w = low * (w \div low) + (w % low)
      BY <2>1, NatRemainder
    <2> QED
      BY <2>2
  <1>3. w * top = top * r + Modulus * q
    <2>1. w * top = top * (low * q) + top * r
      <3>1. low * q \in Int /\ low * q + r \in Int
        BY Products
      <3>2. (low * q + r) * top = top * (low * q + r)
        BY <3>1, Products
      <3>3. top * (low * q + r) = top * (low * q) + top * r
        BY <3>1, Products
      <3> QED
        BY <1>2, <3>2, <3>3
    <2>2. top * (low * q) = (top * low) * q
      BY Products
    <2>3. top * r \in Int /\ (top * low) * q \in Int
      BY Products
    <2> QED
      BY <1>1, <2>1, <2>2, <2>3
  <1>4. top * r \in Word
    <2>1. top * r <= top * (low - 1) /\ top * (low - 1) = top * low - top * 1
      <3>1. r <= low - 1 /\ low - 1 \in Int /\ r \in Int
        OBVIOUS
      <3> QED
        BY <3>1, ProductsGrow, Products
    <2>2. top * r \in Nat /\ top * low \in Nat
      BY Products
    <2> QED
      BY <1>1, <2>1, <2>2, WordIs
  <1>5. Wrap(w * top) = top * r
    <2>1. top * r \in Int /\ w * top \in Int /\ q \in Int
      BY <1>4, WordIs, Products
    <2>2. PICK x \in Int, y \in Int : x = w * top /\ y = top * r /\ x = y + Modulus * q
      BY <1>3, <2>1
    <2>3. Wrap(x) = Wrap(y)
      BY <2>2, Congruent
    <2> QED
      BY <1>4, <2>2, <2>3, Wrapped
  <1> QED
    BY <1>1, <1>2, <1>5 DEF ShiftLeft

LEMMA StoreStep ==
    ASSUME MipsInv, Store, ~TouchesPendingLoad
    PROVE  Processor!Next
  <1>1. /\ Is({instr.op}) /\ Aligned(PCReg, 4) /\ instr.op \in Stores /\ UsesMemory
        /\ Aligned(Address, Size) /\ UNCHANGED <<HiReg, LoReg>>
        /\ Completes(registers, 0, 0, Following)
    BY DEF Store, Accesses, Is, UsesMemory
  <1>2. Processor!At = Address /\ Processor!t = rtv /\ rtv \in Word
    BY <1>1, AddressSeen, Fetched
  <1>3. Processor!At % Size = 0 /\ Processor!Executes(instr.op) /\ Processor!GoesOn
        /\ UNCHANGED <<Loaded(registers), HiReg, LoReg>>
    <2>1. UNCHANGED Loaded(registers)
      BY <1>1, NothingWritten DEF Completes
    <2> QED
      BY <1>1, <1>2, <2>1, GoesToIs, SameInstruction DEF Aligned
  <1>4. CASE instr.op \in {"SB", "SH", "SW", "SWL"}
    <2>1. memory' = Processor!Stored(memory, Processor!At, Size, Processor!t)
      BY <1>2, <1>4, SameWords DEF Store
    <2>2. Size = IF instr.op = "SB" THEN 1 ELSE IF instr.op = "SH" THEN 2 ELSE 4
      BY <1>4 DEF Size
    <2>3. CASE instr.op = "SB"
      BY <1>3, <2>1, <2>2, <2>3
         DEF Processor!Uses, Processor!Storing, Processor!Memory, Processor!Next
    <2>4. CASE instr.op = "SH"
      BY <1>3, <2>1, <2>2, <2>4
         DEF Processor!Uses, Processor!Storing, Processor!Memory, Processor!Next
    <2>5. CASE instr.op = "SW"
      BY <1>3, <2>1, <2>2, <2>5
         DEF Processor!Uses, Processor!Storing, Processor!Memory, Processor!Next
    <2>6. CASE instr.op = "SWL"
      BY <1>3, <2>1, <2>2, <2>6
         DEF Processor!Uses, Processor!Storing, Processor!Memory, Processor!Next
    <2> QED
      BY <1>4, <2>3, <2>4, <2>5, <2>6
  <1>5. CASE instr.op = "SWR"
    <2> DEFINE merged == Low(BytesAt(memory, Address, 4), 3 * ByteBits)
                         + ShiftLeft(rtv, 3 * ByteBits)
    <2>1. Size = 4
      BY <1>5 DEF Size
    <2>2. memory' = Stored(memory, Address, 4, merged)
      BY <1>5, <2>1 DEF Store
    <2>3. merged = TwoTo[3 * ByteBits] * (rtv % TwoTo[ByteBits])
                   + (BytesAt(memory, Address, 4) % TwoTo[3 * ByteBits])
      <3>1. PICK x \in Int, y \in Int : x = BytesAt(memory, Address, 4) % TwoTo[3 * ByteBits]
                                        /\ y = ShiftLeft(rtv, 3 * ByteBits)
        <4>1. memory \in [Word -> Byte] /\ Address \in Word
          BY <1>1, Fetched DEF MipsInv, RegistersSound
        <4>2. BytesAt(memory, Address, 4) \in Nat
          BY <4>1, BytesRead, WordIs
        <4>3. TwoTo[3 * ByteBits] \in Nat \ {0} /\ 3 * ByteBits \in Nat
          BY Sizes, ByteBitsAssumption
        <4>4. BytesAt(memory, Address, 4) % TwoTo[3 * ByteBits] \in Int
          BY <4>2, <4>3, NatRemainder
        <4>5. ShiftLeft(rtv, 3 * ByteBits) \in Int
          BY <1>2, <4>3, Shifted, WordIs
        <4> QED
          BY <4>4, <4>5
      <3>2. y = TwoTo[3 * ByteBits] * (rtv % TwoTo[ByteBits])
        BY <1>2, <3>1, HighByte
      <3>3. merged = x + y /\ x + y = y + x
        BY <3>1 DEF Low
      <3> QED
        BY <3>1, <3>2, <3>3
    <2> HIDE DEF merged
    <2>4. memory' = Processor!Stored(memory, Processor!At, 4,
                        Processor!TwoTo[3 * ByteBits] * (Processor!t % Processor!TwoTo[ByteBits])
                        + (Processor!BytesAt(memory, Processor!At, 4) % Processor!TwoTo[3 * ByteBits]))
      BY <1>2, <2>2, <2>3, SameSizes, SameWords
    <2> QED
      BY <1>3, <1>5, <2>1, <2>4
         DEF Processor!Uses, Processor!Storing, Processor!Memory, Processor!Next
  <1> QED
    BY <1>1, <1>4, <1>5 DEF Stores

-----------------------------------------------------------------------------

-----------------------------------------------------------------------------
(* Products and quotients *)

(* Two words as one number. *)
Pair(hi, lo) == Modulus * hi + lo

LEMMA PairBelow ==
    ASSUME NEW x \in Nat, NEW y \in Word, Pair(x, y) < Modulus * Modulus
    PROVE  x \in Word
  <1>1. PICK m \in Nat \ {0} : m = Modulus
    BY WordIs
  <1>2. y \in Nat /\ m * x \in Nat /\ m * m \in Nat
    BY WordIs, Products
  <1>3. ASSUME m <= x PROVE FALSE
    <2>1. m * m <= m * x
      BY <1>3, ProductsGrow
    <2> QED
      BY <1>1, <1>2, <2>1 DEF Pair
  <1> QED
    BY <1>1, <1>3, WordIs

LEMMA PairIs ==
    ASSUME NEW x \in Word, NEW y \in Word
    PROVE  Pair(x, y) \in 0..(Modulus * Modulus - 1)
  <1>1. PICK m \in Nat \ {0} : m = Modulus
    BY WordIs
  <1>2. m * (x + 1) <= m * m /\ m * (x + 1) = m * x + m * 1 /\ m * x \in Nat /\ m * m \in Nat
    <2>1. x \in Nat /\ x + 1 <= m /\ x + 1 \in Int
      BY <1>1, WordIs
    <2> QED
      BY <2>1, ProductsGrow, Products
  <1>3. y \in Nat /\ y < m
    BY <1>1, WordIs
  <1> QED
    BY <1>1, <1>2, <1>3 DEF Pair

(* The sum of two pairs, with the carry. *)
LEMMA PairsAdd ==
    ASSUME NEW x \in Word, NEW y \in Word, NEW u \in Word, NEW v \in Word,
           Pair(x, y) + Pair(u, v) < Modulus * Modulus
    PROVE  LET low == Wrap(y + v)
               high == Wrap(x + Truth(low < v) + u)
           IN  Pair(high, low) = Pair(x, y) + Pair(u, v)
  <1> DEFINE low == Wrap(y + v)
  <1>1. PICK m \in Nat \ {0} : m = Modulus
    BY WordIs
  <1>2. x \in Nat /\ y \in Nat /\ u \in Nat /\ v \in Nat /\ y < m /\ v < m
    BY <1>1, WordIs
  <1>3. low \in Word /\ low = IF y + v < m THEN y + v ELSE y + v - m
    <2>1. PICK n \in Int : n = y + v
      BY <1>2
    <2>2. -Modulus <= n /\ n < 2 * Modulus /\ ~(n < 0)
      BY <1>1, <1>2, <2>1
    <2>3. Wrap(n) \in Word /\ Wrap(n) = IF n < m THEN n ELSE n - m
      BY <1>1, <2>2, NearWrap, Wrapped
    <2>4. low = Wrap(n)
      BY <2>1
    <2> HIDE DEF low
    <2> QED
      BY <1>2, <2>1, <2>3, <2>4
  <1>4. PICK c \in {0, 1} : c = Truth(low < v) /\ y + v = m * c + low
    <2>1. CASE y + v < m
      <3>1. low = y + v
        BY <1>3, <2>1
      <3>2. ~(low < v)
        BY <1>2, <3>1
      <3> QED
        BY <1>2, <3>1, <3>2 DEF Truth
    <2>2. CASE y + v >= m
      <3>1. low = y + v - m
        BY <1>2, <1>3, <2>2
      <3>2. low < v
        BY <1>2, <3>1
      <3> QED
        BY <1>2, <3>1, <3>2 DEF Truth
    <2> QED
      BY <1>2, <2>1, <2>2
  <1> HIDE DEF low
  <1>5. Pair(x + c + u, low) = Pair(x, y) + Pair(u, v)
    <2>1. m * (x + c + u) = m * x + m * c + m * u
      <3>1. m * (x + c + u) = m * (x + c) + m * u /\ m * (x + c) = m * x + m * c
        BY <1>2, Products
      <3> QED
        BY <3>1
    <2>2. m * x \in Int /\ m * c \in Int /\ m * u \in Int /\ low \in Int
      BY <1>2, <1>3, Products, WordIs
    <2>3. PICK p \in Int, q \in Int, r \in Int : p = m * x /\ q = m * c /\ r = m * u
      BY <2>2
    <2>4. Pair(x + c + u, low) = p + q + r + low
      BY <1>1, <2>1, <2>3 DEF Pair
    <2>5. Pair(x, y) = p + y /\ Pair(u, v) = r + v
      BY <1>1, <2>3 DEF Pair
    <2>6. y + v = q + low
      BY <1>4, <2>3
    <2> QED
      BY <1>2, <2>2, <2>4, <2>5, <2>6
  <1>6. x + c + u \in Word
    <2>1. x + c + u \in Nat
      BY <1>2
    <2> QED
      BY <1>3, <1>5, <2>1, PairBelow
  <1> QED
    BY <1>4, <1>5, <1>6, Wrapped DEF low

LEMMA AddedIs ==
    ASSUME NEW m \in MultState, Pair(m.hi, m.lo) + Pair(m.bHi, m.bLo) < Modulus * Modulus
    PROVE  /\ Pair(Added(m).hi, Added(m).lo)
                  = IF m.a % 2 = 1 THEN Pair(m.hi, m.lo) + Pair(m.bHi, m.bLo)
                    ELSE Pair(m.hi, m.lo)
           /\ Added(m).a = m.a /\ Added(m).bHi = m.bHi /\ Added(m).bLo = m.bLo
  <1>1. /\ m.a \in Word /\ m.bLo \in Word /\ m.bHi \in Word /\ m.lo \in Word /\ m.hi \in Word
        /\ m = [a |-> m.a, bLo |-> m.bLo, bHi |-> m.bHi, lo |-> m.lo, hi |-> m.hi]
    BY DEF MultState
  <1>2. CASE m.a % 2 = 1
    <2>1. Added(m) = [m EXCEPT !.lo = Wrap(m.lo + m.bLo),
                               !.hi = Wrap(m.hi + Truth(Wrap(m.lo + m.bLo) < m.bLo) + m.bHi)]
      BY <1>2 DEF Added
    <2> QED
      BY <1>1, <1>2, <2>1, PairsAdd
  <1>3. CASE m.a % 2 # 1
    BY <1>3 DEF Added
  <1> QED
    BY <1>2, <1>3

LEMMA DoubledIs ==
    ASSUME NEW m \in MultState, 2 * Pair(m.bHi, m.bLo) < Modulus * Modulus
    PROVE  /\ Pair(Doubled(m).bHi, Doubled(m).bLo) = 2 * Pair(m.bHi, m.bLo)
           /\ Doubled(m).hi = m.hi /\ Doubled(m).lo = m.lo /\ Doubled(m).a = ShiftRight(m.a, 1)
  <1>1. /\ m.a \in Word /\ m.bLo \in Word /\ m.bHi \in Word /\ m.lo \in Word /\ m.hi \in Word
        /\ m = [a |-> m.a, bLo |-> m.bLo, bHi |-> m.bHi, lo |-> m.lo, hi |-> m.hi]
    BY DEF MultState
  <1>2. PICK x \in Word, y \in Word : x = m.bHi /\ y = m.bLo
    BY <1>1
  <1>3. PICK h \in Nat : /\ Modulus = 2 * h /\ h > 0
                         /\ \A w : Negative(w) <=> w >= h
                         /\ \A w \in Word : w \in Nat /\ w < 2 * h
    BY Halves
  <1>4. TwoTo[1] = 2
    BY Powers
  <1> DEFINE low == ShiftLeft(y, 1)
  <1>5. low \in Word /\ low = IF y >= h THEN 2 * y - 2 * h ELSE 2 * y
    <2>1. y \in Nat /\ y < 2 * h /\ y * 2 = 2 * y
      BY <1>3
    <2>2. 2 * y \in Int /\ -Modulus <= 2 * y /\ 2 * y < 2 * Modulus /\ ~(2 * y < 0)
          /\ (2 * y < Modulus <=> ~(y >= h))
      BY <1>3, <2>1
    <2>3. low = Wrap(2 * y)
      BY <1>4, <2>1 DEF ShiftLeft
    <2> QED
      BY <1>3, <2>2, <2>3, NearWrap, Wrapped
  <1>6. PICK c \in {0, 1} : c = Truth(Negative(y)) /\ 2 * y = 2 * h * c + low
    <2>1. y \in Nat
      BY <1>3
    <2>2. Truth(Negative(y)) = IF y >= h THEN 1 ELSE 0
      BY <1>3 DEF Truth
    <2> QED
      BY <1>5, <2>1, <2>2
  <1> HIDE DEF low
  <1>7. Pair(2 * x + c, low) = 2 * Pair(x, y)
    <2>1. x \in Nat /\ y \in Nat /\ low \in Nat
      BY <1>3, <1>5
    <2>2. PICK M \in Nat : M = Modulus
      BY WordIs
    <2>3. M * (2 * x + c) = 2 * (M * x) + M * c
      <3>1. M * (2 * x + c) = M * (2 * x) + M * c /\ M * (2 * x) = 2 * (M * x)
        BY <2>1, Products
      <3> QED
        BY <3>1
    <2>4. M * x \in Int /\ M * c \in Int
      BY <2>1, Products
    <2>5. M * c + low = 2 * y
      BY <1>3, <1>6, <2>1, <2>2
    <2> QED
      BY <2>1, <2>2, <2>3, <2>4, <2>5 DEF Pair
  <1>8. 2 * x + c \in Word
    <2>1. 2 * x + c \in Nat
      BY <1>3
    <2> QED
      BY <1>2, <1>5, <1>7, <2>1, PairBelow
  <1>9. Wrap(ShiftLeft(x, 1) + c) = 2 * x + c
    <2>1. x * 2 = 2 * x /\ 2 * x \in Word
      BY <1>3, <1>8, WordIs
    <2>2. ShiftLeft(x, 1) = 2 * x
      BY <1>4, <2>1, Wrapped DEF ShiftLeft
    <2> QED
      BY <1>8, <2>2, Wrapped
  <1>10. Doubled(m) = [m EXCEPT !.bHi = Wrap(ShiftLeft(x, 1) + c), !.bLo = low,
                                !.a = ShiftRight(m.a, 1)]
    BY <1>1, <1>2, <1>6 DEF Doubled, low
  <1> QED
    BY <1>1, <1>2, <1>7, <1>9, <1>10

-----------------------------------------------------------------------------

LEMMA SignedTyped == \A w \in Word : Signed(w) \in Int
  <1>1. \A w \in Word : w \in Int /\ w - Modulus \in Int
    BY WordIs
  <1> QED
    BY <1>1 DEF Signed

LEMMA SignedWrapped ==
    ASSUME NEW w \in Word, NEW n \in Int, n = Signed(w) \div 2
    PROVE  /\ Signed(Wrap(n)) = n
           /\ Signed(w) = 2 * n + (w % 2) /\ w % 2 \in {0, 1}
  <1>1. PICK h \in Nat : /\ Modulus = 2 * h /\ h > 0
                         /\ \A x : Signed(x) = IF x >= h THEN x - 2 * h ELSE x
                         /\ \A x \in Word : x \in Nat /\ x < 2 * h
    BY Halves
  <1>2. PICK s \in Int : s = Signed(w) /\ -h <= s /\ s < h
                         /\ (s = w \/ s = w - 2 * h)
    <2>1. w \in Nat /\ w < 2 * h /\ Signed(w) = IF w >= h THEN w - 2 * h ELSE w
      BY <1>1
    <2>2. /\ Signed(w) \in Int /\ -h <= Signed(w) /\ Signed(w) < h
          /\ Signed(w) = w \/ Signed(w) = w - 2 * h
      BY <1>1, <2>1
    <2> QED
      BY <2>2
  <1>3. w \in Nat
    BY <1>1
  <1>4. n = s \div 2 /\ s = 2 * n + (s % 2) /\ s % 2 \in {0, 1}
    BY <1>2
  <1>5. s % 2 = w % 2
    BY <1>2, <1>3
  <1>6. -h <= n /\ n < h
    BY <1>2, <1>4
  <1>7. Wrap(n) = IF n < 0 THEN n + 2 * h ELSE n
    <2>1. -Modulus <= n /\ n < 2 * Modulus /\ n < Modulus
      BY <1>1, <1>6
    <2> QED
      BY <1>1, <2>1, NearWrap
  <1>8. Signed(Wrap(n)) = n
    <2>1. PICK x \in Int : x = Wrap(n) /\ (x = IF n < 0 THEN n + 2 * h ELSE n)
      BY <1>7
    <2>2. Signed(x) = IF x >= h THEN x - 2 * h ELSE x
      BY <1>1
    <2> QED
      BY <1>6, <2>1, <2>2
  <1> QED
    BY <1>2, <1>4, <1>5, <1>8

(* After k rounds: c is the part of a that was multiplied. *)
Going(m, a, b, k) ==
    \E c \in 0..(TwoTo[k] - 1) :
        /\ Signed(a) = TwoTo[k] * Signed(m.a) + c
        /\ Pair(m.bHi, m.bLo) = TwoTo[k] * b
        /\ Pair(m.hi, m.lo) = c * b

Ended(m, a, b) == m.a = 0 /\ Pair(m.hi, m.lo) = a * b

LEMMA LoopStarts ==
    ASSUME NEW a \in Word, NEW b \in Word
    PROVE  MultStart(a, b) \in MultState /\ Going(MultStart(a, b), a, b, 0)
  <1>1. TwoTo[0] = 1 /\ b \in Nat /\ Signed(a) \in Int /\ 0 \in Word /\ Modulus \in Nat
    BY Powers, WordIs, SignedTyped
  <1>2. MultStart(a, b) \in MultState
    BY <1>1 DEF MultStart, MultState
  <1>3. Pair(0, b) = 1 * b /\ Pair(0, 0) = 0 * b
    BY <1>1 DEF Pair
  <1>4. Signed(a) = 1 * Signed(a) + 0
    BY <1>1
  <1>5. 0 \in 0..(TwoTo[0] - 1)
    BY <1>1
  <1> QED
    BY <1>1, <1>2, <1>3, <1>4, <1>5 DEF MultStart, Going

LEMMA LoopGoes ==
    ASSUME NEW a \in Word, NEW b \in Word, NEW k \in 0..(WordBits - 1),
           NEW m \in MultState, Going(m, a, b, k), m.a # 0
    PROVE  Going(Doubled(Added(m)), a, b, k + 1)
  <1>1. PICK M \in Nat \ {0} : M = Modulus
    BY WordIs
  <1>2. PICK pow \in Nat \ {0} : pow = TwoTo[k] /\ 2 * pow = TwoTo[k + 1] /\ 2 * pow <= M
    <2>1. k \in Nat /\ k + 1 \in Nat /\ WordBits \in Nat /\ k + 1 <= WordBits
      BY Sizes
    <2>2. TwoTo[k] \in Nat \ {0} /\ TwoTo[k + 1] = 2 * TwoTo[k] /\ TwoTo[k + 1] <= TwoTo[WordBits]
      BY <2>1, Powers, PowersGrow
    <2> QED
      BY <1>1, <2>2 DEF Modulus
  <1>3. PICK c \in 0..(pow - 1) :
            /\ Signed(a) = pow * Signed(m.a) + c
            /\ Pair(m.bHi, m.bLo) = pow * b
            /\ Pair(m.hi, m.lo) = c * b
    BY <1>2 DEF Going
  <1>4. m.a \in Word /\ b \in Nat /\ b < M
    BY <1>1, WordIs DEF MultState
  <1>5. PICK n \in Int, bit \in {0, 1} :
            /\ n = Signed(m.a) \div 2 /\ bit = m.a % 2
            /\ Signed(m.a) = 2 * n + bit /\ Signed(ShiftRight(m.a, 1)) = n
    <2>1. Signed(m.a) \in Int /\ TwoTo[1] = 2
      <3>1. TwoTo[1] = 2
        BY Powers
      <3> QED
        BY <1>4, <3>1, SignedTyped
    <2>2. PICK n \in Int : n = Signed(m.a) \div 2
      BY <2>1
    <2>3. Signed(Wrap(n)) = n /\ Signed(m.a) = 2 * n + (m.a % 2) /\ m.a % 2 \in {0, 1}
      BY <1>4, <2>2, SignedWrapped
    <2>4. ShiftRight(m.a, 1) = Wrap(n)
      BY <2>1, <2>2 DEF ShiftRight
    <2> QED
      BY <2>2, <2>3, <2>4
  <1>6. PICK x \in Nat, y \in Nat : x = c * b /\ y = pow * b
    BY <1>4, Products
  (* Nothing overflows. *)
  <1>7. x + y < M * M /\ 2 * y < M * M
    <2>1. (c + pow) * b <= M * b /\ (2 * pow) * b <= M * b
      <3>1. c + pow <= M /\ c + pow \in Int /\ 2 * pow \in Int
        BY <1>2
      <3> QED
        BY <1>2, <1>4, <3>1, ProductsGrow
    <2>2. M * b <= M * (M - 1) /\ M * (M - 1) = M * M - M * 1
      <3>1. b <= M - 1 /\ M - 1 \in Int /\ M \in Nat /\ M \in Int /\ b \in Int
        BY <1>4
      <3>2. M * b <= M * (M - 1)
        BY <3>1, ProductsGrow
      <3>3. M * (M - 1) = M * M - M * 1
        BY <3>1, ProductsSplit
      <3> QED
        BY <3>2, <3>3
    <2>3. (c + pow) * b = x + y
      <3>1. (c + pow) * b = c * b + pow * b
        BY <1>4, Products
      <3> QED
        BY <1>6, <3>1
    <2>4. (2 * pow) * b = 2 * y
      <3>1. (2 * pow) * b = 2 * (pow * b)
        BY <1>4, Products
      <3> QED
        BY <1>6, <3>1
    <2>5. M * M \in Nat /\ M * b \in Nat
      BY <1>4, Products
    <2> QED
      BY <2>1, <2>2, <2>3, <2>4, <2>5
  <1>8. PICK p \in MultState : p = Added(m)
    BY RoundTyped
  <1>9. /\ Pair(p.hi, p.lo) = IF bit = 1 THEN x + y ELSE x
        /\ p.a = m.a /\ Pair(p.bHi, p.bLo) = y
    <2>1. Pair(m.hi, m.lo) = x /\ Pair(m.bHi, m.bLo) = y
      BY <1>3, <1>6
    <2>2. Pair(m.hi, m.lo) + Pair(m.bHi, m.bLo) < Modulus * Modulus
      BY <1>1, <1>7, <2>1
    <2> QED
      BY <1>5, <1>8, <2>1, <2>2, AddedIs
  <1>10. PICK r : r = Doubled(p)
    OBVIOUS
  <1>11. /\ Pair(r.hi, r.lo) = Pair(p.hi, p.lo)
         /\ Pair(r.bHi, r.bLo) = 2 * y
         /\ Signed(r.a) = n
    <2>1. 2 * Pair(p.bHi, p.bLo) < Modulus * Modulus
      BY <1>1, <1>7, <1>9
    <2> QED
      BY <1>5, <1>9, <1>10, <2>1, DoubledIs
  <1>12. PICK d \in 0..(2 * pow - 1) : d = IF bit = 1 THEN pow + c ELSE c
    <2>1. (IF bit = 1 THEN pow + c ELSE c) \in 0..(2 * pow - 1)
      OBVIOUS
    <2> QED
      BY <2>1
  <1>13. Signed(a) = (2 * pow) * n + d
    <2>1. Signed(a) = pow * (2 * n + bit) + c
      BY <1>3, <1>5
    <2>2. pow * (2 * n + bit) = pow * (2 * n) + pow * bit /\ pow * (2 * n) = (2 * pow) * n
      <3>1. pow \in Int /\ n \in Int /\ bit \in Int
        OBVIOUS
      <3> QED
        BY <3>1, ProductsSplit
    <2>3. pow * bit = IF bit = 1 THEN pow ELSE 0
      OBVIOUS
    <2>4. (2 * pow) * n \in Int
      BY Products
    <2> QED
      BY <1>12, <2>1, <2>2, <2>3, <2>4
  <1>14. 2 * y = (2 * pow) * b
    <2>1. (2 * pow) * b = 2 * (pow * b)
      BY <1>4, Products
    <2> QED
      BY <1>6, <2>1
  <1>15. Pair(r.hi, r.lo) = d * b
    <2>1. (pow + c) * b = pow * b + c * b
      BY <1>4, Products
    <2> QED
      BY <1>6, <1>9, <1>11, <1>12, <2>1
  <1>16. Doubled(Added(m)) = r
    BY <1>8, <1>10
  <1> QED
    BY <1>2, <1>11, <1>12, <1>13, <1>14, <1>15, <1>16 DEF Going

(* The loop multiplies, for every width of the words. *)
LEMMA LoopMultiplies ==
    ASSUME NEW a \in Word, NEW b \in Word
    PROVE  LET m == MultLoop(a, b)
           IN  m \in MultState /\ Pair(m.hi, m.lo) = a * b
  <1> DEFINE inv == [k \in Nat |-> {m \in MultState : Going(m, a, b, k) \/ Ended(m, a, b)}]
  <1>1. \A k \in Nat : inv[k] = {m \in MultState : Going(m, a, b, k) \/ Ended(m, a, b)}
    OBVIOUS
  <1> HIDE DEF inv
  <1>2. MultStart(a, b) \in inv[0]
    BY <1>1, LoopStarts
  <1>3. a \in Nat /\ b \in Nat /\ Modulus \in Nat \ {0} /\ a < Modulus
    BY WordIs
  <1>4. ASSUME NEW k \in 0..(WordBits - 1), NEW m \in inv[k] PROVE MultNext(m) \in inv[k + 1]
    <2>1. k \in Nat /\ k + 1 \in Nat
      BY Sizes
    <2>2. m \in MultState /\ (Going(m, a, b, k) \/ Ended(m, a, b))
      BY <1>1, <2>1
    <2>3. CASE m.a = 0
      <3>1. MultNext(m) = m
        BY <2>3 DEF MultNext
      <3>2. ASSUME Going(m, a, b, k) PROVE Ended(m, a, b)
        <4>1. PICK pow \in Nat : pow = TwoTo[k]
          BY <2>1, Powers
        <4>2. PICK c \in 0..(pow - 1) : Signed(a) = pow * Signed(m.a) + c /\ Pair(m.hi, m.lo) = c * b
          BY <3>2, <4>1 DEF Going
        <4>3. 0 \in Word
          BY WordIs
        <4>4. Signed(0) = 0
          <5>1. PICK h \in Nat : h > 0 /\ \A x : Signed(x) = IF x >= h THEN x - 2 * h ELSE x
            BY Halves
          <5>2. Signed(0) = IF 0 >= h THEN 0 - 2 * h ELSE 0
            BY <5>1
          <5> QED
            BY <5>1, <5>2
        <4>5. Signed(a) = c
          BY <2>3, <4>2, <4>4
        <4>6. a = c
          BY <1>3, <4>5 DEF Signed
        <4> QED
          BY <2>3, <4>2, <4>6 DEF Ended
      <3> QED
        BY <1>1, <2>1, <2>2, <3>1, <3>2
    <2>4. CASE m.a # 0
      <3>1. MultNext(m) = Doubled(Added(m))
        BY <2>4 DEF MultNext
      <3>2. Going(m, a, b, k)
        BY <2>2, <2>4 DEF Ended
      <3>3. Going(Doubled(Added(m)), a, b, k + 1)
        BY <2>2, <2>4, <3>2, LoopGoes
      <3>4. Doubled(Added(m)) \in MultState
        BY <2>2, RoundTyped
      <3> QED
        BY <1>1, <2>1, <3>1, <3>3, <3>4
    <2> QED
      BY <2>3, <2>4
  <1>5. MultLoop(a, b) \in inv[WordBits]
    BY <1>2, <1>4, LoopKeeps
  <1>6. PICK m : m = MultLoop(a, b)
    OBVIOUS
  <1>7. m \in MultState /\ (Going(m, a, b, WordBits) \/ Ended(m, a, b))
    BY <1>1, <1>5, <1>6, Sizes
  <1>8. ASSUME Going(m, a, b, WordBits) PROVE Pair(m.hi, m.lo) = a * b
    <2>1. PICK M \in Nat \ {0} : M = Modulus
      BY <1>3
    <2>2. PICK c \in 0..(M - 1) : Signed(a) = M * Signed(m.a) + c /\ Pair(m.hi, m.lo) = c * b
      BY <1>8, <2>1 DEF Going, Modulus
    <2>3. Signed(m.a) \in Int
      BY <1>7, SignedIs, Sizes DEF MultState
    <2>4. PICK s \in Int : s = Signed(m.a)
      BY <2>3
    <2>5. (M * s + c) % M = c
      BY OneQuotient
    <2>6. Wrap(Signed(a)) = c
      BY <2>1, <2>2, <2>4, <2>5 DEF Wrap
    <2>7. a = c
      BY <2>6, SignedIs
    <2> QED
      BY <2>2, <2>7
  <1> QED
    BY <1>6, <1>7, <1>8 DEF Ended

-----------------------------------------------------------------------------

LEMMA NegatedIs ==
    ASSUME NEW m \in MultState, Pair(m.hi, m.lo) > 0
    PROVE  Pair(Negated(m).hi, Negated(m).lo) = Modulus * Modulus - Pair(m.hi, m.lo)
  <1>1. PICK M \in Nat \ {0} : M = Modulus /\ \A w \in Word : w \in Nat /\ w < M
    BY WordIs
  <1>2. PICK x \in Nat, y \in Nat : x = m.hi /\ y = m.lo /\ x < M /\ y < M
    BY <1>1 DEF MultState
  <1>3. PICK p \in Nat, q \in Nat : p = M * x /\ q = M * M /\ Pair(m.hi, m.lo) = p + y
    BY <1>1, <1>2, Products DEF Pair
  <1>4. Negated(m) = [m EXCEPT !.lo = Wrap(Not(y) + 1),
                               !.hi = Wrap(Not(x) + Truth(Wrap(Not(y) + 1) = 0))]
    BY <1>2 DEF Negated
  <1>5. m = [a |-> m.a, bLo |-> m.bLo, bHi |-> m.bHi, lo |-> m.lo, hi |-> m.hi]
    BY DEF MultState
  <1>6. Not(y) + 1 = M - y /\ Not(x) = M - 1 - x
    BY <1>1, <1>2 DEF Not
  <1>7. \A n \in 0..(M - 1) : Wrap(n) = n
    BY <1>1, Wrapped, WordIs
  <1>8. Wrap(M) = 0
    <2>1. M \in Int /\ -Modulus <= M /\ M < 2 * Modulus /\ ~(M < 0) /\ ~(M < Modulus)
      BY <1>1
    <2> QED
      BY <1>1, <2>1, NearWrap
  <1>9. CASE y = 0
    <2>1. x > 0
      <3>1. x # 0
        BY <1>2, <1>3, <1>9
      <3> QED
        BY <3>1
    <2>2. Wrap(Not(y) + 1) = 0
      BY <1>6, <1>8, <1>9
    <2>3. Negated(m).lo = 0 /\ Negated(m).hi = Wrap(Not(x) + 1)
      BY <1>4, <1>5, <2>2 DEF Truth
    <2>4. Not(x) + 1 = M - x /\ M - x \in 0..(M - 1)
      BY <1>2, <1>6, <2>1
    <2>5. Negated(m).hi = M - x
      BY <1>7, <2>3, <2>4
    <2>6. M * (M - x) = M * M - M * x
      BY <1>2, Products
    <2> QED
      BY <1>1, <1>3, <1>9, <2>3, <2>5, <2>6 DEF Pair
  <1>10. CASE y > 0
    <2>1. Wrap(Not(y) + 1) = M - y /\ M - y # 0
      <3>1. M - y \in 0..(M - 1) /\ M - y # 0
        BY <1>2, <1>10
      <3> QED
        BY <1>6, <1>7, <3>1
    <2>2. Negated(m).lo = M - y /\ Negated(m).hi = Wrap(Not(x) + 0)
      BY <1>4, <1>5, <2>1 DEF Truth
    <2>3. Not(x) + 0 = M - 1 - x /\ M - 1 - x \in 0..(M - 1)
      BY <1>2, <1>6
    <2>4. Negated(m).hi = M - 1 - x
      BY <1>7, <2>2, <2>3
    <2>5. M * (M - 1 - x) = q - M - p
      <3>1. M - 1 - x = M - (1 + x) /\ 1 + x \in Int
        BY <1>2
      <3>2. M * (M - (1 + x)) = M * M - M * (1 + x) /\ M * (1 + x) = M * 1 + M * x
        BY <1>2, <3>1, Products
      <3> QED
        BY <1>3, <3>1, <3>2
    <2>6. Pair(Negated(m).hi, Negated(m).lo) = (q - M - p) + (M - y)
      BY <1>1, <2>2, <2>4, <2>5 DEF Pair
    <2> QED
      BY <1>1, <1>2, <1>3, <2>6
  <1> QED
    BY <1>2, <1>9, <1>10

LEMMA AbsoluteIs ==
    ASSUME NEW w \in Word
    PROVE  LET v == IF Negative(w) THEN Wrap(-w) ELSE w
           IN  /\ v \in Word /\ (v = 0 <=> w = 0)
               /\ Signed(w) = IF Negative(w) THEN -v ELSE v
  <1>1. PICK h \in Nat : /\ Modulus = 2 * h /\ h > 0
                         /\ \A x : Negative(x) <=> x >= h
                         /\ \A x : Signed(x) = IF x >= h THEN x - 2 * h ELSE x
                         /\ \A x \in Word : x \in Nat /\ x < 2 * h
    BY Halves
  <1>2. w \in Nat /\ w < 2 * h
    BY <1>1
  <1>3. (Negative(w) <=> w >= h) /\ (Signed(w) = IF w >= h THEN w - 2 * h ELSE w)
    BY <1>1
  <1>4. CASE w < h
    BY <1>2, <1>3, <1>4
  <1>5. CASE w >= h
    <2>1. -w \in Int /\ -Modulus <= -w /\ -w < 2 * Modulus /\ -w < 0
      BY <1>1, <1>2, <1>5
    <2>2. Wrap(-w) = -w + 2 * h /\ Wrap(-w) \in Word
      BY <1>1, <2>1, NearWrap, Wrapped
    <2> QED
      BY <1>2, <1>3, <1>5, <2>2
  <1> QED
    BY <1>2, <1>4, <1>5

LEMMA MultIs ==
    ASSUME NEW a \in Word, NEW b \in Word, NEW signed \in BOOLEAN
    PROVE  LET m == Mult(a, b, signed)
               n == IF signed THEN Signed(a) * Signed(b) ELSE a * b
           IN  n \in Int /\ Pair(m.hi, m.lo) = n % (Modulus * Modulus)
  <1>1. PICK Q \in Nat \ {0} : Q = Modulus * Modulus
    <2>1. Modulus * Modulus \in Nat \ {0}
      <3>1. PICK M \in Nat \ {0} : M = Modulus
        BY WordIs
      <3>2. M * M \in Nat /\ M * 1 <= M * M
        BY Products, ProductsGrow
      <3> QED
        BY <3>1, <3>2
    <2> QED
      BY <2>1
  <1> DEFINE absolute(w) == IF signed /\ Negative(w) THEN Wrap(-w) ELSE w
  <1>2. PICK A \in Word, B \in Word : A = absolute(a) /\ B = absolute(b)
    BY WordIs, Wrapped
  <1>3. PICK m \in MultState : m = MultLoop(A, B) /\ Pair(m.hi, m.lo) = A * B
    BY LoopMultiplies
  <1>4. PICK Z \in Nat : Z = A * B /\ Z < Q
    <2>1. m.hi \in Word /\ m.lo \in Word
      BY DEF MultState
    <2>2. A * B \in 0..(Q - 1)
      BY <1>1, <1>3, <2>1, PairIs
    <2> QED
      BY <1>1, <2>2
  <1>5. Z % Q = Z
    <2>1. Z \in 0..(Q - 1)
      BY <1>4
    <2> QED
      BY <2>1, SmallQuotient
  <1>6. CASE ~signed
    <2>1. A = a /\ B = b
      BY <1>2, <1>6
    <2>2. Mult(a, b, signed) = m
      BY <1>2, <1>3, <1>6 DEF Mult
    <2> QED
      BY <1>1, <1>3, <1>4, <1>5, <1>6, <2>1, <2>2
  <1>7. CASE signed
    <2>1. /\ A = IF Negative(a) THEN Wrap(-a) ELSE a
          /\ B = IF Negative(b) THEN Wrap(-b) ELSE b
      BY <1>2, <1>7
    <2>2. /\ (A = 0 <=> a = 0) /\ Signed(a) = IF Negative(a) THEN -A ELSE A
          /\ (B = 0 <=> b = 0) /\ Signed(b) = IF Negative(b) THEN -B ELSE B
      BY <2>1, AbsoluteIs
    <2>3. A \in Nat /\ B \in Nat
      BY WordIs
    <2>4. (-A) * B = -(A * B) /\ A * (-B) = -(A * B) /\ (-A) * (-B) = A * B
      BY <2>3
    <2>5. Mult(a, b, signed) = IF ~SameSign(a, b) /\ a # 0 /\ b # 0 THEN Negated(m) ELSE m
      BY <1>2, <1>3, <1>7 DEF Mult
    <2>6. CASE SameSign(a, b)
      <3>1. Signed(a) * Signed(b) = Z
        BY <1>4, <2>2, <2>4, <2>6 DEF SameSign
      <3>2. Mult(a, b, signed) = m
        BY <2>5, <2>6
      <3>3. Pair(m.hi, m.lo) = Z % (Modulus * Modulus)
        BY <1>1, <1>3, <1>4, <1>5
      <3>4. PICK n : n = Signed(a) * Signed(b)
        OBVIOUS
      <3>5. n \in Int /\ n = Z
        BY <1>4, <3>1, <3>4
      <3>6. Pair(Mult(a, b, signed).hi, Mult(a, b, signed).lo) = n % (Modulus * Modulus)
        BY <3>2, <3>3, <3>5
      <3> QED
        BY <1>7, <3>4, <3>5, <3>6
    <2>7. CASE ~SameSign(a, b) /\ ~(a # 0 /\ b # 0)
      <3>1. Z = 0 /\ Signed(a) * Signed(b) = 0
        <4>1. A = 0 \/ B = 0
          BY <2>2, <2>7
        <4>2. A * B = 0
          BY <2>3, <4>1
        <4>3. Signed(a) * Signed(b) = -(A * B) \/ Signed(a) * Signed(b) = A * B
          BY <2>2, <2>4
        <4> QED
          BY <1>4, <4>2, <4>3
      <3>2. Mult(a, b, signed) = m
        BY <2>5, <2>7
      <3>3. Pair(m.hi, m.lo) = Z % (Modulus * Modulus)
        BY <1>1, <1>3, <1>4, <1>5
      <3>4. PICK n : n = Signed(a) * Signed(b)
        OBVIOUS
      <3>5. n \in Int /\ n = Z
        BY <1>4, <3>1, <3>4
      <3>6. Pair(Mult(a, b, signed).hi, Mult(a, b, signed).lo) = n % (Modulus * Modulus)
        BY <3>2, <3>3, <3>5
      <3> QED
        BY <1>7, <3>4, <3>5, <3>6
    <2>8. CASE ~SameSign(a, b) /\ a # 0 /\ b # 0
      <3>1. Signed(a) * Signed(b) = -Z
        BY <1>4, <2>2, <2>4, <2>8 DEF SameSign
      <3>2. Z > 0
        <4>1. A >= 1 /\ B >= 1
          BY <2>2, <2>3, <2>8
        <4>2. 1 * B <= A * B
          BY <2>3, <4>1, ProductsGrow
        <4> QED
          BY <1>4, <2>3, <4>1, <4>2
      <3>3. Mult(a, b, signed) = Negated(m)
        BY <2>5, <2>8
      <3>4. Pair(Negated(m).hi, Negated(m).lo) = Q - Z
        BY <1>1, <1>3, <1>4, <3>2, NegatedIs
      <3>5. (-Z) % Q = Q - Z
        <4>1. Q - Z \in 0..(Q - 1) /\ -1 \in Int
          BY <1>4, <3>2
        <4>2. (Q * (-1) + (Q - Z)) % Q = Q - Z
          BY <4>1, OneQuotient
        <4>3. Q * (-1) + (Q - Z) = -Z
          OBVIOUS
        <4> QED
          BY <4>2, <4>3
      <3>6. Signed(a) * Signed(b) \in Int
        BY <3>1
      <3> QED
        BY <1>1, <1>7, <3>1, <3>3, <3>4, <3>5, <3>6
    <2> QED
      BY <2>6, <2>7, <2>8
  <1> QED
    BY <1>6, <1>7

(* The two words of a pair. *)
LEMMA PairParts ==
    ASSUME NEW x \in Word, NEW y \in Word
    PROVE  Pair(x, y) \div Modulus = x /\ Pair(x, y) % Modulus = y
  <1>1. PICK M \in Nat \ {0} : M = Modulus
    BY WordIs
  <1>2. x \in Int /\ y \in 0..(M - 1)
    BY <1>1, WordIs
  <1>3. (M * x + y) \div M = x /\ (M * x + y) % M = y
    BY <1>2, OneQuotient
  <1> QED
    BY <1>1, <1>3 DEF Pair

(* The division of C truncates. *)
LEMMA QuotientBetween ==
    ASSUME NEW a \in Int, NEW b \in Int \ {0}, -Modulus <= a, a <= Modulus
    PROVE  LET q == Quotient(a, b)
               r == a - q * b
           IN  /\ q \in (-Modulus)..Modulus /\ r \in (-Modulus)..Modulus
               /\ a = q * b + r /\ r * r < b * b /\ (r = 0 \/ (r > 0 <=> a > 0))
  <1>1. PICK A \in Nat, B \in Nat \ {0} :
            /\ A = Absolute(a) /\ B = Absolute(b)
            /\ a = A \/ a = -A
            /\ b = B \/ b = -B
            /\ (a < 0 => a = -A) /\ (~(a < 0) => a = A) /\ (b < 0 <=> b = -B) /\ A <= Modulus
    <2>1. Absolute(a) \in Nat /\ Absolute(b) \in Nat \ {0}
      BY DEF Absolute
    <2>2. Absolute(a) <= Modulus
      BY WordIs DEF Absolute
    <2> QED
      BY <2>1, <2>2 DEF Absolute
  <1>2. PICK Q \in Nat, R \in 0..(B - 1) : Q = A \div B /\ A = B * Q + R
    <2>1. A \div B \in Nat /\ A % B \in 0..(B - 1) /\ A = B * (A \div B) + (A % B)
      BY NatRemainder
    <2> QED
      BY <2>1
  <1>3. PICK q \in Int : /\ q = Quotient(a, b)
                         /\ q = IF (a < 0) <=> (b < 0) THEN Q ELSE -Q
    BY <1>1, <1>2 DEF Quotient, Absolute
  <1>4. q * b = IF a < 0 THEN -(B * Q) ELSE B * Q
    <2>1. Q * B = B * Q /\ Q * (-B) = -(B * Q) /\ (-Q) * B = -(B * Q) /\ (-Q) * (-B) = B * Q
      OBVIOUS
    <2>2. CASE b < 0
      BY <1>1, <1>3, <2>1, <2>2
    <2>3. CASE ~(b < 0)
      BY <1>1, <1>3, <2>1, <2>3
    <2> QED
      BY <2>2, <2>3
  <1>5. PICK p \in Nat : p = B * Q
    BY Products
  <1>6. PICK r \in Int : r = a - q * b /\ (r = IF a < 0 THEN -R ELSE R)
    <2>1. CASE a < 0
      BY <1>1, <1>2, <1>4, <1>5, <2>1
    <2>2. CASE ~(a < 0)
      BY <1>1, <1>2, <1>4, <1>5, <2>2
    <2> QED
      BY <2>1, <2>2
  <1>7. Q <= A
    <2>1. 1 * Q <= B * Q
      BY ProductsGrow
    <2> QED
      BY <1>2, <1>5, <2>1
  <1>8. PICK M \in Nat : M = Modulus
    BY WordIs
  <1>9. q \in (-Modulus)..Modulus
    BY <1>1, <1>3, <1>7, <1>8
  <1>10. r \in (-Modulus)..Modulus
    BY <1>1, <1>2, <1>5, <1>6, <1>8
  <1>11. r * r < b * b
    <2>1. r * r = R * R /\ b * b = B * B
      BY <1>1, <1>6
    <2>2. R * R <= R * B /\ R * B <= (B - 1) * B /\ (B - 1) * B = B * B - B
      <3>1. R <= B /\ R <= B - 1 /\ B - 1 \in Int
        OBVIOUS
      <3> QED
        BY <3>1, ProductsGrow
    <2>3. R * R \in Nat /\ B * B \in Nat
      BY Products
    <2> QED
      BY <2>1, <2>2, <2>3
  <1>12. a = q * b + r
    <2>1. q * b \in Int
      BY Products
    <2> QED
      BY <1>6, <2>1
  <1>13. r = 0 \/ (r > 0 <=> a > 0)
    <2>1. CASE a < 0
      BY <1>6, <2>1
    <2>2. CASE a = 0
      <3>1. A = 0 /\ A = p + R
        BY <1>1, <1>2, <1>5, <2>2
      <3>2. R = 0
        BY <3>1
      <3> QED
        BY <1>6, <2>2, <3>2
    <2>3. CASE a > 0
      BY <1>6, <2>3
    <2> QED
      BY <2>1, <2>2, <2>3
  <1> QED
    BY <1>3, <1>6, <1>9, <1>10, <1>11, <1>12, <1>13

-----------------------------------------------------------------------------

LEMMA HiLoSeen ==
    ASSUME MipsInv, Is(HiLo), ~TouchesPendingLoad
    PROVE  /\ Processor!s = rsv /\ Processor!t = rtv /\ rsv \in Word /\ rtv \in Word
           /\ Is({instr.op}) /\ Processor!Executes(instr.op) /\ Aligned(PCReg, 4)
           /\ instr.op \in HiLo
  <1>1. Aligned(PCReg, 4) /\ instr.op \in HiLo /\ Is({instr.op})
    BY DEF Is
  <1>2. instr.op \notin Arithmetic \cup Loads \cup Merges
                         \cup {"BGEZAL", "BLTZAL", "JAL", "JALR", "SYSCALL"}
    BY <1>1 DEF HiLo, Arithmetic, Immediates, Shifts, Sums, LogicAndMoves, Differences,
                Loads, Merges
  <1>3. Touched = {instr.rs, instr.rt}
    BY <1>2 DEF Touched
  <1> QED
    BY <1>1, <1>3, OperandsSeen, Fetched, SameInstruction

LEMMA ProductIs ==
    ASSUME NEW n \in Int, NEW x \in Word, NEW y \in Word,
           Pair(x, y) = n % (Modulus * Modulus), HiReg' = x, LoReg' = y
    PROVE  Processor!Product(n)
  <1>1. Pair(x, y) \div Modulus = x /\ Pair(x, y) % Modulus = y
    BY PairParts
  <1> QED
    BY <1>1, SameSizes DEF Processor!Product

LEMMA DivisionIs ==
    ASSUME NEW a \in Int, NEW b \in Int, -Modulus <= a, a <= Modulus, Divide(a, b)
    PROVE  Processor!Division(a, b)
  <1>1. CASE b = 0
    <2>1. 0 \in (-Modulus)..Modulus
      BY WordIs
    <2>2. Wrap(0) = 0
      BY WordIs, Wrapped
    <2>3. LoReg' = Wrap(0) /\ HiReg' = Wrap(0)
      BY <1>1, <2>2 DEF Divide
    <2> QED
      BY <1>1, <2>1, <2>3, SameSizes, SameWords DEF Processor!Division
  <1>2. CASE b # 0
    <2>1. PICK q \in (-Modulus)..Modulus, r \in (-Modulus)..Modulus :
              /\ q = Quotient(a, b) /\ r = a - q * b
              /\ a = q * b + r /\ r * r < b * b /\ (r = 0 \/ (r > 0 <=> a > 0))
      BY <1>2, QuotientBetween
    <2>2. LoReg' = Wrap(q) /\ HiReg' = Wrap(r)
      BY <1>2, <2>1 DEF Divide
    <2> QED
      BY <1>2, <2>1, <2>2, SameSizes, SameWords DEF Processor!Division
  <1> QED
    BY <1>1, <1>2

LEMMA DivisionTrapsStep ==
    ASSUME MipsInv, DivisionTraps, ~TouchesPendingLoad
    PROVE  Processor!Next
  <1>1. Is(HiLo) /\ instr.op = "DIV" /\ Signed(rtv) = -1 /\ rsv = Modulus \div 2
    BY DEF DivisionTraps, Is, HiLo
  <1>2. Processor!Stops
    BY StopsIs DEF DivisionTraps
  <1>3. ~Processor!Fits(-Signed(rsv))
    <2>1. PICK h \in Nat : /\ Modulus \div 2 = h /\ h > 0
                           /\ \A w : Signed(w) = IF w >= h THEN w - 2 * h ELSE w
                           /\ \A n : Processor!Fits(n) <=> -h <= n /\ n < h
      BY Halves
    <2>2. Signed(rsv) = -h
      BY <1>1, <2>1
    <2> QED
      BY <2>1, <2>2
  <1>4. Processor!s = rsv /\ Processor!t = rtv /\ Processor!Executes("DIV")
    BY <1>1, HiLoSeen
  <1> QED
    BY <1>1, <1>2, <1>3, <1>4, SameWords DEF Processor!HiAndLo, Processor!Next

LEMMA MultiplyOrDivideStep ==
    ASSUME MipsInv, MultiplyOrDivide, ~TouchesPendingLoad
    PROVE  Processor!Next
  <1>1. Is(HiLo) /\ UNCHANGED memory /\ Completes(registers, 0, 0, Following)
    BY DEF MultiplyOrDivide
  <1>2. /\ Processor!s = rsv /\ Processor!t = rtv /\ rsv \in Word /\ rtv \in Word
        /\ Processor!Executes(instr.op) /\ instr.op \in HiLo
    BY <1>1, HiLoSeen
  <1>3. Processor!GoesOn /\ UNCHANGED <<Loaded(registers), memory>>
    BY <1>1, GoesToIs, NothingWritten DEF Completes
  <1>4. ASSUME NEW signed \in BOOLEAN,
               LET m == Mult(rsv, rtv, signed) IN HiReg' = m.hi /\ LoReg' = m.lo
        PROVE  Processor!Product(IF signed THEN Signed(rsv) * Signed(rtv) ELSE rsv * rtv)
    <2>1. PICK x \in Word, y \in Word :
              x = Mult(rsv, rtv, signed).hi /\ y = Mult(rsv, rtv, signed).lo
      BY <1>2, MultTyped
    <2>2. PICK n \in Int : /\ n = IF signed THEN Signed(rsv) * Signed(rtv) ELSE rsv * rtv
                           /\ Pair(x, y) = n % (Modulus * Modulus)
      BY <1>2, <2>1, MultIs
    <2> QED
      BY <1>4, <2>1, <2>2, ProductIs
  <1>5. CASE instr.op = "MULT"
    <2>1. LET m == Mult(rsv, rtv, TRUE) IN HiReg' = m.hi /\ LoReg' = m.lo
      BY <1>5 DEF MultiplyOrDivide
    <2>2. Processor!Product(Signed(rsv) * Signed(rtv))
      BY <1>4, <2>1
    <2> QED
      BY <1>2, <1>3, <1>5, <2>2, SameWords DEF Processor!HiAndLo, Processor!Next
  <1>6. CASE instr.op = "MULTU"
    <2>1. LET m == Mult(rsv, rtv, FALSE) IN HiReg' = m.hi /\ LoReg' = m.lo
      BY <1>6 DEF MultiplyOrDivide
    <2>2. Processor!Product(rsv * rtv)
      BY <1>4, <2>1
    <2> QED
      BY <1>2, <1>3, <1>6, <2>2 DEF Processor!HiAndLo, Processor!Next
  <1>7. CASE instr.op = "DIV"
    <2>1. ~(Signed(rtv) = -1 /\ rsv = Modulus \div 2) /\ Divide(Signed(rsv), Signed(rtv))
      BY <1>7 DEF MultiplyOrDivide
    <2>2. PICK h \in Nat : /\ Modulus = 2 * h /\ Modulus \div 2 = h /\ h > 0
                           /\ \A w : Signed(w) = IF w >= h THEN w - 2 * h ELSE w
                           /\ \A n : Processor!Fits(n) <=> -h <= n /\ n < h
                           /\ \A w \in Word : w \in Nat /\ w < 2 * h
      BY Halves
    <2>3. PICK a \in Int, b \in Int :
              a = Signed(rsv) /\ b = Signed(rtv) /\ -h <= a /\ a < h /\ (a = -h => rsv = h)
      <3>1. rsv \in Nat /\ rsv < 2 * h /\ (Signed(rsv) = IF rsv >= h THEN rsv - 2 * h ELSE rsv)
        BY <1>2, <2>2
      <3>2. Signed(rsv) \in Int /\ Signed(rtv) \in Int
        BY <1>2, SignedTyped
      <3>3. -h <= Signed(rsv) /\ Signed(rsv) < h /\ (Signed(rsv) = -h => rsv = h)
        BY <2>2, <3>1
      <3> QED
        BY <3>2, <3>3
    <2>4. Processor!Fits(-a) \/ b # -1
      BY <2>1, <2>2, <2>3
    <2>5. Processor!Division(a, b)
      <3>1. -Modulus <= a /\ a <= Modulus /\ Divide(a, b)
        BY <2>1, <2>2, <2>3
      <3> QED
        BY <3>1, DivisionIs
    <2>6. Processor!Signed(Processor!s) = a /\ Processor!Signed(Processor!t) = b
      BY <1>2, <2>3, SameWords
    <2> QED
      BY <1>2, <1>3, <1>7, <2>4, <2>5, <2>6 DEF Processor!HiAndLo, Processor!Next
  <1>8. CASE instr.op = "DIVU"
    <2>1. Divide(rsv, rtv)
      BY <1>8 DEF MultiplyOrDivide
    <2>2. rsv \in Int /\ rtv \in Int /\ -Modulus <= rsv /\ rsv <= Modulus
      BY <1>2, WordIs
    <2>3. Processor!Division(rsv, rtv)
      BY <2>1, <2>2, DivisionIs
    <2> QED
      BY <1>2, <1>3, <1>8, <2>3 DEF Processor!HiAndLo, Processor!Next
  <1>9. CASE instr.op = "MTHI"
    <2>1. HiReg' = rsv /\ UNCHANGED LoReg
      BY <1>9 DEF MultiplyOrDivide
    <2> QED
      BY <1>2, <1>3, <1>9, <2>1 DEF Processor!HiAndLo, Processor!Next
  <1>10. CASE instr.op = "MTLO"
    <2>1. LoReg' = rsv /\ UNCHANGED HiReg
      BY <1>10 DEF MultiplyOrDivide
    <2> QED
      BY <1>2, <1>3, <1>10, <2>1 DEF Processor!HiAndLo, Processor!Next
  <1> QED
    BY <1>2, <1>5, <1>6, <1>7, <1>8, <1>9, <1>10 DEF HiLo

-----------------------------------------------------------------------------
(* The refinement *)

(* What the simulator computes otherwise: OR takes its first operand twice,  *)
(* and the logical shifts to the right keep the sign (Mips, Value).          *)
Different == {"OR", "SRL", "SRLV"}

AsIntended(c) == \A a \in DOMAIN c : c[a].op \notin Different

LEMMA InitImplements == MipsInit => Processor!Init
  <1> SUFFICES ASSUME MipsInit PROVE Processor!Init
    OBVIOUS
  <1>1. MipsInv
    BY InitTyped
  <1>2. Loaded(registers) = registers
    <2>1. LoadReg = 0 /\ LoadValueReg = 0 /\ registers \in [Registers -> Word] /\ registers[0] = 0
      BY <1>1 DEF MipsInit, MipsInv, RegistersSound
    <2> QED
      BY <2>1 DEF Loaded
  <1> QED
    BY <1>2 DEF MipsInit, Processor!Init

LEMMA NextImplements ==
    ASSUME MipsInv, AsIntended(code), MipsNext
    PROVE  TouchesPendingLoad \/ Processor!Next \/ UNCHANGED Processor!vars
  <1> SUFFICES ASSUME ~TouchesPendingLoad
               PROVE  Processor!Next \/ UNCHANGED Processor!vars
    OBVIOUS
  <1>1. CASE PageFault
    BY <1>1, PageFaultStep
  <1>2. CASE AddressError
    BY <1>2, AddressErrorStep
  <1>3. CASE Illegal
    BY <1>3, IllegalStep
  <1>4. CASE Syscall
    BY <1>4, SyscallStep
  <1>5. CASE Overflow
    BY <1>5, OverflowStep
  <1>6. CASE Compute
    <2>1. PCReg \in DOMAIN code
      BY <1>6 DEF MipsInv, RegistersSound, Code, Compute, Is, Aligned
    <2>2. instr.op \notin {"OR", "SRL", "SRLV"}
      BY <2>1 DEF AsIntended, Different, instr
    <2> QED
      BY <1>6, <2>2, ComputeStep
  <1>7. CASE DivisionTraps
    BY <1>7, DivisionTrapsStep
  <1>8. CASE MultiplyOrDivide
    BY <1>8, MultiplyOrDivideStep
  <1>9. CASE Branch
    BY <1>9, BranchStep
  <1>10. CASE Jump
    BY <1>10, JumpStep
  <1>11. CASE JumpRegister
    BY <1>11, JumpRegisterStep
  <1>12. CASE Load
    BY <1>12, LoadStep
  <1>13. CASE MergingLoad
    BY <1>13, MergingLoadStep
  <1>14. CASE Store
    BY <1>14, StoreStep
  <1> QED
    BY <1>1, <1>2, <1>3, <1>4, <1>5, <1>6, <1>7, <1>8, <1>9, <1>10, <1>11, <1>12, <1>13, <1>14
       DEF MipsNext

LEMMA Stutters == UNCHANGED mipsVars => UNCHANGED Processor!vars
  BY DEF mipsVars, Processor!vars, Loaded

LEMMA CodeStays == AsIntended(code) /\ [MipsNext]_mipsVars => AsIntended(code)'
  <1> SUFFICES ASSUME [MipsNext]_mipsVars PROVE code' = code
    BY DEF AsIntended
  <1> QED
    BY DEF MipsNext, mipsVars, PageFault, AddressError, Halts, Illegal, Syscall, Overflow,
           Compute, DivisionTraps, MultiplyOrDivide, Branch, Jump, JumpRegister, Load,
           MergingLoad, Store, Completes

(* Machine::OneInstruction implements the Processor, for words of any width  *)
(* and every program without the instructions it computes otherwise: as long *)
(* as an instruction does not use the register that the load before it loads,*)
(* it does in one step what the Processor does in one, its products bit by   *)
(* bit and its delayed loads included, and a page fault does nothing.        *)
THEOREM DoesWhatTheProcessorDoes ==
    ASSUME \A s \in Starts : \A c \in s.code : AsIntended(c)
    PROVE  MipsSpec => ImplementsProcessor
  <1>1. MipsInit => Processor!Init /\ AsIntended(code)
    BY InitImplements DEF MipsInit
  <1>2. MipsInv /\ AsIntended(code) /\ [MipsNext]_mipsVars
            => [TouchesPendingLoad \/ Processor!Next]_<<Processor!vars>>
    BY NextImplements, Stutters
  <1>3. MipsSpec => []AsIntended(code)
    BY <1>1, CodeStays, PTL DEF MipsSpec
  <1> QED
    BY <1>1, <1>2, <1>3, MipsInvHolds, PTL DEF MipsSpec, ImplementsProcessor

-----------------------------------------------------------------------------
(* The devices *)

USE DevicesAssumption

Semaphores == {"disk", "readAvail", "writeDone"}
Modes      == {"Running", "Tick", "Sleep", "Switched", "Idle", "StillIdle", "Halted"}
Types      == {"Timer", "Disk", "ConsoleRead", "ConsoleWrite"}
Event      == [type : Types, when : Int]
Clock      == [now : 0..(Revolution - 1), bufferAge : Int, pending : Seq(Event)]
DiskSteps  == {"Idle", "Request", "Release", "Finished"}
EchoSteps  == {"Idle", "Echo", "Return", "Finished"}

(* The types of the variables. *)
Shape ==
    /\ clock \in Clock
    /\ mode \in Modes
    /\ yieldOnReturn \in BOOLEAN
    /\ currentThread \in Threads /\ readyList \in Seq(Threads)
    /\ pc \in [Threads -> DiskSteps \cup EchoSteps]
    /\ \A t \in DiskThreads : pc[t] \in DiskSteps
    /\ \A t \in EchoThreads : pc[t] \in EchoSteps
    /\ asleep \in [Threads -> Semaphores \cup {"lock", None}]
    /\ semaphore \in [Semaphores -> [value : {0, 1}, queue : Seq(Threads)]]
    /\ lock \in [owner : DiskThreads \cup {None}, queue : Seq(DiskThreads)]
    /\ disk \in [active : BOOLEAN, lastSector : RequestSectors \cup {0},
                 store : [RequestSectors -> Values]]
    /\ call \in [Threads -> Calls \cup {None}]
    /\ \A t \in Threads : call[t] # None <=> pc[t] \in {"Request", "Release"}
    /\ console \in [putBusy : BOOLEAN, incoming : Keys \cup {None}]

(* The processor is with currentThread, and not on its way to another. *)
Awake == mode \in {"Running", "Tick", "Switched"}

(* t runs or will be run. *)
Able(t) == Queued(readyList, t) \/ (Awake /\ t = currentThread)

(* A thread is ready or running, or has finished, or sleeps in one queue. *)
ThreadsSound ==
    /\ Distinct(readyList)
    /\ Awake => ~Queued(readyList, currentThread)
    /\ mode \in {"Idle", "Halted"} => readyList = << >>
    /\ mode \in {"Running", "Tick"} => asleep[currentThread] = None
    /\ \A t \in Threads : pc[t] = "Finished" => asleep[t] = None
    /\ \A t \in Threads : asleep[t] = None => (Able(t) <=> pc[t] # "Finished")

(* The lock of the SynchDisk: the owner is in a call, whoever else is in one *)
(* is in the queue.                                                          *)
LockSound ==
    /\ Distinct(lock.queue)
    /\ lock.owner = None => lock.queue = << >>
    /\ ~Queued(lock.queue, lock.owner)
    /\ \A t \in DiskThreads :
          /\ pc[t] \in {"Request", "Release"} <=> t = lock.owner \/ Queued(lock.queue, t)
          /\ Queued(lock.queue, t) => pc[t] = "Request" /\ asleep[t] = "lock" /\ ~Able(t)
    /\ \A t \in Threads : asleep[t] = "lock" =>
          /\ t \in DiskThreads
          /\ Queued(lock.queue, t) \/ (t = lock.owner /\ pc[t] = "Request" /\ Able(t))

(* Exactly one interrupt of the type is to come, and none. *)
One(q, type)   == \E i \in 1..Len(q) : \A j \in 1..Len(q) : q[j].type = type <=> j = i
Lacks(q, type) == \A j \in 1..Len(q) : q[j].type # type

(* The disk is active while its owner waits for it; then its V is for the    *)
(* owner, which is woken but has not run.                                    *)
DiskSound ==
    LET s == semaphore["disk"]
        o == lock.owner
    IN  /\ \A t \in Threads : asleep[t] = "disk" =>
              t = o /\ pc[t] = "Release" /\ (disk.active \/ s.value = 1)
        /\ disk.active =>
              /\ One(clock.pending, "Disk")
              /\ o # None /\ asleep[o] = "disk" /\ ~Able(o)
              /\ s.value = 0 /\ s.queue = <<o>>
        /\ ~disk.active =>
              /\ Lacks(clock.pending, "Disk")
              /\ s.queue = << >>
              /\ s.value = 1 => o # None /\ asleep[o] = "disk" /\ Able(o)

(* The keyboard: a character that is there has been announced to the thread *)
(* that echoes, or it is about to fetch it.                                 *)
KeyboardSound ==
    LET s == semaphore["readAvail"] IN
    /\ CharactersKept
    /\ s.value = 1 => s.queue = << >> /\ console.incoming # None
    /\ s.queue # << >> =>
          \E t \in EchoThreads : s.queue = <<t>> /\ asleep[t] = "readAvail"
    /\ \A t \in Threads : asleep[t] = "readAvail" =>
          /\ t \in EchoThreads /\ pc[t] = "Echo"
          /\ \/ s.queue = <<t>> /\ ~Able(t)
             \/ s.value = 1 /\ Able(t)
    /\ \A t \in EchoThreads :
          /\ pc[t] = "Echo" /\ asleep[t] = None => console.incoming # None /\ s.value = 0
          /\ pc[t] # "Finished" => ~Lacks(clock.pending, "ConsoleRead")

(* The display is busy while the thread that echoes waits for it. *)
DisplaySound ==
    LET s == semaphore["writeDone"] IN
    /\ IF console.putBusy THEN One(clock.pending, "ConsoleWrite")
       ELSE Lacks(clock.pending, "ConsoleWrite")
    /\ s.value = 1 => \E t \in EchoThreads : asleep[t] = "writeDone"
    /\ console.putBusy <=> s.queue # << >>
    /\ s.queue # << >> =>
          \E t \in EchoThreads : s.queue = <<t>> /\ asleep[t] = "writeDone" /\ s.value = 0
    /\ \A t \in Threads : asleep[t] = "writeDone" =>
          /\ t \in EchoThreads /\ pc[t] \in {"Idle", "Return"}
          /\ \/ s.queue = <<t>> /\ ~Able(t)
             \/ s.value = 1 /\ s.queue = << >> /\ Able(t)

Parts == LockSound /\ DiskSound /\ KeyboardSound /\ DisplaySound

(* The inductive invariant.  Only the times of a request stay out of it: see *)
(* Timed below, which is inductive on top of it.                             *)
Sound == Shape /\ ThreadsSound /\ Parts /\ HaltsAtTheEnd

-----------------------------------------------------------------------------
(* Lemmas: the list of pending interrupts and the clock *)

LEMMA MinInSet ==
    ASSUME NEW S \in SUBSET Nat, S # {}
    PROVE  Min(S) \in S /\ \A y \in S : Min(S) <= y
  <1>1. \E x \in S : \A y \in S : x <= y
    BY SmallestMember
  <1> QED
    BY <1>1 DEF Min

LEMMA MinOfTwo ==
    ASSUME NEW a \in Int, NEW b \in Int
    PROVE  Min({a, b}) \in Int
  <1>1. \E x \in {a, b} : \A y \in {a, b} : x =< y
    OBVIOUS
  <1> QED
    BY <1>1 DEF Min

LEMMA InsertIs ==
    ASSUME NEW q \in Seq(Event), NEW e \in Event
    PROVE  LET r == SortedInsert(q, e)
           IN  /\ r \in Seq(Event)
               /\ Len(r) = Len(q) + 1
               /\ \E at \in 1..(Len(q) + 1) : \A i \in 1..(Len(q) + 1) :
                     r[i] = IF i < at THEN q[i] ELSE IF i = at THEN e ELSE q[i - 1]
  <1> DEFINE n  == Len(q)
             S  == {k \in 1..(n + 1) : k <= n => e.when < q[k].when}
             at == Min(S)
             a  == SubSeq(q, 1, at - 1)
             b  == SubSeq(q, at, n)
  <1>1. n \in Nat /\ n + 1 \in S /\ S \in SUBSET Nat
    OBVIOUS
  <1>2. at \in 1..(n + 1)
    BY <1>1, MinInSet
  <1>3. SortedInsert(q, e) = a \o <<e>> \o b
    BY DEF SortedInsert
  <1> HIDE DEF at
  <1>4. a \in Seq(Event) /\ Len(a) = at - 1 /\ \A i \in 1..(at - 1) : a[i] = q[i]
    BY <1>1, <1>2
  <1>5. b \in Seq(Event) /\ Len(b) = n - at + 1 /\ \A i \in 1..(n - at + 1) : b[i] = q[at + i - 1]
    BY <1>1, <1>2
  <1> HIDE DEF a, b
  <1>6. /\ a \o <<e>> \in Seq(Event) /\ Len(a \o <<e>>) = at
        /\ \A i \in 1..at : (a \o <<e>>)[i] = IF i < at THEN q[i] ELSE e
    BY <1>2, <1>4
  <1> DEFINE c == a \o <<e>>
  <1> HIDE DEF c, n
  <1>7. /\ c \o b \in Seq(Event) /\ Len(c \o b) = n + 1
        /\ \A i \in 1..(n + 1) : (c \o b)[i] = IF i <= at THEN c[i] ELSE b[i - at]
    <2>1. c \in Seq(Event) /\ Len(c) = at /\ n \in Nat /\ at \in Int
      BY <1>1, <1>2, <1>6 DEF c
    <2>2. c \o b \in Seq(Event) /\ Len(c \o b) = n + 1
      BY <1>5, <2>1
    <2>3. \A i \in 1..(Len(c) + Len(b)) : (c \o b)[i] = IF i <= Len(c) THEN c[i] ELSE b[i - Len(c)]
      BY <1>5, <2>1
    <2> QED
      BY <1>5, <2>1, <2>2, <2>3
  <1>8. ASSUME NEW i \in 1..(n + 1)
        PROVE  (c \o b)[i] = IF i < at THEN q[i] ELSE IF i = at THEN e ELSE q[i - 1]
    <2>1. CASE i <= at
      BY <1>2, <1>6, <1>7, <2>1 DEF c
    <2>2. CASE i > at
      <3>1. i - at \in 1..(n - at + 1) /\ at + (i - at) - 1 = i - 1
        BY <1>1, <1>2, <2>2
      <3>2. b[i - at] = q[i - 1]
        BY <1>5, <3>1
      <3> QED
        BY <1>1, <1>2, <1>7, <2>2, <3>2
    <2>3. i <= at \/ i > at
      BY <1>2, <1>1
    <2> QED
      BY <2>1, <2>2, <2>3
  <1> QED
    BY <1>2, <1>3, <1>7, <1>8 DEF c, n

(* An element more: who else is there stays. *)
LEMMA InsertKeeps ==
    ASSUME NEW q \in Seq(Event), NEW e \in Event
    PROVE  LET r == SortedInsert(q, e)
           IN  /\ r \in Seq(Event)
               /\ \A ty : ty # e.type => /\ One(q, ty) => One(r, ty)
                                         /\ Lacks(q, ty) => Lacks(r, ty)
                                         /\ ~Lacks(q, ty) => ~Lacks(r, ty)
               /\ Lacks(q, e.type) => One(r, e.type)
               /\ ~Lacks(r, e.type)
               /\ \A i \in 1..Len(r) : r[i] = e \/ \E j \in 1..Len(q) : r[i] = q[j]
  <1> DEFINE r == SortedInsert(q, e)
             n == Len(q)
  <1>1. PICK at \in 1..(n + 1) : \A i \in 1..(n + 1) :
            r[i] = IF i < at THEN q[i] ELSE IF i = at THEN e ELSE q[i - 1]
    BY InsertIs
  <1>2. r \in Seq(Event) /\ Len(r) = n + 1 /\ n \in Nat
    BY InsertIs
  <1> HIDE DEF r
  <1> DEFINE new(i) == IF i < at THEN i ELSE i + 1
  <1>3. \A i \in 1..n : new(i) \in 1..(n + 1) /\ new(i) # at /\ r[new(i)] = q[i]
    <2> TAKE i \in 1..n
    <2>1. CASE i < at
      BY <1>1, <1>2, <2>1
    <2>2. CASE i >= at
      <3>1. i + 1 \in 1..(n + 1) /\ i + 1 > at /\ (i + 1) - 1 = i
        BY <1>2, <2>2
      <3>2. new(i) = i + 1 /\ r[i + 1] = q[i]
        BY <1>1, <2>2, <3>1
      <3> QED
        BY <3>1, <3>2
    <2> QED
      BY <1>2, <2>1, <2>2
  <1>4. \A j \in 1..(n + 1) : j # at => \E i \in 1..n : j = new(i) /\ r[j] = q[i]
    <2> TAKE j \in 1..(n + 1)
    <2>1. CASE j < at
      BY <1>1, <1>2, <2>1
    <2>2. CASE j > at
      <3>1. j - 1 \in 1..n /\ j = new(j - 1) /\ r[j] = q[j - 1]
        BY <1>1, <1>2, <2>2
      <3> QED
        BY <3>1
    <2> QED
      BY <1>2, <2>1, <2>2
  <1>5. r[at] = e
    BY <1>1, <1>2
  <1>6. \A i, j \in 1..n : new(i) = new(j) => i = j
    BY <1>2
  <1>7. \A i \in 1..(n + 1) : r[i] = e \/ \E j \in 1..n : r[i] = q[j]
    BY <1>4, <1>5
  <1> HIDE DEF new
  <1>8. ASSUME NEW ty, ty # e.type
        PROVE  /\ Lacks(q, ty) => Lacks(r, ty)
               /\ ~Lacks(q, ty) => ~Lacks(r, ty)
    <2>1. Lacks(q, ty) => Lacks(r, ty)
      BY <1>2, <1>7, <1>8 DEF Lacks
    <2>2. ASSUME NEW j \in 1..n, q[j].type = ty PROVE ~Lacks(r, ty)
      BY <1>2, <1>3, <2>2 DEF Lacks
    <2> QED
      BY <2>1, <2>2 DEF Lacks
  <1>9. ASSUME NEW ty, ty # e.type, One(q, ty)
        PROVE  One(r, ty)
    <2>1. PICK i \in 1..n : \A j \in 1..n : q[j].type = ty <=> j = i
      BY <1>9 DEF One
    <2>2. \A j \in 1..(n + 1) : r[j].type = ty <=> j = new(i)
      BY <1>3, <1>4, <1>5, <1>6, <1>9, <2>1
    <2>3. \E k \in 1..(n + 1) : \A j \in 1..(n + 1) : r[j].type = ty <=> j = k
      BY <1>3, <2>2
    <2> QED
      BY <1>2, <2>3 DEF One
  <1>10. Lacks(q, e.type) => One(r, e.type)
    <2>1. Lacks(q, e.type) => \A j \in 1..(n + 1) : r[j].type = e.type <=> j = at
      BY <1>4, <1>5 DEF Lacks
    <2> QED
      BY <1>2, <2>1 DEF One
  <1>11. ~Lacks(r, e.type)
    BY <1>2, <1>5 DEF Lacks
  <1> QED
    BY <1>2, <1>7, <1>8, <1>9, <1>10, <1>11 DEF r

LEMMA TailKeeps ==
    ASSUME NEW q \in Seq(Event), q # << >>
    PROVE  /\ Tail(q) \in Seq(Event) /\ Head(q) \in Event /\ Head(q) = q[1] /\ 1 \in 1..Len(q)
           /\ \A i \in 1..Len(Tail(q)) : i + 1 \in 1..Len(q) /\ Tail(q)[i] = q[i + 1]
           /\ \A ty : ty # Head(q).type => /\ One(q, ty) => One(Tail(q), ty)
                                           /\ Lacks(q, ty) => Lacks(Tail(q), ty)
                                           /\ ~Lacks(q, ty) => ~Lacks(Tail(q), ty)
           /\ One(q, Head(q).type) => Lacks(Tail(q), Head(q).type)
           /\ ~Lacks(q, Head(q).type)
  <1> DEFINE r == Tail(q)
             n == Len(q)
  <1>1. /\ r \in Seq(Event) /\ Len(r) = n - 1 /\ n \in Nat \ {0} /\ Head(q) \in Event
        /\ Head(q) = q[1]
        /\ \A i \in 1..(n - 1) : r[i] = q[i + 1]
    OBVIOUS
  <1> HIDE DEF r
  <1>2. \A j \in 1..n : j = 1 \/ (j - 1 \in 1..(n - 1) /\ q[j] = r[j - 1])
    BY <1>1
  <1>3. ASSUME NEW ty, ty # Head(q).type
        PROVE  /\ Lacks(q, ty) => Lacks(r, ty)
               /\ ~Lacks(q, ty) => ~Lacks(r, ty)
    <2>1. Lacks(q, ty) => Lacks(r, ty)
      BY <1>1 DEF Lacks
    <2>2. ~Lacks(q, ty) => ~Lacks(r, ty)
      BY <1>1, <1>2, <1>3 DEF Lacks
    <2> QED
      BY <2>1, <2>2
  <1>4. ASSUME NEW ty, ty # Head(q).type, One(q, ty)
        PROVE  One(r, ty)
    <2>1. PICK i \in 1..n : \A j \in 1..n : q[j].type = ty <=> j = i
      BY <1>4 DEF One
    <2>2. i - 1 \in 1..(n - 1)
      BY <1>1, <1>4, <2>1
    <2>3. \A j \in 1..(n - 1) : r[j].type = ty <=> j = i - 1
      BY <1>1, <2>1
    <2>4. \E k \in 1..(n - 1) : \A j \in 1..(n - 1) : r[j].type = ty <=> j = k
      BY <2>2, <2>3
    <2> QED
      BY <1>1, <2>4 DEF One
  <1>5. One(q, Head(q).type) => Lacks(r, Head(q).type)
    BY <1>1 DEF One, Lacks
  <1>6. ~Lacks(q, Head(q).type)
    BY <1>1 DEF Lacks
  <1> QED
    BY <1>1, <1>3, <1>4, <1>5, <1>6 DEF r

(* A list with the same types in the same places. *)
LEMMA SameTypes ==
    ASSUME NEW q, NEW r, Len(q) = Len(r), \A i \in 1..Len(q) : r[i].type = q[i].type
    PROVE  \A ty : (One(q, ty) <=> One(r, ty)) /\ (Lacks(q, ty) <=> Lacks(r, ty))
  <1> TAKE ty
  <1>1. One(q, ty) <=> One(r, ty)
    <2>1. \A i \in 1..Len(q) : (\A j \in 1..Len(q) : q[j].type = ty <=> j = i)
                                <=> (\A j \in 1..Len(q) : r[j].type = ty <=> j = i)
      OBVIOUS
    <2> QED
      BY <2>1 DEF One
  <1>2. Lacks(q, ty) <=> Lacks(r, ty)
    BY DEF Lacks
  <1> QED
    BY <1>1, <1>2

LEMMA RevolutionPositive == Revolution \in Nat \ {0}
  <1>1. SectorsPerTrack \in Nat \ {0} /\ RotationTime \in Nat \ {0}
    BY DEF DevicesAssumption
  <1>2. \A a, b \in Nat \ {0} : a * b \in Nat \ {0}
    OBVIOUS
  <1> QED
    BY <1>1, <1>2 DEF Revolution

LEMMA RestBound ==
    ASSUME NEW x \in Int, NEW n \in Nat \ {0}
    PROVE  x % n \in 0..(n - 1)
  OBVIOUS

LEMMA AdvanceKeeps ==
    ASSUME NEW c \in Clock, NEW d \in Int
    PROVE  LET a == Advance(c, d)
           IN  /\ a \in Clock
               /\ Len(a.pending) = Len(c.pending)
               /\ \A i \in 1..Len(c.pending) :
                     a.pending[i] = [c.pending[i] EXCEPT !.when = @ - d]
               /\ \A ty : /\ One(c.pending, ty) <=> One(a.pending, ty)
                          /\ Lacks(c.pending, ty) <=> Lacks(a.pending, ty)
  <1> DEFINE q == c.pending
             r == [i \in DOMAIN q |-> [q[i] EXCEPT !.when = @ - d]]
             a == Advance(c, d)
  <1>1. q \in Seq(Event) /\ c.bufferAge \in Int /\ c.now \in Int
    BY RevolutionPositive DEF Clock
  <1>2. r \in Seq(Event) /\ Len(r) = Len(q) /\ \A i \in 1..Len(q) : r[i].type = q[i].type
    <2>1. DOMAIN q = 1..Len(q) /\ Len(q) \in Nat /\ \A i \in 1..Len(q) : q[i] \in Event
      BY <1>1
    <2>2. \A e \in Event : [e EXCEPT !.when = @ - d] \in Event /\ [e EXCEPT !.when = @ - d].type = e.type
      BY DEF Event
    <2> QED
      BY <2>1, <2>2
  <1>3. a = [now |-> (c.now + d) % Revolution, bufferAge |-> Min({c.bufferAge + d, Revolution}),
             pending |-> r]
    BY DEF Advance
  <1>4. (c.now + d) % Revolution \in 0..(Revolution - 1)
    <2>1. c.now + d \in Int
      BY <1>1
    <2> QED
      BY <2>1, RevolutionPositive, RestBound
  <1>5. Min({c.bufferAge + d, Revolution}) \in Int
    BY <1>1, RevolutionPositive, MinOfTwo
  <1>6. a \in Clock /\ a.pending = r
    BY <1>2, <1>3, <1>4, <1>5 DEF Clock
  <1>7. \A i \in 1..Len(q) : r[i] = [q[i] EXCEPT !.when = @ - d]
    BY <1>1
  <1> HIDE DEF a, r
  <1>8. \A ty : (One(q, ty) <=> One(r, ty)) /\ (Lacks(q, ty) <=> Lacks(r, ty))
    BY <1>2, SameTypes
  <1> QED
    BY <1>2, <1>6, <1>7, <1>8 DEF a

LEMMA ScheduleKeeps ==
    ASSUME NEW c \in Clock, NEW type \in Types, NEW d \in Int
    PROVE  LET a == Schedule(c, type, d)
           IN  /\ a \in Clock /\ a.now = c.now
               /\ a.pending = SortedInsert(c.pending, [type |-> type, when |-> d])
               /\ \A ty : ty # type => /\ One(c.pending, ty) => One(a.pending, ty)
                                       /\ Lacks(c.pending, ty) => Lacks(a.pending, ty)
                                       /\ ~Lacks(c.pending, ty) => ~Lacks(a.pending, ty)
               /\ Lacks(c.pending, type) => One(a.pending, type)
               /\ ~Lacks(a.pending, type)
  <1> DEFINE e == [type |-> type, when |-> d]
             r == SortedInsert(c.pending, e)
             a == Schedule(c, type, d)
  <1>1. e \in Event /\ e.type = type /\ c.pending \in Seq(Event)
    BY DEF Event, Clock
  <1>2. /\ r \in Seq(Event)
        /\ \A ty : ty # type => /\ One(c.pending, ty) => One(r, ty)
                                /\ Lacks(c.pending, ty) => Lacks(r, ty)
                                /\ ~Lacks(c.pending, ty) => ~Lacks(r, ty)
        /\ Lacks(c.pending, type) => One(r, type)
        /\ ~Lacks(r, type)
    <2> HIDE DEF e
    <2> QED
      BY <1>1, InsertKeeps
  <1>3. a = [c EXCEPT !.pending = r]
    BY DEF Schedule
  <1> HIDE DEF r, a, e
  <1>4. a \in Clock /\ a.now = c.now /\ a.pending = r
    BY <1>2, <1>3 DEF Clock
  <1> QED
    BY <1>2, <1>4 DEF r, a, e

-----------------------------------------------------------------------------
(* Lemmas: the processor *)

(* What is to come of a device stays the same. *)
Stays(p, q, ty) ==
    /\ One(p, ty) => One(q, ty)
    /\ Lacks(p, ty) => Lacks(q, ty)
    /\ ~Lacks(p, ty) => ~Lacks(q, ty)

SameToCome(p, q) == \A ty \in Types \ {"Timer"} : Stays(p, q, ty)

(* A step of the processor alone. *)
LEMMA PartsFrame ==
    ASSUME Shape, Parts, UNCHANGED <<pc, asleep, semaphore, lock, devices>>,
           SameToCome(clock.pending, clock'.pending),
           \A t \in Threads : Able(t)' <=> Able(t)
    PROVE  Parts'
  <1>1. /\ DiskThreads \subseteq Threads /\ EchoThreads \subseteq Threads
        /\ lock.owner \in DiskThreads \cup {None}
    BY DEF Threads, Shape
  <1> USE DEF devices
  <1>2. LockSound'
    BY <1>1 DEF Parts, LockSound
  <1>3. DiskSound'
    <2>1. "Disk" \in Types \ {"Timer"}
      BY DEF Types
    <2> QED
      BY <1>1, <2>1 DEF Parts, DiskSound, SameToCome, Stays
  <1>4. KeyboardSound'
    <2>1. "ConsoleRead" \in Types \ {"Timer"}
      BY DEF Types
    <2> QED
      BY <1>1, <2>1 DEF Parts, KeyboardSound, SameToCome, Stays, CharactersKept
  <1>5. DisplaySound'
    <2>1. "ConsoleWrite" \in Types \ {"Timer"}
      BY DEF Types
    <2> QED
      BY <1>1, <2>1 DEF Parts, DisplaySound, SameToCome, Stays
  <1> QED
    BY <1>2, <1>3, <1>4, <1>5 DEF Parts

LEMMA NothingNew == \A p : SameToCome(p, p)
  BY DEF SameToCome, Stays

LEMMA SleepStep == ASSUME Sound, Sleep PROVE Sound'
  <1> USE DEF Sound, devices, processor
  <1>1. CASE readyList = << >>
    <2>1. UNCHANGED <<processor, clock>> /\ mode' = "Idle" /\ mode = "Sleep"
      BY <1>1 DEF Sleep
    <2>2. \A t \in Threads : Able(t)' <=> Able(t)
      BY <2>1 DEF Able, Awake
    <2>3. Shape'
      BY <2>1 DEF Sleep, Shape, Modes
    <2>4. ThreadsSound'
      BY <1>1, <2>1, <2>2 DEF Sleep, ThreadsSound, Awake
    <2>5. Parts'
      BY <2>1, <2>2, PartsFrame, NothingNew DEF Sleep
    <2>6. HaltsAtTheEnd'
      BY <2>1 DEF HaltsAtTheEnd
    <2> QED
      BY <2>3, <2>4, <2>5, <2>6
  <1>2. CASE readyList # << >>
    <2>1. /\ currentThread' = Head(readyList) /\ readyList' = Tail(readyList)
          /\ mode' = "Switched" /\ mode = "Sleep"
      BY <1>2 DEF Sleep
    <2>2. /\ Head(readyList) \in Threads /\ Tail(readyList) \in Seq(Threads)
          /\ Queued(readyList, Head(readyList)) /\ Distinct(Tail(readyList))
          /\ \A u \in Threads : Queued(Tail(readyList), u) <=> Queued(readyList, u) /\ u # Head(readyList)
      BY <1>2, QueueTail DEF Shape, ThreadsSound
    <2>3. \A t \in Threads : Able(t)' <=> Able(t)
      BY <2>1, <2>2 DEF Able, Awake
    <2>4. Shape'
      BY <2>1, <2>2 DEF Sleep, Shape, Modes
    <2>5. ThreadsSound'
      BY <2>1, <2>2, <2>3 DEF Sleep, ThreadsSound, Awake
    <2>6. Parts'
      BY <2>3, PartsFrame, NothingNew DEF Sleep
    <2>7. HaltsAtTheEnd'
      BY <2>1 DEF HaltsAtTheEnd
    <2> QED
      BY <2>4, <2>5, <2>6, <2>7
  <1> QED
    BY <1>1, <1>2

LEMMA EnableKeeps ==
    ASSUME NEW c \in Clock, Enable(c)
    PROVE  /\ clock' \in Clock /\ mode' = "Tick"
           /\ \A ty : /\ One(c.pending, ty) <=> One(clock'.pending, ty)
                      /\ Lacks(c.pending, ty) <=> Lacks(clock'.pending, ty)
  <1>1. SystemTick \in Int
    BY DEF DevicesAssumption
  <1>2. clock' = Advance(c, SystemTick) /\ mode' = "Tick"
    BY DEF Enable
  <1> QED
    BY <1>1, <1>2, AdvanceKeeps

LEMMA AfterTickStep == ASSUME Sound, AfterTick PROVE Sound'
  <1> USE DEF Sound, devices, processor
  <1>1. mode = "Tick" /\ UNCHANGED <<pc, asleep, semaphore, lock, devices>> /\ yieldOnReturn' = FALSE
    BY DEF AfterTick
  <1>2. CASE ~yieldOnReturn \/ readyList = << >>
    <2>1. /\ mode' \in {"Running", "Tick"} /\ UNCHANGED processor
          /\ clock' \in Clock /\ SameToCome(clock.pending, clock'.pending)
      <3>1. CASE ~yieldOnReturn
        BY <3>1, NothingNew DEF AfterTick, Shape
      <3>2. CASE yieldOnReturn /\ readyList = << >>
        <4>1. Enable(clock) /\ UNCHANGED processor
          BY <3>2 DEF AfterTick
        <4> QED
          BY <4>1, EnableKeeps DEF Shape, SameToCome, Stays
      <3> QED
        BY <1>2, <3>1, <3>2 DEF Shape
    <2>2. \A t \in Threads : Able(t)' <=> Able(t)
      BY <1>1, <2>1 DEF Able, Awake
    <2>3. Shape'
      BY <1>1, <2>1 DEF Shape, Modes
    <2>4. ThreadsSound'
      BY <1>1, <2>1, <2>2 DEF ThreadsSound, Awake
    <2>5. Parts'
      BY <1>1, <2>1, <2>2, PartsFrame
    <2>6. HaltsAtTheEnd'
      BY <2>1 DEF HaltsAtTheEnd
    <2> QED
      BY <2>3, <2>4, <2>5, <2>6
  <1>3. CASE yieldOnReturn /\ readyList # << >>
    <2>1. /\ readyList' = Append(Tail(readyList), currentThread)
          /\ currentThread' = Head(readyList)
          /\ mode' = "Switched" /\ UNCHANGED clock
      BY <1>3 DEF AfterTick
    <2>2. /\ Head(readyList) \in Threads /\ Tail(readyList) \in Seq(Threads)
          /\ Queued(readyList, Head(readyList)) /\ Distinct(Tail(readyList))
          /\ \A u \in Threads : Queued(Tail(readyList), u) <=> Queued(readyList, u) /\ u # Head(readyList)
      BY <1>3, QueueTail DEF Shape, ThreadsSound
    <2>3. ~Queued(readyList, currentThread) /\ currentThread \in Threads
      BY <1>1 DEF ThreadsSound, Awake, Shape
    <2>4. /\ readyList' \in Seq(Threads) /\ Distinct(readyList')
          /\ \A u \in Threads : Queued(readyList', u) <=> Queued(Tail(readyList), u) \/ u = currentThread
      BY <2>1, <2>2, <2>3, QueueAppend
    <2>5. \A t \in Threads : Able(t)' <=> Able(t)
      BY <1>1, <2>1, <2>2, <2>4 DEF Able, Awake
    <2>6. Shape'
      BY <1>1, <2>1, <2>2, <2>4 DEF Shape, Modes
    <2>7. ThreadsSound'
      BY <1>1, <2>1, <2>2, <2>3, <2>4, <2>5 DEF ThreadsSound, Awake
    <2>8. Parts'
      BY <1>1, <2>1, <2>5, PartsFrame, NothingNew
    <2>9. HaltsAtTheEnd'
      BY <2>1 DEF HaltsAtTheEnd
    <2> QED
      BY <2>6, <2>7, <2>8, <2>9
  <1> QED
    BY <1>2, <1>3 DEF Shape

LEMMA LeaveIdleStep == ASSUME Sound, LeaveIdle PROVE Sound'
  <1> USE DEF Sound, devices, processor
  <1>1. /\ mode = "StillIdle" /\ mode' = "Sleep" /\ yieldOnReturn' = FALSE
        /\ UNCHANGED <<clock, processor, pc, asleep, semaphore, lock, devices>>
    BY DEF LeaveIdle
  <1>2. \A t \in Threads : Able(t)' <=> Able(t)
    BY <1>1 DEF Able, Awake
  <1>3. Shape'
    BY <1>1 DEF Shape, Modes
  <1>4. ThreadsSound'
    BY <1>1, <1>2 DEF ThreadsSound, Awake
  <1>5. Parts'
    BY <1>1, <1>2, PartsFrame, NothingNew
  <1>6. HaltsAtTheEnd'
    BY <1>1 DEF HaltsAtTheEnd
  <1> QED
    BY <1>3, <1>4, <1>5, <1>6

(* An idle machine has no thread that runs or will: the owner of the lock    *)
(* waits for the disk, and the thread that echoes for the console.           *)
LEMMA HaltStep == ASSUME Sound, Halt PROVE Sound'
  <1> USE DEF Sound, devices, processor
  <1>1. /\ mode = "Idle" /\ mode' = "Halted" /\ NothingToDo(clock)
        /\ UNCHANGED <<clock, yieldOnReturn, processor, pc, asleep, semaphore, lock, devices>>
    BY DEF Halt
  <1>2. \A t \in Threads : ~Able(t) /\ ~Able(t)'
    <2>1. readyList = << >>
      BY <1>1 DEF ThreadsSound
    <2>2. \A t \in Threads : ~Queued(readyList, t)
      BY <2>1, QueueEmpty DEF Shape
    <2> QED
      BY <1>1, <2>2 DEF Able, Awake
  <1>3. Shape'
    BY <1>1 DEF Shape, Modes
  <1>4. ThreadsSound'
    BY <1>1, <1>2 DEF ThreadsSound, Awake
  <1>5. Parts'
    BY <1>1, <1>2, PartsFrame, NothingNew
  <1>6. \A ty \in Types \ {"Timer"} : Lacks(clock.pending, ty) /\ ~One(clock.pending, ty)
    <2>1. clock.pending \in Seq(Event)
      BY DEF Shape, Clock
    <2>2. \A i \in 1..Len(clock.pending) : clock.pending[i].type = "Timer"
      BY <1>1, <2>1 DEF NothingToDo, OnlyTimer
    <2> QED
      BY <2>1, <2>2 DEF Lacks, One
  <1>7. ASSUME NEW t \in Threads PROVE pc[t] = "Finished"
    <2> SUFFICES ASSUME pc[t] # "Finished" PROVE FALSE
      OBVIOUS
    <2>1. asleep[t] \in Semaphores \cup {"lock"}
      BY <1>2 DEF ThreadsSound, Shape
    <2>2. {"Disk", "ConsoleRead", "ConsoleWrite"} \subseteq Types \ {"Timer"}
      BY DEF Types
    <2>3. ~disk.active /\ semaphore["disk"].value = 0
      <3>1. lock.owner # None => lock.owner \in Threads
        BY DEF Shape, Threads
      <3>2. "disk" \in Semaphores
        BY DEF Semaphores
      <3>3. semaphore["disk"].value \in {0, 1}
        BY <3>2 DEF Shape
      <3> QED
        BY <1>2, <1>6, <2>2, <3>1, <3>3 DEF Parts, DiskSound
    <2>4. \A u \in Threads : asleep[u] # "disk"
      BY <2>3 DEF Parts, DiskSound
    <2>5. CASE asleep[t] = "lock"
      <3>1. Queued(lock.queue, t) /\ t \in DiskThreads
        BY <1>2, <2>5 DEF Parts, LockSound
      <3>2. lock.owner \in DiskThreads
        <4>1. lock.queue # << >>
          BY <3>1, QueueEmpty DEF Shape
        <4> QED
          BY <4>1 DEF Parts, LockSound, Shape
      <3>3. pc[lock.owner] \in {"Request", "Release"} /\ lock.owner \in Threads
        BY <3>2 DEF Parts, LockSound, Threads
      <3>4. asleep[lock.owner] = "lock" \/ asleep[lock.owner] \in {"readAvail", "writeDone"}
        BY <1>2, <2>4, <3>3 DEF ThreadsSound, Shape, Semaphores
      <3>5. asleep[lock.owner] # "lock"
        BY <1>2, <3>3 DEF Parts, LockSound
      <3>6. lock.owner \notin EchoThreads
        BY <3>2 DEF DevicesAssumption
      <3> QED
        BY <3>3, <3>4, <3>5, <3>6 DEF Parts, KeyboardSound, DisplaySound
    <2>6. CASE asleep[t] = "readAvail"
      BY <1>6, <2>2, <2>6 DEF Parts, KeyboardSound
    <2>7. CASE asleep[t] = "writeDone"
      <3>1. semaphore["writeDone"].queue = <<t>>
        BY <1>2, <2>7 DEF Parts, DisplaySound
      <3>2. console.putBusy
        BY <3>1 DEF Parts, DisplaySound
      <3> QED
        BY <1>6, <2>2, <3>2 DEF Parts, DisplaySound
    <2> QED
      BY <2>1, <2>4, <2>5, <2>6, <2>7 DEF Semaphores
  <1>8. HaltsAtTheEnd'
    BY <1>1, <1>7 DEF HaltsAtTheEnd
  <1> QED
    BY <1>3, <1>4, <1>5, <1>8

-----------------------------------------------------------------------------
(* Lemmas: what a step leaves alone *)

LEMMA Constants ==
    /\ DiskThreads \subseteq Threads /\ EchoThreads \subseteq Threads
    /\ Threads = DiskThreads \cup EchoThreads
    /\ \A t \in DiskThreads : t \notin EchoThreads
    /\ \A e, t \in EchoThreads : e = t
    /\ None \notin Threads /\ None \notin Keys /\ None \notin Calls
    /\ None \notin Semaphores \cup {"lock"}
    /\ {"Disk", "ConsoleRead", "ConsoleWrite"} \subseteq Types \ {"Timer"}
  <1>1. \A e, t \in EchoThreads : e = t
    <2>1. IsFiniteSet(EchoThreads) /\ Cardinality(EchoThreads) <= 1
      <3>1. IsFiniteSet(Threads) /\ EchoThreads \subseteq Threads
        BY DEF DevicesAssumption, Threads
      <3>2. IsFiniteSet(EchoThreads)
        BY <3>1, FS_Subset
      <3> QED
        BY <3>2 DEF DevicesAssumption
    <2>2. Cardinality(EchoThreads) \in Nat
      BY <2>1, FS_CardinalityType
    <2>3. CASE Cardinality(EchoThreads) = 0
      BY <2>1, <2>3, FS_EmptySet
    <2>4. CASE Cardinality(EchoThreads) = 1
      <3>1. \E e : EchoThreads = {e}
        BY <2>1, <2>4, FS_Singleton
      <3> QED
        BY <3>1
    <2> QED
      BY <2>1, <2>2, <2>3, <2>4
  <1> QED
    BY <1>1 DEF DevicesAssumption, Threads, Semaphores, Types

LEMMA LockFrame ==
    ASSUME LockSound, lock' = lock,
           \A t \in DiskThreads : pc'[t] = pc[t] /\ asleep'[t] = asleep[t] /\ (Able(t)' <=> Able(t)),
           \A t \in Threads : asleep'[t] = "lock" => t \in DiskThreads
    PROVE  LockSound'
  BY Constants DEF LockSound

LEMMA DiskFrame ==
    ASSUME Shape, DiskSound, lock'.owner = lock.owner, disk'.active = disk.active,
           semaphore'["disk"] = semaphore["disk"],
           Stays(clock.pending, clock'.pending, "Disk"),
           \A t \in DiskThreads : pc'[t] = pc[t] /\ asleep'[t] = asleep[t] /\ (Able(t)' <=> Able(t)),
           \A t \in Threads : asleep'[t] = "disk" => t \in DiskThreads
    PROVE  DiskSound'
  <1>1. lock.owner \in DiskThreads \cup {None}
    BY DEF Shape
  <1> QED
    BY <1>1, Constants DEF DiskSound, Stays

LEMMA KeyboardFrame ==
    ASSUME KeyboardSound, unechoed' = unechoed, console'.incoming = console.incoming,
           semaphore'["readAvail"] = semaphore["readAvail"],
           Stays(clock.pending, clock'.pending, "ConsoleRead"),
           \A t \in EchoThreads : pc'[t] = pc[t] /\ asleep'[t] = asleep[t] /\ (Able(t)' <=> Able(t)),
           \A t \in Threads : asleep'[t] = "readAvail" => t \in EchoThreads
    PROVE  KeyboardSound'
  BY Constants DEF KeyboardSound, CharactersKept, Stays

LEMMA DisplayFrame ==
    ASSUME DisplaySound, console'.putBusy = console.putBusy,
           semaphore'["writeDone"] = semaphore["writeDone"],
           Stays(clock.pending, clock'.pending, "ConsoleWrite"),
           \A t \in EchoThreads : pc'[t] = pc[t] /\ asleep'[t] = asleep[t] /\ (Able(t)' <=> Able(t)),
           \A t \in Threads : asleep'[t] = "writeDone" => t \in EchoThreads
    PROVE  DisplaySound'
  BY Constants DEF DisplaySound, Stays

(* Who sleeps on what. *)
LEMMA Sleepers ==
    ASSUME Shape, Parts, NEW t \in Threads
    PROVE  /\ asleep[t] = "lock" => t \in DiskThreads
           /\ asleep[t] = "disk" => t \in DiskThreads
           /\ asleep[t] = "readAvail" => t \in EchoThreads
           /\ asleep[t] = "writeDone" => t \in EchoThreads
  <1>1. asleep[t] = "disk" => t \in DiskThreads
    BY Constants DEF Parts, DiskSound, Shape
  <1> QED
    BY <1>1 DEF Parts, LockSound, KeyboardSound, DisplaySound

LEMMA SemaphoreTyped ==
    ASSUME Shape, NEW s \in Semaphores
    PROVE  /\ semaphore[s].value \in {0, 1} /\ semaphore[s].queue \in Seq(Threads)
           /\ s \in DOMAIN semaphore /\ DOMAIN semaphore = Semaphores
           /\ \A v \in {0, 1}, q \in Seq(Threads) :
                 /\ [semaphore EXCEPT ![s] = [value |-> v, queue |-> q]]
                       \in [Semaphores -> [value : {0, 1}, queue : Seq(Threads)]]
                 /\ [semaphore EXCEPT ![s] = [value |-> v, queue |-> q]][s] = [value |-> v, queue |-> q]
           /\ \A v, q : \A r \in Semaphores \ {s} :
                 [semaphore EXCEPT ![s] = [value |-> v, queue |-> q]][r] = semaphore[r]
  BY DEF Shape

-----------------------------------------------------------------------------
(* Lemmas: threads that go on, go to sleep and are woken *)

LEMMA GoesOn ==
    ASSUME Shape, ThreadsSound, mode \in {"Running", "Switched"}, mode' = "Tick",
           UNCHANGED processor, asleep' = [asleep EXCEPT ![currentThread] = None],
           \A u \in Threads \ {currentThread} : pc'[u] = pc[u],
           pc'[currentThread] # "Finished"
    PROVE  ThreadsSound' /\ \A u \in Threads : Able(u)' <=> Able(u)
  <1> USE DEF processor
  <1>1. \A u \in Threads : Able(u)' <=> Able(u)
    BY DEF Able, Awake
  <1>2. Able(currentThread)
    BY DEF Able, Awake
  <1>3. /\ asleep'[currentThread] = None
        /\ \A u \in Threads \ {currentThread} : asleep'[u] = asleep[u]
    BY DEF Shape
  <1>4. ThreadsSound'
    BY <1>1, <1>2, <1>3 DEF ThreadsSound, Shape, Awake
  <1> QED
    BY <1>1, <1>4

LEMMA GoesToSleep ==
    ASSUME Shape, ThreadsSound, mode = "Running", mode' = "Sleep", UNCHANGED processor,
           \A u \in Threads \ {currentThread} : pc'[u] = pc[u] /\ asleep'[u] = asleep[u],
           pc'[currentThread] = "Finished" <=> asleep'[currentThread] = None
    PROVE  /\ ThreadsSound'
           /\ \A u \in Threads : Able(u)' <=> Able(u) /\ u # currentThread
           /\ ~Able(currentThread)' /\ currentThread \in Threads
  <1> USE DEF processor
  <1>1. \A u \in Threads : Able(u)' <=> Able(u) /\ u # currentThread
    BY DEF Able, Awake, ThreadsSound
  <1>2. currentThread \in Threads
    BY DEF Shape
  <1>3. ThreadsSound'
    BY <1>1, <1>2 DEF ThreadsSound, Awake
  <1> QED
    BY <1>1, <1>2, <1>3

(* The handlers run, and a thread may become ready. *)
Handling ==
    /\ \/ mode = "Tick" /\ mode' = "Tick"
       \/ mode \in {"Idle", "StillIdle"} /\ mode' = "StillIdle"
    /\ UNCHANGED <<currentThread, pc, asleep>>

LEMMA NobodyWoken ==
    ASSUME Shape, ThreadsSound, Handling, readyList' = readyList
    PROVE  ThreadsSound' /\ \A u \in Threads : Able(u)' <=> Able(u)
  <1>1. \A u \in Threads : Able(u)' <=> Able(u)
    BY DEF Able, Awake, Handling
  <1> QED
    BY <1>1 DEF ThreadsSound, Awake, Handling

LEMMA SomebodyWoken ==
    ASSUME Shape, ThreadsSound, Handling, NEW w \in Threads, ~Able(w), asleep[w] # None,
           readyList' = Append(readyList, w)
    PROVE  /\ ThreadsSound' /\ readyList' \in Seq(Threads)
           /\ \A u \in Threads : Able(u)' <=> Able(u) \/ u = w
  <1>1. /\ readyList' \in Seq(Threads)
        /\ Distinct(readyList')
        /\ \A u \in Threads : Queued(readyList', u) <=> Queued(readyList, u) \/ u = w
    BY QueueAppend DEF Shape, ThreadsSound, Able
  <1>2. \A u \in Threads : Able(u)' <=> Able(u) \/ u = w
    BY <1>1 DEF Able, Awake, Handling
  <1>3. Awake => w # currentThread
    BY DEF Able
  <1>4. currentThread \in Threads
    BY DEF Shape
  <1>5. ThreadsSound'
    BY <1>1, <1>2, <1>3, <1>4 DEF ThreadsSound, Awake, Handling
  <1> QED
    BY <1>1, <1>2, <1>5

LEMMA VWakes ==
    ASSUME Shape, NEW s \in Semaphores, V(s)
    PROVE  /\ semaphore[s].queue = << >> =>
                 /\ readyList' = readyList
                 /\ semaphore' = [semaphore EXCEPT ![s] =
                                    [value |-> semaphore[s].value + 1, queue |-> << >>]]
           /\ \A w \in Threads : semaphore[s].queue = <<w>> =>
                 /\ readyList' = Append(readyList, w)
                 /\ semaphore' = [semaphore EXCEPT ![s] =
                                    [value |-> semaphore[s].value + 1, queue |-> << >>]]
  <1> DEFINE q == semaphore[s].queue
  <1>1. s \in DOMAIN semaphore /\ readyList \in Seq(Threads)
    BY DEF Shape
  <1>2. semaphore' = [semaphore EXCEPT ![s] =
            [value |-> semaphore[s].value + 1, queue |-> IF q = << >> THEN q ELSE Tail(q)]]
    BY <1>1 DEF V
  <1>3. readyList' = readyList \o IF q = << >> THEN q ELSE <<Head(q)>>
    BY DEF V
  <1>4. ASSUME q = << >>
        PROVE  readyList' = readyList
    BY <1>1, <1>3, <1>4
  <1>5. ASSUME NEW w \in Threads, q = <<w>>
        PROVE  readyList' = Append(readyList, w) /\ q # << >> /\ Tail(q) = << >>
    <2>1. q # << >> /\ Tail(q) = << >> /\ Head(q) = w
      BY <1>5
    <2>2. readyList' = readyList \o <<w>>
      BY <1>3, <2>1
    <2> QED
      BY <1>1, <2>1, <2>2
  <1>6. q = << >> => semaphore' = [semaphore EXCEPT ![s] =
                                    [value |-> semaphore[s].value + 1, queue |-> << >>]]
    BY <1>2
  <1>7. \A w \in Threads : q = <<w>> => semaphore' = [semaphore EXCEPT ![s] =
                                    [value |-> semaphore[s].value + 1, queue |-> << >>]]
    BY <1>2, <1>5
  <1> QED
    BY <1>4, <1>5, <1>6, <1>7

-----------------------------------------------------------------------------
(* The handlers of interrupts *)

\* The clock when a handler is called: only the times of what is to come
\* differ from those of clock.
Called(c) ==
    /\ c \in Clock /\ c.pending # << >>
    /\ SameToCome(clock.pending, c.pending)

LEMMA RestIs ==
    ASSUME NEW c \in Clock, c.pending # << >>, NEW rest, rest = [c EXCEPT !.pending = SortedRemove(@)]
    PROVE  rest \in Clock /\ rest.pending = Tail(c.pending) /\ rest.now = c.now
  <1>1. Tail(c.pending) \in Seq(Event)
    BY DEF Clock
  <1> QED
    BY <1>1 DEF Clock, SortedRemove

(* A handler leaves the other devices' interrupts alone. *)
LEMMA TailToCome ==
    ASSUME NEW c, Called(c), NEW rest, rest = [c EXCEPT !.pending = SortedRemove(@)]
    PROVE  /\ \A ty \in Types \ {"Timer"} : ty # Head(c.pending).type =>
                 /\ One(clock.pending, ty) => One(rest.pending, ty)
                 /\ Lacks(clock.pending, ty) => Lacks(rest.pending, ty)
                 /\ ~Lacks(clock.pending, ty) => ~Lacks(rest.pending, ty)
           /\ LET ty == Head(c.pending).type
              IN  /\ ty \in Types
                  /\ ty # "Timer" /\ One(clock.pending, ty) => Lacks(rest.pending, ty)
                  /\ ty # "Timer" => ~Lacks(clock.pending, ty)
  <1>1. c \in Clock /\ c.pending \in Seq(Event) /\ c.pending # << >>
    BY DEF Called, Clock
  <1>2. rest.pending = Tail(c.pending)
    BY <1>1, RestIs
  <1>3. Head(c.pending).type \in Types
    BY <1>1, TailKeeps DEF Event
  <1>4. \A ty : ty # Head(c.pending).type =>
            /\ One(c.pending, ty) => One(rest.pending, ty)
            /\ Lacks(c.pending, ty) => Lacks(rest.pending, ty)
            /\ ~Lacks(c.pending, ty) => ~Lacks(rest.pending, ty)
    BY <1>1, <1>2, TailKeeps
  <1>5. /\ One(c.pending, Head(c.pending).type) => Lacks(rest.pending, Head(c.pending).type)
        /\ ~Lacks(c.pending, Head(c.pending).type)
    BY <1>1, <1>2, TailKeeps
  <1> QED
    BY <1>3, <1>4, <1>5 DEF Called, SameToCome, Stays

LEMMA TimerStep ==
    ASSUME Sound, Handling, NEW c, Called(c), NEW rest, rest = [c EXCEPT !.pending = SortedRemove(@)],
           Head(c.pending).type = "Timer", TimerExpired(rest), lock' = lock
    PROVE  Sound'
  <1> USE DEF Sound, devices
  <1>1. rest \in Clock
    BY RestIs DEF Called
  <1>2. PICK i \in TimerIntervals : clock' = Schedule(rest, "Timer", i)
    BY DEF TimerExpired
  <1>3. i \in Int /\ "Timer" \in Types
    BY DEF DevicesAssumption, Types
  <1>4. /\ clock' \in Clock
        /\ \A ty : ty # "Timer" => /\ One(rest.pending, ty) => One(clock'.pending, ty)
                                   /\ Lacks(rest.pending, ty) => Lacks(clock'.pending, ty)
                                   /\ ~Lacks(rest.pending, ty) => ~Lacks(clock'.pending, ty)
    BY <1>1, <1>2, <1>3, ScheduleKeeps
  <1>5. SameToCome(clock.pending, clock'.pending)
    BY <1>4, TailToCome DEF SameToCome, Stays
  <1>6. /\ yieldOnReturn' = TRUE /\ UNCHANGED <<readyList, semaphore, devices, currentThread, pc, asleep>>
        /\ mode' \in {"Tick", "StillIdle"}
    BY DEF TimerExpired, TimerInterruptHandler, Handling
  <1>7. ThreadsSound' /\ \A u \in Threads : Able(u)' <=> Able(u)
    BY <1>6, NobodyWoken
  <1>8. Shape'
    BY <1>4, <1>6 DEF Shape, Modes
  <1>9. Parts'
    BY <1>5, <1>6, <1>7, PartsFrame
  <1>10. HaltsAtTheEnd'
    BY <1>6 DEF HaltsAtTheEnd
  <1> QED
    BY <1>7, <1>8, <1>9, <1>10

LEMMA DiskDoneStep ==
    ASSUME Sound, Handling, NEW c, Called(c), NEW rest, rest = [c EXCEPT !.pending = SortedRemove(@)],
           Head(c.pending).type = "Disk", DiskDone(rest), lock' = lock
    PROVE  Sound'
  <1> USE DEF Sound
  <1> DEFINE o == lock.owner
  <1>1. rest \in Clock
    BY RestIs DEF Called
  <1>2. /\ clock' = rest /\ disk' = [disk EXCEPT !.active = FALSE] /\ V("disk")
        /\ UNCHANGED <<yieldOnReturn, call, console, unechoed, currentThread, pc, asleep>>
        /\ mode' \in {"Tick", "StillIdle"}
    BY DEF DiskDone, Handling
  <1>3. "disk" \in Semaphores /\ "readAvail" \in Semaphores /\ "writeDone" \in Semaphores
    BY DEF Semaphores
  <1>4. ~Lacks(clock.pending, "Disk") /\ "Disk" \in Types \ {"Timer"}
    BY TailToCome DEF Types
  <1>5. disk.active
    BY <1>4 DEF Parts, DiskSound
  <1>6. /\ One(clock.pending, "Disk")
        /\ o \in DiskThreads /\ o \in Threads /\ asleep[o] = "disk" /\ ~Able(o)
        /\ semaphore["disk"].value = 0 /\ semaphore["disk"].queue = <<o>>
    BY <1>5, Constants DEF Parts, DiskSound, Shape
  <1>7. Lacks(clock'.pending, "Disk")
    BY <1>2, <1>4, <1>6, TailToCome
  <1>8. /\ readyList' = Append(readyList, o)
        /\ semaphore' = [semaphore EXCEPT !["disk"] = [value |-> 1, queue |-> << >>]]
    <2>1. 0 + 1 = 1
      OBVIOUS
    <2> QED
      BY <1>2, <1>3, <1>6, <2>1, VWakes
  <1>9. /\ ThreadsSound' /\ readyList' \in Seq(Threads)
        /\ \A u \in Threads : Able(u)' <=> Able(u) \/ u = o
    BY <1>3, <1>6, <1>8, Constants, SomebodyWoken
  <1>10. /\ semaphore' \in [Semaphores -> [value : {0, 1}, queue : Seq(Threads)]]
         /\ semaphore'["disk"] = [value |-> 1, queue |-> << >>]
         /\ semaphore'["readAvail"] = semaphore["readAvail"]
         /\ semaphore'["writeDone"] = semaphore["writeDone"]
    <2>1. << >> \in Seq(Threads) /\ 1 \in {0, 1}
      OBVIOUS
    <2>2. "readAvail" # "disk" /\ "writeDone" # "disk"
      OBVIOUS
    <2> QED
      BY <1>3, <1>8, <2>1, <2>2, SemaphoreTyped
  <1>11. /\ disk'.active = FALSE
         /\ disk' \in [active: BOOLEAN, lastSector : RequestSectors \cup {0},
                        store : [RequestSectors -> Values]]
    BY <1>2 DEF Shape
  <1>12. Shape'
    BY <1>1, <1>2, <1>9, <1>10, <1>11 DEF Shape, Modes
  <1>13. LockSound'
    <2>1. ~Queued(lock.queue, o)
      BY DEF Parts, LockSound
    <2> QED
      BY <1>2, <1>6, <1>9, <2>1, Constants DEF Parts, LockSound
  <1>14. DiskSound'
    BY <1>2, <1>6, <1>7, <1>9, <1>10, <1>11, Constants DEF Parts, DiskSound
  <1>15. \A u \in EchoThreads : Able(u)' <=> Able(u)
    BY <1>6, <1>9, Constants
  <1>16. \A ty \in {"ConsoleRead", "ConsoleWrite"} :
            /\ One(clock.pending, ty) => One(clock'.pending, ty)
            /\ Lacks(clock.pending, ty) => Lacks(clock'.pending, ty)
            /\ ~Lacks(clock.pending, ty) => ~Lacks(clock'.pending, ty)
    BY <1>2, TailToCome DEF Types
  <1>17. KeyboardSound'
    BY <1>2, <1>10, <1>15, <1>16, Constants DEF Parts, KeyboardSound, CharactersKept
  <1>18. DisplaySound'
    BY <1>2, <1>10, <1>15, <1>16, Constants DEF Parts, DisplaySound
  <1>19. HaltsAtTheEnd'
    BY <1>2 DEF HaltsAtTheEnd
  <1> QED
    BY <1>9, <1>12, <1>13, <1>14, <1>17, <1>18, <1>19 DEF Parts

LEMMA CharStep ==
    ASSUME Sound, Handling, NEW c, Called(c), NEW rest, rest = [c EXCEPT !.pending = SortedRemove(@)],
           Head(c.pending).type = "ConsoleRead", CheckCharAvail(rest), lock' = lock
    PROVE  Sound'
  <1> USE DEF Sound
  <1>1. rest \in Clock /\ "ConsoleRead" \in Types /\ ConsoleTime \in Int
    BY RestIs DEF Called, Types, DevicesAssumption
  <1>2. /\ clock' = Schedule(rest, "ConsoleRead", ConsoleTime)
        /\ UNCHANGED <<yieldOnReturn, disk, call, currentThread, pc, asleep>>
        /\ mode' \in {"Tick", "StillIdle"}
    BY DEF CheckCharAvail, Handling
  <1>3. /\ clock' \in Clock
        /\ \A ty : ty # "ConsoleRead" => Stays(rest.pending, clock'.pending, ty)
        /\ ~Lacks(clock'.pending, "ConsoleRead")
    BY <1>1, <1>2, ScheduleKeeps DEF Stays
  <1>4. \A ty \in {"Disk", "ConsoleWrite"} : Stays(clock.pending, clock'.pending, ty)
    BY <1>3, TailToCome DEF Stays, Types
  <1>5. ~Lacks(clock.pending, "ConsoleRead")
    BY <1>1, TailToCome
  <1>6. Stays(clock.pending, clock'.pending, "ConsoleRead") \/ One(clock.pending, "ConsoleRead")
    BY <1>3, <1>5 DEF Stays
  <1>7. "disk" \in Semaphores /\ "readAvail" \in Semaphores /\ "writeDone" \in Semaphores
    BY DEF Semaphores
  <1>8. HaltsAtTheEnd'
    BY <1>2 DEF HaltsAtTheEnd
  <1>9. CASE UNCHANGED <<console, unechoed, semaphore, readyList>>
    <2>1. ThreadsSound' /\ \A u \in Threads : Able(u)' <=> Able(u)
      BY <1>9, NobodyWoken
    <2>2. Shape'
      BY <1>2, <1>3, <1>9 DEF Shape, Modes
    <2>3. LockSound'
      BY <1>2, <2>1, Constants, Sleepers, LockFrame DEF Parts
    <2>4. DiskSound'
      BY <1>2, <1>4, <1>9, <2>1, Constants, Sleepers, DiskFrame DEF Parts
    <2>5. KeyboardSound'
      BY <1>2, <1>3, <1>9, <2>1, Constants DEF Parts, KeyboardSound, CharactersKept
    <2>6. DisplaySound'
      BY <1>2, <1>4, <1>9, <2>1, Constants, Sleepers, DisplayFrame DEF Parts
    <2> QED
      BY <1>8, <2>1, <2>2, <2>3, <2>4, <2>5, <2>6 DEF Parts
  <1>10. CASE ~UNCHANGED <<console, unechoed, semaphore, readyList>>
    <2>1. MayRead /\ V("readAvail")
      BY <1>10 DEF CheckCharAvail
    <2>2. PICK k \in Keys : console' = [console EXCEPT !.incoming = k] /\ unechoed' = Append(unechoed, k)
      BY <1>10 DEF CheckCharAvail
    <2>3. /\ console'.incoming = k /\ console'.putBusy = console.putBusy
          /\ console' \in [putBusy : BOOLEAN, incoming : Keys \cup {None}]
      BY <2>2 DEF Shape
    <2>4. console.incoming = None /\ semaphore["readAvail"].value = 0 /\ k # None
      BY <1>7, <2>1, SemaphoreTyped, Constants DEF MayRead, Parts, KeyboardSound
    <2>5. unechoed' = <<k>>
      BY <2>2, <2>4 DEF Parts, KeyboardSound, CharactersKept
    <2>6. \A t \in EchoThreads : ~(pc[t] = "Echo" /\ asleep[t] = None)
      BY <2>4 DEF Parts, KeyboardSound
    <2>7. 0 + 1 = 1 /\ 1 \in {0, 1} /\ << >> \in Seq(Threads) /\ 0 # 1
      OBVIOUS
    <2>8. semaphore' = [semaphore EXCEPT !["readAvail"] = [value |-> 1, queue |-> << >>]]
      BY <1>7, <2>1, <2>4, <2>7, VWakes, Constants DEF Parts, KeyboardSound
    <2>9. /\ semaphore' \in [Semaphores -> [value : {0, 1}, queue : Seq(Threads)]]
          /\ semaphore'["readAvail"] = [value |-> 1, queue |-> << >>]
          /\ semaphore'["disk"] = semaphore["disk"]
          /\ semaphore'["writeDone"] = semaphore["writeDone"]
      <3>1. "disk" # "readAvail" /\ "writeDone" # "readAvail"
        OBVIOUS
      <3> QED
        BY <1>7, <2>7, <2>8, <3>1, SemaphoreTyped
    <2>10. CASE semaphore["readAvail"].queue = << >>
      <3>1. readyList' = readyList
        BY <1>7, <2>1, <2>10, VWakes
      <3>2. ThreadsSound' /\ \A u \in Threads : Able(u)' <=> Able(u)
        BY <3>1, NobodyWoken
      <3>3. Shape'
        BY <1>2, <1>3, <2>3, <2>9, <3>1 DEF Shape, Modes
      <3>4. LockSound'
        BY <1>2, <3>2, Constants, Sleepers, LockFrame DEF Parts
      <3>5. DiskSound'
        BY <1>2, <1>4, <2>9, <3>2, Constants, Sleepers, DiskFrame DEF Parts
      <3>6. \A t \in Threads : asleep[t] # "readAvail"
        <4>1. \A t : << >> # <<t>>
          OBVIOUS
        <4> QED
          BY <2>4, <2>7, <2>10, <4>1 DEF Parts, KeyboardSound
      <3>7. KeyboardSound'
        BY <1>2, <1>3, <2>3, <2>4, <2>5, <2>6, <2>7, <2>9, <3>6, Constants DEF Parts, KeyboardSound, CharactersKept
      <3>8. DisplaySound'
        BY <1>2, <1>4, <2>3, <2>9, <3>2, Constants, Sleepers, DisplayFrame DEF Parts
      <3> QED
        BY <1>8, <3>2, <3>3, <3>4, <3>5, <3>7, <3>8 DEF Parts
    <2>11. CASE semaphore["readAvail"].queue # << >>
      <3>1. PICK e \in EchoThreads : semaphore["readAvail"].queue = <<e>> /\ asleep[e] = "readAvail"
        BY <2>11 DEF Parts, KeyboardSound
      <3>2. e \in Threads /\ asleep[e] # None /\ ~Able(e) /\ pc[e] = "Echo"
        BY <1>7, <2>4, <2>7, <3>1, Constants DEF Parts, KeyboardSound
      <3>3. readyList' = Append(readyList, e)
        BY <1>7, <2>1, <3>1, <3>2, VWakes
      <3>4. /\ ThreadsSound' /\ readyList' \in Seq(Threads)
            /\ \A u \in Threads : Able(u)' <=> Able(u) \/ u = e
        BY <3>2, <3>3, SomebodyWoken
      <3>5. Shape'
        BY <1>2, <1>3, <2>3, <2>9, <3>4 DEF Shape, Modes
      <3>6. \A u \in DiskThreads : Able(u)' <=> Able(u)
        BY <3>1, <3>4, Constants
      <3>7. LockSound'
        BY <1>2, <3>6, Constants, Sleepers, LockFrame DEF Parts
      <3>8. DiskSound'
        BY <1>2, <1>4, <2>9, <3>6, Constants, Sleepers, DiskFrame DEF Parts
      <3>9. \A t \in Threads : asleep[t] = "readAvail" => t \in EchoThreads /\ pc[t] = "Echo" /\ t = e
        BY <3>1, Constants DEF Parts, KeyboardSound
      <3>10. KeyboardSound'
        BY <1>2, <1>3, <2>3, <2>4, <2>5, <2>6, <2>7, <2>9, <3>2, <3>4, <3>9, Constants DEF Parts, KeyboardSound, CharactersKept
      <3>11. DisplaySound'
        <4>1. \A t \in Threads : asleep[t] # "writeDone"
          BY <3>1, Constants DEF Parts, DisplaySound
        <4> QED
          BY <1>2, <1>4, <2>3, <2>9, <4>1, Constants DEF Parts, DisplaySound, Stays
      <3> QED
        BY <1>8, <3>4, <3>5, <3>7, <3>8, <3>10, <3>11 DEF Parts
    <2> QED
      BY <2>10, <2>11
  <1> QED
    BY <1>9, <1>10

LEMMA WriteDoneStep ==
    ASSUME Sound, Handling, NEW c, Called(c), NEW rest, rest = [c EXCEPT !.pending = SortedRemove(@)],
           Head(c.pending).type = "ConsoleWrite", WriteDone(rest), lock' = lock
    PROVE  Sound'
  <1> USE DEF Sound
  <1>1. rest \in Clock /\ "ConsoleWrite" \in Types /\ "ConsoleWrite" # "Timer"
    BY RestIs DEF Called, Types
  <1>2. /\ clock' = rest /\ console' = [console EXCEPT !.putBusy = FALSE] /\ V("writeDone")
        /\ UNCHANGED <<yieldOnReturn, disk, call, unechoed, currentThread, pc, asleep>>
        /\ mode' \in {"Tick", "StillIdle"}
    BY DEF WriteDone, Handling
  <1>3. "disk" \in Semaphores /\ "readAvail" \in Semaphores /\ "writeDone" \in Semaphores
    BY DEF Semaphores
  <1>4. \A ty \in {"Disk", "ConsoleRead"} : Stays(clock.pending, clock'.pending, ty)
    BY <1>2, TailToCome DEF Stays, Types
  <1>5. console.putBusy /\ One(clock.pending, "ConsoleWrite")
    BY <1>1, TailToCome DEF Parts, DisplaySound
  <1>6. Lacks(clock'.pending, "ConsoleWrite")
    BY <1>1, <1>2, <1>5, TailToCome
  <1>7. PICK e \in EchoThreads : /\ semaphore["writeDone"].queue = <<e>>
                                 /\ asleep[e] = "writeDone" /\ semaphore["writeDone"].value = 0
    BY <1>5 DEF Parts, DisplaySound
  <1>8. e \in Threads /\ asleep[e] # None /\ ~Able(e)
    BY <1>3, <1>7, Constants DEF Parts, DisplaySound
  <1>9. 0 + 1 = 1 /\ 1 \in {0, 1} /\ << >> \in Seq(Threads) /\ 0 # 1
    OBVIOUS
  <1>10. /\ readyList' = Append(readyList, e)
         /\ semaphore' = [semaphore EXCEPT !["writeDone"] = [value |-> 1, queue |-> << >>]]
    BY <1>2, <1>3, <1>7, <1>8, <1>9, VWakes
  <1>11. /\ semaphore' \in [Semaphores -> [value : {0, 1}, queue : Seq(Threads)]]
         /\ semaphore'["writeDone"] = [value |-> 1, queue |-> << >>]
         /\ semaphore'["disk"] = semaphore["disk"]
         /\ semaphore'["readAvail"] = semaphore["readAvail"]
    <2>1. "disk" # "writeDone" /\ "readAvail" # "writeDone"
      OBVIOUS
    <2> QED
      BY <1>3, <1>9, <1>10, <2>1, SemaphoreTyped
  <1>12. /\ ThreadsSound' /\ readyList' \in Seq(Threads)
         /\ \A u \in Threads : Able(u)' <=> Able(u) \/ u = e
    BY <1>8, <1>10, SomebodyWoken
  <1>13. /\ ~console'.putBusy /\ console'.incoming = console.incoming
         /\ console' \in [putBusy : BOOLEAN, incoming : Keys \cup {None}]
    BY <1>2 DEF Shape
  <1>14. Shape'
    BY <1>1, <1>2, <1>11, <1>12, <1>13 DEF Shape, Modes
  <1>15. \A u \in DiskThreads : Able(u)' <=> Able(u)
    BY <1>7, <1>12, Constants
  <1>16. LockSound'
    BY <1>2, <1>15, Constants, Sleepers, LockFrame DEF Parts
  <1>17. DiskSound'
    BY <1>2, <1>4, <1>11, <1>15, Constants, Sleepers, DiskFrame DEF Parts
  <1>18. KeyboardSound'
    <2>1. \A t \in Threads : asleep[t] # "readAvail"
      BY <1>7, Constants DEF Parts, KeyboardSound
    <2> QED
      BY <1>2, <1>4, <1>11, <1>13, <2>1, Constants DEF Parts, KeyboardSound, Stays, CharactersKept
  <1>19. DisplaySound'
    <2>1. \A t \in Threads : asleep[t] = "writeDone" =>
             t = e /\ t \in EchoThreads /\ pc[t] \in {"Idle", "Return"}
      BY <1>7, Constants DEF Parts, DisplaySound
    <2> QED
      BY <1>2, <1>6, <1>7, <1>8, <1>9, <1>11, <1>12, <1>13, <2>1 DEF DisplaySound
  <1>20. HaltsAtTheEnd'
    BY <1>2 DEF HaltsAtTheEnd
  <1> QED
    BY <1>12, <1>14, <1>16, <1>17, <1>18, <1>19, <1>20 DEF Parts

LEMMA FireStep ==
    ASSUME Sound, NEW c, Called(c), Fire(c),
           \/ (mode = "Tick" /\ mode' = "Tick")
           \/ (mode \in {"Idle", "StillIdle"} /\ mode' = "StillIdle")
    PROVE  Sound'
  <1> DEFINE rest == [c EXCEPT !.pending = SortedRemove(@)]
  <1>1. Handling /\ lock' = lock
    BY DEF Handling, Fire
  <1>2. \/ Head(c.pending).type = "Timer"        /\ TimerExpired(rest)
        \/ Head(c.pending).type = "Disk"         /\ DiskDone(rest)
        \/ Head(c.pending).type = "ConsoleRead"  /\ CheckCharAvail(rest)
        \/ Head(c.pending).type = "ConsoleWrite" /\ WriteDone(rest)
    BY DEF Fire
  <1>3. PICK r : r = rest
    OBVIOUS
  <1> QED
    BY <1>1, <1>2, <1>3, TimerStep, DiskDoneStep, CharStep, WriteDoneStep

LEMMA InterruptStep == ASSUME Sound, Interrupt PROVE Sound'
  <1>1. Called(clock)
    BY NothingNew DEF Sound, Shape, Called, Interrupt, IsDue
  <1> QED
    BY <1>1, FireStep DEF Interrupt

LEMMA StillIdleStep == ASSUME Sound, StillIdle PROVE Sound'
  <1>1. Called(clock)
    BY NothingNew DEF Sound, Shape, Called, StillIdle, IsDue
  <1> QED
    BY <1>1, FireStep DEF StillIdle

(* The idle machine's clock: what it finds pending is due. *)
LEMMA JumpIs ==
    ASSUME Shape, clock.pending # << >>
    PROVE  LET d == Max({0, Head(clock.pending).when})
           IN  d \in Nat /\ Called(Advance(clock, d))
  <1> DEFINE d == Max({0, Head(clock.pending).when})
             c == Advance(clock, d)
  <1>1. clock \in Clock /\ clock.pending \in Seq(Event)
    BY DEF Shape, Clock
  <1>2. Head(clock.pending).when \in Int
    BY <1>1, TailKeeps DEF Event
  <1>3. d \in Nat
    <2>1. PICK w \in Int : w = Head(clock.pending).when
      BY <1>2
    <2>2. Max({0, w}) \in Int /\ Max({0, w}) >= 0
      <3>1. \E x \in {0, w} : \A y \in {0, w} : x >= y
        OBVIOUS
      <3> QED
        BY <3>1 DEF Max
    <2> QED
      BY <2>1, <2>2
  <1> HIDE DEF d
  <1>4. /\ c \in Clock /\ Len(c.pending) = Len(clock.pending)
        /\ SameToCome(clock.pending, c.pending)
    <2>1. d \in Int
      BY <1>3
    <2>2. \A ty : (One(clock.pending, ty) <=> One(c.pending, ty)) /\ (Lacks(clock.pending, ty) <=> Lacks(c.pending, ty))
      BY <1>1, <2>1, AdvanceKeeps
    <2>3. c \in Clock /\ Len(c.pending) = Len(clock.pending)
      BY <1>1, <2>1, AdvanceKeeps
    <2> QED
      BY <2>2, <2>3 DEF SameToCome, Stays
  <1> HIDE DEF c
  <1>5. c.pending # << >>
    <2>1. c.pending \in Seq(Event)
      BY <1>4 DEF Clock
    <2> QED
      BY <1>1, <1>4, <2>1
  <1> QED
    BY <1>3, <1>4, <1>5 DEF Called, c, d

LEMMA IdleStep == ASSUME Sound, Idle PROVE Sound'
  <1> DEFINE c == Advance(clock, Max({0, Head(clock.pending).when}))
  <1>1. clock.pending # << >> /\ Fire(c) /\ mode = "Idle" /\ mode' = "StillIdle"
    BY DEF Idle, NothingToDo
  <1>2. Called(c)
    BY <1>1, JumpIs DEF Sound
  <1> HIDE DEF c
  <1> QED
    BY <1>1, <1>2, FireStep

-----------------------------------------------------------------------------
(* Threads that run *)

LEMMA PTakes ==
    ASSUME Shape, NEW t \in Threads, NEW s \in Semaphores, NEW c, NEW l, P(t, s, c, l),
           semaphore[s].value = 1
    PROVE  /\ pc' = [pc EXCEPT ![t] = l]
           /\ semaphore' = [semaphore EXCEPT ![s] = [value |-> 0, queue |-> semaphore[s].queue]]
           /\ asleep' = [asleep EXCEPT ![t] = None]
           /\ Enable(c)
  <1>1. semaphore' = [semaphore EXCEPT ![s].value = @ - 1]
    BY DEF P
  <1>2. semaphore[s] \in [value : {0, 1}, queue : Seq(Threads)] /\ s \in DOMAIN semaphore
    BY DEF Shape
  <1>3. [semaphore[s] EXCEPT !.value = @ - 1] = [value |-> 0, queue |-> semaphore[s].queue]
    BY <1>2
  <1>4. semaphore' = [semaphore EXCEPT ![s] = [value |-> 0, queue |-> semaphore[s].queue]]
    BY <1>1, <1>2, <1>3
  <1> QED
    BY <1>4 DEF P

LEMMA PSleeps ==
    ASSUME Shape, NEW t \in Threads, NEW s \in Semaphores, NEW c, NEW l, P(t, s, c, l),
           semaphore[s].value = 0, semaphore[s].queue = << >>
    PROVE  /\ pc' = [pc EXCEPT ![t] = l]
           /\ semaphore' = [semaphore EXCEPT ![s] = [value |-> 0, queue |-> <<t>>]]
           /\ asleep' = [asleep EXCEPT ![t] = s]
           /\ clock' = c /\ mode' = "Sleep"
  <1>1. semaphore' = [semaphore EXCEPT ![s].queue = Append(@, t)]
    BY DEF P
  <1>2. semaphore[s] \in [value : {0, 1}, queue : Seq(Threads)] /\ s \in DOMAIN semaphore
    BY DEF Shape
  <1>3. Append(<< >>, t) = <<t>>
    OBVIOUS
  <1>4. [semaphore[s] EXCEPT !.queue = Append(@, t)] = [value |-> 0, queue |-> <<t>>]
    BY <1>2, <1>3
  <1>5. semaphore' = [semaphore EXCEPT ![s] = [value |-> 0, queue |-> <<t>>]]
    BY <1>1, <1>2, <1>4
  <1> QED
    BY <1>5 DEF P

LEMMA EnableStays ==
    ASSUME NEW c \in Clock, Enable(c)
    PROVE  /\ clock' \in Clock /\ mode' = "Tick"
           /\ \A ty : Stays(c.pending, clock'.pending, ty)
  BY EnableKeeps DEF Stays

LEMMA ResumeStep == ASSUME Sound, Resume PROVE Sound'
  <1> USE DEF Sound
  <1> DEFINE t == currentThread
             s == asleep[t]
  <1>1. /\ mode = "Switched" /\ t \in Threads /\ Able(t)
        /\ UNCHANGED <<yieldOnReturn, currentThread, readyList, lock, disk, call, console, unechoed>>
    BY DEF Resume, Shape, Able, Awake, processor, devices
  <1>2. clock \in Clock /\ s \in Semaphores \cup {"lock", None} /\ DOMAIN semaphore = Semaphores
    BY <1>1 DEF Shape
  <1>3. pc[t] # "Finished"
    BY <1>1 DEF ThreadsSound
  <1>4. s \in Semaphores => semaphore[s].value = 1
    BY <1>1, Constants DEF Parts, DiskSound, KeyboardSound, DisplaySound, Semaphores
  <1>5. /\ Enable(clock) /\ pc' = pc /\ asleep' = [asleep EXCEPT ![t] = None]
        /\ s \in Semaphores =>
              semaphore' = [semaphore EXCEPT ![s] = [value |-> 0, queue |-> semaphore[s].queue]]
        /\ s \notin Semaphores => semaphore' = semaphore
    <2>1. CASE s \in Semaphores
      <3>1. P(t, s, clock, pc[t])
        BY <1>2, <2>1 DEF Resume
      <3>2. /\ pc' = [pc EXCEPT ![t] = pc[t]]
            /\ semaphore' = [semaphore EXCEPT ![s] = [value |-> 0, queue |-> semaphore[s].queue]]
            /\ asleep' = [asleep EXCEPT ![t] = None]
            /\ Enable(clock)
        BY <1>1, <1>4, <2>1, <3>1, PTakes
      <3>3. pc' = pc
        BY <1>1, <3>2 DEF Shape
      <3> QED
        BY <2>1, <3>2, <3>3
    <2>2. CASE s \notin Semaphores
      BY <1>2, <2>2 DEF Resume
    <2> QED
      BY <2>1, <2>2
  <1>6. clock' \in Clock /\ mode' = "Tick" /\ \A ty : Stays(clock.pending, clock'.pending, ty)
    BY <1>2, <1>5, EnableStays
  <1>7. ThreadsSound' /\ \A u \in Threads : Able(u)' <=> Able(u)
    BY <1>1, <1>3, <1>5, <1>6, GoesOn DEF processor
  <1>8. /\ asleep' \in [Threads -> Semaphores \cup {"lock", None}]
        /\ asleep'[t] = None /\ \A u \in Threads \ {t} : asleep'[u] = asleep[u]
    BY <1>1, <1>5 DEF Shape
  <1>9. /\ semaphore' \in [Semaphores -> [value : {0, 1}, queue : Seq(Threads)]]
        /\ \A r \in Semaphores : r # s => semaphore'[r] = semaphore[r]
        /\ s \in Semaphores => semaphore'[s] = [value |-> 0, queue |-> semaphore[s].queue]
    <2>1. CASE s \in Semaphores
      BY <1>5, <2>1, SemaphoreTyped
    <2>2. CASE s \notin Semaphores
      BY <1>5, <2>2 DEF Shape
    <2> QED
      BY <2>1, <2>2
  <1> HIDE DEF s
  <1>10. Shape'
    BY <1>1, <1>5, <1>6, <1>8, <1>9 DEF Shape, Modes
  <1>11. /\ "disk" \in Semaphores /\ "readAvail" \in Semaphores /\ "writeDone" \in Semaphores
         /\ s = asleep[t]
    BY DEF Semaphores, s
  <1>12. LockSound'
    BY <1>1, <1>5, <1>7, <1>8, Constants DEF Parts, LockSound
  <1>13. DiskSound'
    <2>1. CASE s = "disk"
      <3>1. t = lock.owner /\ ~disk.active /\ lock.owner \in DiskThreads
        BY <1>1, <1>11, <2>1, Constants DEF Parts, DiskSound, Shape
      <3>2. \A u \in Threads : asleep'[u] # "disk"
        BY <1>8, <1>11, <2>1, <3>1, Constants DEF Parts, DiskSound
      <3>3. semaphore'["disk"].value = 0 /\ semaphore'["disk"].queue = << >>
        BY <1>9, <1>11, <2>1, <3>1 DEF Parts, DiskSound
      <3> QED
        BY <1>1, <1>6, <3>1, <3>2, <3>3 DEF Parts, DiskSound, Stays
    <2>2. CASE s # "disk"
      <3>1. lock.owner # None => lock.owner \in Threads
        BY Constants DEF Shape
      <3>2. semaphore'["disk"] = semaphore["disk"]
        BY <1>9, <1>11, <2>2
      <3>3. \A u \in Threads : asleep'[u] = "disk" <=> asleep[u] = "disk"
        BY <1>8, <1>11, <2>2, Constants
      <3> QED
        BY <1>1, <1>5, <1>6, <1>7, <3>1, <3>2, <3>3 DEF Parts, DiskSound, Stays
    <2> QED
      BY <2>1, <2>2
  <1>14. KeyboardSound'
    <2>1. CASE s = "readAvail"
      <3>1. /\ t \in EchoThreads /\ pc[t] = "Echo"
            /\ semaphore["readAvail"].value = 1 /\ semaphore["readAvail"].queue = << >>
            /\ console.incoming # None
        BY <1>1, <1>4, <1>11, <2>1 DEF Parts, KeyboardSound
      <3>2. \A u \in Threads : asleep'[u] # "readAvail"
        BY <1>8, <1>11, <2>1, <3>1, Constants DEF Parts, KeyboardSound
      <3> QED
        BY <1>1, <1>5, <1>6, <1>8, <1>9, <1>11, <2>1, <3>1, <3>2 DEF Parts, KeyboardSound, CharactersKept, Stays
    <2>2. CASE s # "readAvail"
      <3>1. semaphore'["readAvail"] = semaphore["readAvail"]
        BY <1>9, <1>11, <2>2
      <3>2. \A u \in Threads : asleep'[u] = "readAvail" <=> asleep[u] = "readAvail"
        BY <1>8, <1>11, <2>2, Constants
      <3>3. ASSUME NEW u \in EchoThreads, pc[u] = "Echo", asleep'[u] = None
            PROVE  asleep[u] = None
        <4>1. CASE u # t
          BY <1>8, <3>3, <4>1, Constants
        <4>2. CASE u = t
          <5>1. s \notin {"disk", "lock", "writeDone"}
            BY <1>11, <3>3, <4>2, Constants DEF Parts, LockSound, DiskSound, DisplaySound, Shape
          <5> QED
            BY <1>2, <1>11, <2>2, <4>2, <5>1 DEF s, Semaphores
        <4> QED
          BY <4>1, <4>2
      <3> QED
        BY <1>1, <1>5, <1>6, <1>7, <3>1, <3>2, <3>3, Constants DEF Parts, KeyboardSound, CharactersKept, Stays
    <2> QED
      BY <2>1, <2>2
  <1>15. DisplaySound'
    <2>1. CASE s = "writeDone"
      <3>1. /\ t \in EchoThreads
            /\ semaphore["writeDone"].value = 1 /\ semaphore["writeDone"].queue = << >>
            /\ ~console.putBusy
        BY <1>1, <1>4, <1>11, <2>1 DEF Parts, DisplaySound
      <3>2. \A u \in Threads : asleep'[u] # "writeDone"
        BY <1>8, <1>11, <2>1, <3>1, Constants DEF Parts, DisplaySound
      <3> QED
        BY <1>1, <1>6, <1>9, <1>11, <2>1, <3>1, <3>2 DEF Parts, DisplaySound, Stays
    <2>2. CASE s # "writeDone"
      <3>1. semaphore'["writeDone"] = semaphore["writeDone"]
        BY <1>9, <1>11, <2>2
      <3>2. \A u \in Threads : asleep'[u] = "writeDone" <=> asleep[u] = "writeDone"
        BY <1>8, <1>11, <2>2, Constants
      <3> QED
        BY <1>1, <1>5, <1>6, <1>7, <3>1, <3>2, Constants DEF Parts, DisplaySound, Stays
    <2> QED
      BY <2>1, <2>2
  <1>16. HaltsAtTheEnd'
    BY <1>6 DEF HaltsAtTheEnd
  <1> QED
    BY <1>7, <1>10, <1>12, <1>13, <1>14, <1>15, <1>16 DEF Parts

LEMMA Runner ==
    ASSUME Sound, NEW t \in Threads, Running(t)
    PROVE  /\ t = currentThread /\ mode = "Running" /\ asleep[t] = None /\ Able(t)
           /\ ~Queued(readyList, t) /\ Awake
           /\ ~Queued(lock.queue, t)
           /\ t = lock.owner => ~disk.active /\ semaphore["disk"].value = 0
  <1>1. t = currentThread /\ mode = "Running" /\ Able(t) /\ Awake
    BY DEF Running, Able, Awake
  <1>2. asleep[t] = None /\ ~Queued(readyList, t)
    BY <1>1 DEF Sound, ThreadsSound
  <1>3. ~Queued(lock.queue, t)
    <2>1. \A u : Queued(lock.queue, u) => u \in DiskThreads
      BY DEF Sound, Shape, Queued
    <2> QED
      BY <1>2, <2>1, Constants DEF Sound, Parts, LockSound
  <1>4. t = lock.owner => ~disk.active /\ semaphore["disk"].value = 0
    <2>1. semaphore["disk"].value \in {0, 1}
      BY SemaphoreTyped DEF Sound, Semaphores
    <2> QED
      BY <1>2, <2>1, Constants DEF Sound, Parts, DiskSound, Semaphores
  <1> QED
    BY <1>1, <1>2, <1>3, <1>4

LEMMA StartCallStep == ASSUME Sound, NEW t \in Threads, StartCall(t) PROVE Sound'
  <1> USE DEF Sound
  <1>1. /\ Running(t) /\ pc[t] = "Idle" /\ t \in DiskThreads
        /\ pc' = [pc EXCEPT ![t] = "Request"]
        /\ UNCHANGED <<yieldOnReturn, currentThread, readyList, semaphore, disk, console, unechoed>>
    BY DEF StartCall, processor
  <1>2. PICK q \in Calls : call' = [call EXCEPT ![t] = q]
    BY DEF StartCall, Calls
  <1>3. /\ t = currentThread /\ mode = "Running" /\ asleep[t] = None /\ Able(t)
        /\ ~Queued(lock.queue, t) /\ t # lock.owner
    BY <1>1, Runner DEF Parts, LockSound
  <1>4. pc'[t] = "Request" /\ \A u \in Threads \ {t} : pc'[u] = pc[u]
    BY <1>1 DEF Shape
  <1>5. call'[t] # None /\ \A u \in Threads \ {t} : call'[u] = call[u]
    BY <1>2, Constants DEF Shape
  <1>6. lock \in [owner : DiskThreads \cup {None}, queue : Seq(DiskThreads)] /\ clock \in Clock
    BY DEF Shape
  <1>7. CASE lock.owner = None
    <2>1. /\ lock' = [lock EXCEPT !.owner = t] /\ Enable(clock) /\ asleep' = asleep
      BY <1>7 DEF StartCall
    <2>2. clock' \in Clock /\ mode' = "Tick" /\ \A ty : Stays(clock.pending, clock'.pending, ty)
      BY <1>6, <2>1, EnableStays
    <2>3. asleep' = [asleep EXCEPT ![currentThread] = None]
      BY <1>3, <2>1 DEF Shape
    <2>4. ThreadsSound' /\ \A u \in Threads : Able(u)' <=> Able(u)
      BY <1>1, <1>3, <1>4, <2>2, <2>3, GoesOn DEF processor
    <2>5. lock'.owner = t /\ lock'.queue = lock.queue /\ lock' \in [owner : DiskThreads \cup {None}, queue : Seq(DiskThreads)]
      BY <1>1, <1>6, <2>1
    <2>6. Shape'
      BY <1>1, <1>2, <1>4, <1>5, <2>1, <2>2, <2>5, Constants DEF Shape, Modes, DiskSteps
    <2>7. LockSound'
      <3>1. lock.queue = << >>
        BY <1>7 DEF Parts, LockSound
      <3>2. \A u \in DiskThreads : ~Queued(lock.queue, u)
        BY <1>6, <3>1, QueueEmpty
      <3> QED
        BY <1>1, <1>3, <1>4, <1>7, <2>1, <2>4, <2>5, <3>1, <3>2, Constants DEF Parts, LockSound
    <2>8. DiskSound'
      <3>1. /\ ~disk.active /\ semaphore["disk"].queue = << >> /\ Lacks(clock.pending, "Disk")
            /\ semaphore["disk"].value = 0 /\ \A u \in Threads : asleep[u] # "disk"
        <4>1. semaphore["disk"].value \in {0, 1}
          BY SemaphoreTyped DEF Sound, Semaphores
        <4> QED
          BY <1>7, <4>1, Constants DEF Parts, DiskSound
      <3> QED
        BY <1>1, <2>1, <2>2, <3>1 DEF DiskSound, Stays
    <2>9. \A u \in EchoThreads : u \in Threads \ {t}
      BY <1>1, Constants
    <2>10. KeyboardSound'
      BY <1>1, <1>4, <2>1, <2>2, <2>4, <2>9, Sleepers, KeyboardFrame DEF Parts
    <2>11. DisplaySound'
      BY <1>1, <1>4, <2>1, <2>2, <2>4, <2>9, Sleepers, DisplayFrame DEF Parts
    <2>12. HaltsAtTheEnd'
      BY <2>2 DEF HaltsAtTheEnd
    <2> QED
      BY <2>4, <2>6, <2>7, <2>8, <2>10, <2>11, <2>12 DEF Parts
  <1>8. CASE lock.owner # None
    <2>1. /\ lock' = [lock EXCEPT !.queue = Append(@, t)] /\ asleep' = [asleep EXCEPT ![t] = "lock"]
          /\ mode' = "Sleep" /\ clock' = clock
      BY <1>8 DEF StartCall
    <2>2. /\ asleep'[t] = "lock" /\ \A u \in Threads \ {t} : asleep'[u] = asleep[u]
          /\ asleep' \in [Threads -> Semaphores \cup {"lock", None}]
      BY <2>1 DEF Shape
    <2>3. /\ ThreadsSound' /\ ~Able(t)'
          /\ \A u \in Threads : Able(u)' <=> Able(u) /\ u # t
      BY <1>1, <1>3, <1>4, <2>1, <2>2, GoesToSleep, Constants DEF processor
    <2>4. /\ lock'.owner = lock.owner /\ lock'.queue = Append(lock.queue, t)
          /\ lock'.queue \in Seq(DiskThreads) /\ Distinct(lock'.queue) /\ lock'.queue # << >>
          /\ \A u \in DiskThreads : Queued(lock'.queue, u) <=> Queued(lock.queue, u) \/ u = t
      BY <1>1, <1>3, <1>6, <2>1, QueueAppend DEF Parts, LockSound
    <2>5. lock' \in [owner : DiskThreads \cup {None}, queue : Seq(DiskThreads)]
      BY <1>6, <2>1, <2>4
    <2>6. Shape'
      BY <1>1, <1>2, <1>4, <1>5, <2>1, <2>2, <2>5, Constants DEF Shape, Modes, DiskSteps
    <2>7. LockSound'
      <3>1. lock.owner \in DiskThreads
        BY <1>6, <1>8
      <3> QED
        BY <1>1, <1>3, <1>4, <1>8, <2>2, <2>3, <2>4, <3>1, Constants DEF Parts, LockSound
    <2>8. DiskSound'
      <3>1. lock.owner # t /\ lock.owner \in Threads \ {t}
        BY <1>3, <1>6, <1>8, Constants
      <3>2. \A u \in Threads : asleep'[u] = "disk" <=> asleep[u] = "disk"
        BY <1>3, <2>2, Constants DEF Semaphores
      <3> QED
        BY <1>1, <1>4, <2>1, <2>2, <2>3, <2>4, <3>1, <3>2 DEF Parts, DiskSound
    <2>9. \A u \in EchoThreads : u \in Threads \ {t}
      BY <1>1, Constants
    <2>10. KeyboardSound'
      BY <1>1, <1>4, <2>1, <2>2, <2>3, <2>9, NothingNew, Sleepers, KeyboardFrame DEF Parts, SameToCome, Types
    <2>11. DisplaySound'
      BY <1>1, <1>4, <2>1, <2>2, <2>3, <2>9, NothingNew, Sleepers, DisplayFrame DEF Parts, SameToCome, Types
    <2>12. HaltsAtTheEnd'
      BY <2>1 DEF HaltsAtTheEnd
    <2> QED
      BY <2>3, <2>6, <2>7, <2>8, <2>10, <2>11, <2>12 DEF Parts
  <1> QED
    BY <1>7, <1>8

LEMMA Product == \A a, b \in Nat : a * b \in Nat
  OBVIOUS

LEMMA NatQuotient == \A a \in Nat, b \in Nat \ {0} : a \div b \in Nat
  OBVIOUS

(* The times of a request. *)
LEMMA Times ==
    ASSUME Shape, NEW s \in RequestSectors \cup {0}
    PROVE  /\ Seek(s) \in Nat
           /\ Rotation(s) \in 0..(RotationTime - 1)
           /\ TimeAfter(s) \in Nat
           /\ \A i \in Int : ModuloDiff(s, i) \in 0..(SectorsPerTrack - 1)
  <1>1. /\ SectorsPerTrack \in Nat \ {0} /\ RotationTime \in Nat \ {0} /\ SeekTime \in Nat
        /\ s \in Nat /\ disk.lastSector \in Nat
    <2>1. SectorsPerTrack \in Nat \ {0} /\ RotationTime \in Nat \ {0} /\ SeekTime \in Nat
      BY DEF DevicesAssumption
    <2>2. RequestSectors \cup {0} \subseteq Nat
      BY DEF DevicesAssumption
    <2>3. disk.lastSector \in RequestSectors \cup {0}
      BY DEF Shape
    <2> QED
      BY <2>1, <2>2, <2>3
  <1>2. clock.now \in Nat
    BY RevolutionPositive DEF Shape, Clock
  <1>3. Track(s) \in Nat /\ Track(disk.lastSector) \in Nat
    BY <1>1, NatQuotient DEF Track
  <1>4. Distance(Track(s), Track(disk.lastSector)) \in Nat
    BY <1>3 DEF Distance
  <1>5. Seek(s) \in Nat
    BY <1>1, <1>4, Product DEF Seek
  <1>6. Rotation(s) \in 0..(RotationTime - 1)
    <2>1. -(clock.now + Seek(s)) \in Int
      BY <1>2, <1>5
    <2> QED
      BY <1>1, <2>1, RestBound DEF Rotation
  <1>7. TimeAfter(s) \in Nat
    BY <1>1, <1>2, <1>5, <1>6 DEF TimeAfter
  <1>8. ASSUME NEW i \in Int PROVE ModuloDiff(s, i) \in 0..(SectorsPerTrack - 1)
    <2>1. s - i \in Int
      BY <1>1
    <2> QED
      BY <1>1, <2>1, RestBound DEF ModuloDiff
  <1> QED
    BY <1>5, <1>6, <1>7, <1>8

LEMMA LatencyTyped ==
    ASSUME Shape, NEW s \in RequestSectors, NEW w
    PROVE  /\ ComputeLatency(s, w) \in Int
           /\ UpdateLast(clock, s) \in Clock
           /\ UpdateLast(clock, s).pending = clock.pending
           /\ UpdateLast(clock, s).now = clock.now
  <1>1. /\ Seek(s) \in Nat /\ Rotation(s) \in Nat /\ TimeAfter(s) \in Nat
        /\ RotationTime \in Nat \ {0} /\ clock \in Clock
    BY Times DEF DevicesAssumption, Shape
  <1>2. TimeAfter(s) \div RotationTime \in Int
    BY <1>1, NatQuotient
  <1>3. ModuloDiff(s, TimeAfter(s) \div RotationTime) \in Nat
    <2>1. \A i \in Int : ModuloDiff(s, i) \in 0..(SectorsPerTrack - 1)
      BY Times
    <2>2. SectorsPerTrack \in Nat
      BY DEF DevicesAssumption
    <2> QED
      BY <1>2, <2>1, <2>2
  <1>4. ModuloDiff(s, TimeAfter(s) \div RotationTime) * RotationTime \in Nat
    BY <1>1, <1>3, Product
  <1>5. ComputeLatency(s, w) \in Int
    BY <1>1, <1>4 DEF ComputeLatency
  <1>6. -(Seek(s) + Rotation(s)) \in Int
    BY <1>1
  <1> QED
    BY <1>1, <1>5, <1>6 DEF UpdateLast, Clock

LEMMA RequestStep == ASSUME Sound, NEW t \in Threads, Request(t) PROVE Sound'
  <1> USE DEF Sound
  <1> DEFINE r == call[t]
             c == UpdateLast(clock, r.sector)
             d == ComputeLatency(r.sector, r.writing)
  <1>1. /\ Running(t) /\ pc[t] = "Request"
        /\ P(t, "disk", Schedule(c, "Disk", d), "Release")
        /\ UNCHANGED <<yieldOnReturn, currentThread, readyList, lock, console, unechoed>>
    BY DEF Request, processor
  <1>2. t \in DiskThreads /\ r \in Calls /\ r.sector \in RequestSectors
    <2>1. t \in DiskThreads
      BY <1>1, Constants DEF Shape, EchoSteps
    <2>2. r \in Calls
      BY <1>1 DEF Shape
    <2> QED
      BY <2>1, <2>2 DEF Calls
  <1>3. /\ t = currentThread /\ mode = "Running" /\ asleep[t] = None /\ Able(t)
        /\ ~Queued(lock.queue, t)
    BY <1>1, Runner
  <1>4. t = lock.owner /\ ~disk.active /\ semaphore["disk"].value = 0
    <2>1. t = lock.owner
      BY <1>1, <1>2, <1>3 DEF Parts, LockSound
    <2> QED
      BY <1>1, <2>1, Runner
  <1>5. semaphore["disk"].queue = << >> /\ Lacks(clock.pending, "Disk")
    BY <1>4 DEF Parts, DiskSound
  <1>6. /\ "disk" \in Semaphores /\ "readAvail" \in Semaphores /\ "writeDone" \in Semaphores
        /\ "disk" # "readAvail" /\ "disk" # "writeDone" /\ "disk" # "lock" /\ "Disk" \in Types
        /\ 0 \in {0, 1} /\ <<t>> \in Seq(Threads) /\ <<t>> # << >>
    BY DEF Semaphores, Types
  <1>7. c \in Clock /\ c.pending = clock.pending /\ d \in Int
    BY <1>2, LatencyTyped
  <1> HIDE DEF c, d
  <1>8. /\ pc' = [pc EXCEPT ![t] = "Release"]
        /\ semaphore' = [semaphore EXCEPT !["disk"] = [value |-> 0, queue |-> <<t>>]]
        /\ asleep' = [asleep EXCEPT ![t] = "disk"]
        /\ clock' = Schedule(c, "Disk", d) /\ mode' = "Sleep"
    BY <1>1, <1>4, <1>5, <1>6, PSleeps
  <1>9. /\ clock' \in Clock /\ One(clock'.pending, "Disk")
        /\ \A ty : ty # "Disk" => Stays(clock.pending, clock'.pending, ty)
    <2>1. /\ clock' \in Clock
          /\ Lacks(c.pending, "Disk") => One(clock'.pending, "Disk")
          /\ \A ty : ty # "Disk" => /\ One(c.pending, ty) => One(clock'.pending, ty)
                                    /\ Lacks(c.pending, ty) => Lacks(clock'.pending, ty)
                                    /\ ~Lacks(c.pending, ty) => ~Lacks(clock'.pending, ty)
      BY <1>6, <1>7, <1>8, ScheduleKeeps
    <2> QED
      BY <1>5, <1>7, <2>1 DEF Stays
  <1>10. /\ pc'[t] = "Release" /\ \A u \in Threads \ {t} : pc'[u] = pc[u]
         /\ asleep'[t] = "disk" /\ \A u \in Threads \ {t} : asleep'[u] = asleep[u]
         /\ asleep' \in [Threads -> Semaphores \cup {"lock", None}]
    BY <1>6, <1>8 DEF Shape
  <1>11. /\ semaphore' \in [Semaphores -> [value : {0, 1}, queue : Seq(Threads)]]
         /\ semaphore'["disk"] = [value |-> 0, queue |-> <<t>>]
         /\ semaphore'["readAvail"] = semaphore["readAvail"]
         /\ semaphore'["writeDone"] = semaphore["writeDone"]
    BY <1>6, <1>8, SemaphoreTyped
  <1>12. /\ ThreadsSound' /\ ~Able(t)'
         /\ \A u \in Threads : Able(u)' <=> Able(u) /\ u # t
    BY <1>1, <1>3, <1>6, <1>8, <1>10, GoesToSleep, Constants DEF processor
  <1>13. disk'.active /\ disk' \in [active: BOOLEAN, lastSector : RequestSectors \cup {0},
                                     store : [RequestSectors -> Values]]
    <2>1. disk.store \in [RequestSectors -> Values] /\ r.data \in Values
      BY <1>2 DEF Shape, Calls
    <2>2. [disk.store EXCEPT ![r.sector] = r.data] \in [RequestSectors -> Values]
      BY <2>1
    <2>3. disk' = [active |-> TRUE, lastSector |-> r.sector,
                   store |-> IF r.writing THEN [disk.store EXCEPT ![r.sector] = r.data]
                             ELSE disk.store]
      BY DEF Request
    <2> QED
      BY <1>2, <2>1, <2>2, <2>3
  <1>14. /\ call' \in [Threads -> Calls \cup {None}]
         /\ call'[t] # None /\ \A u \in Threads \ {t} : call'[u] = call[u]
    <2>1. disk.store[r.sector] \in Values
      BY <1>2 DEF Shape
    <2>2. [r EXCEPT !.data = disk.store[r.sector]] \in Calls
      BY <1>2, <2>1 DEF Calls
    <2>3. call' = call \/ call' = [call EXCEPT ![t] = [r EXCEPT !.data = disk.store[r.sector]]]
      <3>1. call' = IF r.writing THEN call ELSE [call EXCEPT ![t].data = disk.store[r.sector]]
        BY DEF Request
      <3> QED
        BY <3>1
    <2>4. call[t] # None
      BY <1>2, Constants
    <2>5. CASE call' = call
      BY <2>4, <2>5 DEF Shape
    <2>6. CASE call' = [call EXCEPT ![t] = [r EXCEPT !.data = disk.store[r.sector]]]
      <3>1. PICK x \in Calls : x = [r EXCEPT !.data = disk.store[r.sector]]
        BY <2>2
      <3>2. call' = [call EXCEPT ![t] = x] /\ x # None
        BY <2>6, <3>1, Constants
      <3> QED
        BY <3>2 DEF Shape
    <2> QED
      BY <2>3, <2>5, <2>6
  <1>15. Shape'
    BY <1>1, <1>2, <1>8, <1>9, <1>10, <1>11, <1>13, <1>14, Constants DEF Shape, Modes, DiskSteps
  <1>16. LockSound'
    BY <1>1, <1>3, <1>4, <1>6, <1>10, <1>12, Constants DEF Parts, LockSound
  <1>17. DiskSound'
    <2>1. \A u \in Threads \ {t} : asleep'[u] # "disk"
      BY <1>4, <1>10 DEF Parts, DiskSound
    <2> QED
      BY <1>1, <1>2, <1>4, <1>9, <1>10, <1>11, <1>12, <1>13, <2>1, Constants DEF DiskSound
  <1>18. \A u \in EchoThreads : u \in Threads \ {t}
    BY <1>2, Constants
  <1>19. KeyboardSound'
    BY <1>1, <1>3, <1>6, <1>9, <1>10, <1>11, <1>12, <1>18, Sleepers, KeyboardFrame DEF Parts
  <1>20. DisplaySound'
    BY <1>1, <1>3, <1>6, <1>9, <1>10, <1>11, <1>12, <1>18, Sleepers, DisplayFrame DEF Parts
  <1>21. HaltsAtTheEnd'
    BY <1>8 DEF HaltsAtTheEnd
  <1> QED
    BY <1>12, <1>15, <1>16, <1>17, <1>19, <1>20, <1>21 DEF Parts

LEMMA ReleaseStep == ASSUME Sound, NEW t \in Threads, Release(t) PROVE Sound'
  <1> USE DEF Sound
  <1>1. /\ Running(t) /\ pc[t] = "Release" /\ Enable(clock)
        /\ pc' = [pc EXCEPT ![t] = "Idle"] /\ call' = [call EXCEPT ![t] = None]
        /\ UNCHANGED <<yieldOnReturn, currentThread, asleep, semaphore, disk, console, unechoed>>
    BY DEF Release
  <1>2. t \in DiskThreads
    BY <1>1, Constants DEF Shape, EchoSteps
  <1>3. /\ t = currentThread /\ mode = "Running" /\ asleep[t] = None /\ Able(t) /\ Awake
        /\ ~Queued(lock.queue, t) /\ ~Queued(readyList, t)
    BY <1>1, Runner
  <1>4. t = lock.owner /\ ~disk.active /\ semaphore["disk"].value = 0
    <2>1. t = lock.owner
      BY <1>1, <1>2, <1>3 DEF Parts, LockSound
    <2> QED
      BY <1>1, <2>1, Runner
  <1>5. /\ semaphore["disk"].queue = << >> /\ Lacks(clock.pending, "Disk")
        /\ \A u \in Threads : asleep[u] # "disk"
    BY <1>4 DEF Parts, DiskSound
  <1>6. clock' \in Clock /\ mode' = "Tick" /\ \A ty : Stays(clock.pending, clock'.pending, ty)
    BY <1>1, EnableStays DEF Shape
  <1>7. pc'[t] = "Idle" /\ \A u \in Threads \ {t} : pc'[u] = pc[u]
    BY <1>1 DEF Shape
  <1>8. call'[t] = None /\ \A u \in Threads \ {t} : call'[u] = call[u]
    BY <1>1 DEF Shape
  <1>9. DiskSound'
    BY <1>1, <1>4, <1>5, <1>6 DEF DiskSound, Stays
  <1>10. \A u \in EchoThreads : u \in Threads \ {t}
    BY <1>2, Constants
  <1>11. lock.owner \in DiskThreads \cup {None} /\ lock.queue \in Seq(DiskThreads) /\ Distinct(lock.queue)
    BY DEF Shape, Parts, LockSound
  <1>12. HaltsAtTheEnd'
    BY <1>6 DEF HaltsAtTheEnd
  <1>13. asleep' = [asleep EXCEPT ![currentThread] = None]
    BY <1>1, <1>3 DEF Shape
  <1>14. CASE lock.queue = << >>
    <2>1. lock' = [lock EXCEPT !.owner = None] /\ readyList' = readyList
      BY <1>14 DEF Release
    <2>2. ThreadsSound' /\ \A u \in Threads : Able(u)' <=> Able(u)
      BY <1>1, <1>3, <1>6, <1>7, <1>13, <2>1, GoesOn DEF processor
    <2>3. lock' = [owner |-> None, queue |-> << >>] /\ << >> \in Seq(DiskThreads)
      BY <1>14, <2>1 DEF Shape
    <2>4. Shape'
      BY <1>1, <1>2, <1>6, <1>7, <1>8, <2>1, <2>3, Constants DEF Shape, Modes, DiskSteps
    <2>5. LockSound'
      <3>1. \A u \in DiskThreads : ~Queued(lock.queue, u)
        BY <1>11, <1>14, QueueEmpty
      <3>2. \A u : ~Queued(<< >>, u)
        BY DEF Queued
      <3>3. Distinct(<< >>)
        BY DEF Distinct
      <3> QED
        BY <1>1, <1>3, <1>4, <1>7, <2>3, <3>1, <3>2, <3>3, Constants DEF Parts, LockSound
    <2>6. KeyboardSound'
      BY <1>1, <1>6, <1>7, <1>10, <2>2, Sleepers, KeyboardFrame DEF Parts
    <2>7. DisplaySound'
      BY <1>1, <1>6, <1>7, <1>10, <2>2, Sleepers, DisplayFrame DEF Parts
    <2> QED
      BY <1>9, <1>12, <2>2, <2>4, <2>5, <2>6, <2>7 DEF Parts
  <1>15. CASE lock.queue # << >>
    <2> DEFINE w == Head(lock.queue)
    <2>1. /\ lock' = [owner |-> w, queue |-> Tail(lock.queue)]
          /\ readyList' = Append(readyList, w)
      BY <1>15 DEF Release
    <2>2. /\ w \in DiskThreads /\ Tail(lock.queue) \in Seq(DiskThreads)
          /\ Queued(lock.queue, w) /\ Distinct(Tail(lock.queue))
          /\ \A u \in DiskThreads : Queued(Tail(lock.queue), u) <=> Queued(lock.queue, u) /\ u # w
      BY <1>11, <1>15, QueueTail
    <2> HIDE DEF w
    <2>3. w \in Threads /\ w # t /\ asleep[w] = "lock" /\ ~Able(w) /\ pc[w] = "Request"
      BY <1>3, <2>2, Constants DEF Parts, LockSound
    <2>4. /\ readyList' \in Seq(Threads) /\ Distinct(readyList')
          /\ \A u \in Threads : Queued(readyList', u) <=> Queued(readyList, u) \/ u = w
      BY <2>1, <2>3, QueueAppend DEF Shape, ThreadsSound, Able
    <2>5. \A u \in Threads : Able(u)' <=> Able(u) \/ u = w
      BY <1>1, <1>3, <1>6, <2>4 DEF Able, Awake
    <2>6. ThreadsSound'
      BY <1>1, <1>3, <1>6, <1>7, <2>3, <2>4, <2>5, Constants DEF ThreadsSound, Awake
    <2>7. lock'.owner = w /\ lock'.queue = Tail(lock.queue)
      BY <2>1
    <2>8. Shape'
      BY <1>1, <1>2, <1>6, <1>7, <1>8, <2>1, <2>2, <2>4, Constants DEF Shape, Modes, DiskSteps
    <2>9. LockSound'
      BY <1>1, <1>3, <1>4, <1>7, <2>2, <2>3, <2>5, <2>7, Constants DEF Parts, LockSound
    <2>10. \A u \in EchoThreads : Able(u)' <=> Able(u)
      BY <2>2, <2>5, Constants
    <2>11. KeyboardSound'
      BY <1>1, <1>6, <1>7, <1>10, <2>10, Sleepers, KeyboardFrame DEF Parts
    <2>12. DisplaySound'
      BY <1>1, <1>6, <1>7, <1>10, <2>10, Sleepers, DisplayFrame DEF Parts
    <2> QED
      BY <1>9, <1>12, <2>6, <2>8, <2>9, <2>11, <2>12 DEF Parts
  <1> QED
    BY <1>14, <1>15

LEMMA FinishStep == ASSUME Sound, NEW t \in Threads, Finish(t) PROVE Sound'
  <1> USE DEF Sound
  <1>1. /\ Running(t)
        /\ pc[t] = "Return" \/ (pc[t] = "Idle" /\ t \in DiskThreads)
        /\ pc' = [pc EXCEPT ![t] = "Finished"] /\ mode' = "Sleep"
        /\ UNCHANGED <<clock, yieldOnReturn, processor, asleep, semaphore, lock, disk, call, console, unechoed>>
    BY DEF Finish, devices
  <1>2. /\ t = currentThread /\ mode = "Running" /\ asleep[t] = None /\ Able(t)
        /\ ~Queued(lock.queue, t)
    BY <1>1, Runner DEF Finish
  <1>3. pc'[t] = "Finished" /\ \A u \in Threads \ {t} : pc'[u] = pc[u]
    BY <1>1 DEF Shape
  <1>4. /\ ThreadsSound' /\ ~Able(t)'
        /\ \A u \in Threads : Able(u)' <=> Able(u) /\ u # t
    BY <1>1, <1>2, <1>3, GoesToSleep
  <1>5. Shape'
    BY <1>1, <1>3 DEF Shape, Modes, DiskSteps, EchoSteps, processor
  <1>6. t # lock.owner
    <2>1. lock.owner = t => t \in DiskThreads /\ pc[t] \in {"Request", "Release"}
      BY <1>2, Constants DEF Parts, LockSound, Shape
    <2> QED
      BY <1>1, <2>1
  <1>7. LockSound'
    BY <1>1, <1>2, <1>3, <1>4, <1>6, Constants DEF Parts, LockSound
  <1>8. \A ty : Stays(clock.pending, clock'.pending, ty)
    BY <1>1 DEF Stays
  <1>9. DiskSound'
    <2>1. lock.owner # None => lock.owner \in Threads \ {t}
      BY <1>6, Constants DEF Shape
    <2> QED
      BY <1>1, <1>2, <1>3, <1>4, <2>1, Constants DEF Parts, DiskSound, Semaphores
  <1>10. KeyboardSound'
    BY <1>1, <1>2, <1>3, <1>4, Constants DEF Parts, KeyboardSound, CharactersKept, Semaphores
  <1>11. DisplaySound'
    BY <1>1, <1>2, <1>3, <1>4, Constants DEF Parts, DisplaySound, Semaphores
  <1>12. HaltsAtTheEnd'
    BY <1>1 DEF HaltsAtTheEnd
  <1> QED
    BY <1>4, <1>5, <1>7, <1>9, <1>10, <1>11, <1>12 DEF Parts

(* The thread that echoes runs: it sleeps on neither semaphore of the console. *)
LEMMA EchoRuns ==
    ASSUME Sound, NEW t \in EchoThreads, Running(t)
    PROVE  /\ t \in Threads /\ t \notin DiskThreads
           /\ semaphore["readAvail"].queue = << >>
           /\ ~console.putBusy /\ Lacks(clock.pending, "ConsoleWrite")
           /\ semaphore["writeDone"].value = 0 /\ semaphore["writeDone"].queue = << >>
           /\ \A u \in Threads : asleep[u] \notin {"readAvail", "writeDone"}
  <1> USE DEF Sound
  <1>1. t \in Threads /\ t \notin DiskThreads /\ asleep[t] = None
    BY Runner, Constants
  <1>2. \A u \in EchoThreads : asleep[u] = None
    BY <1>1, Constants
  <1>3. \A u \in Threads : asleep[u] \notin {"readAvail", "writeDone"}
    BY <1>2, Sleepers, Constants DEF Semaphores
  <1>4. semaphore["writeDone"].value \in {0, 1}
    BY SemaphoreTyped DEF Semaphores
  <1>5. semaphore["readAvail"].queue = << >>
    BY <1>3, Constants DEF Parts, KeyboardSound
  <1>6. semaphore["writeDone"].queue = << >> /\ semaphore["writeDone"].value # 1
    BY <1>3, Constants DEF Parts, DisplaySound
  <1>7. ~console.putBusy /\ Lacks(clock.pending, "ConsoleWrite")
    BY <1>6 DEF Parts, DisplaySound
  <1> QED
    BY <1>1, <1>3, <1>4, <1>5, <1>6, <1>7

LEMMA AwaitCharStep == ASSUME Sound, NEW t \in Threads, AwaitChar(t) PROVE Sound'
  <1> USE DEF Sound
  <1>1. /\ Running(t) /\ pc[t] = "Idle" /\ t \in EchoThreads
        /\ P(t, "readAvail", clock, "Echo")
        /\ UNCHANGED <<yieldOnReturn, currentThread, readyList, lock, disk, call, console, unechoed>>
    BY DEF AwaitChar, processor, devices
  <1>2. /\ t = currentThread /\ mode = "Running" /\ asleep[t] = None /\ Able(t)
    BY <1>1, Runner
  <1>3. /\ t \notin DiskThreads /\ semaphore["readAvail"].queue = << >>
        /\ ~console.putBusy /\ Lacks(clock.pending, "ConsoleWrite")
        /\ semaphore["writeDone"].value = 0 /\ semaphore["writeDone"].queue = << >>
        /\ \A u \in Threads : asleep[u] \notin {"readAvail", "writeDone"}
    BY <1>1, EchoRuns
  <1>4. /\ "disk" \in Semaphores /\ "readAvail" \in Semaphores /\ "writeDone" \in Semaphores
        /\ "disk" # "readAvail" /\ "readAvail" # "writeDone" /\ "readAvail" # "lock"
        /\ 0 \in {0, 1} /\ <<t>> \in Seq(Threads) /\ << >> \in Seq(Threads) /\ <<t>> # << >>
    BY DEF Semaphores
  <1>5. semaphore["readAvail"].value \in {0, 1} /\ clock \in Clock
    BY <1>4, SemaphoreTyped DEF Shape
  <1>6. \A u \in EchoThreads : u = t
    BY <1>1, Constants
  <1>7. pc'[t] = "Echo" /\ \A u \in Threads \ {t} : pc'[u] = pc[u]
    BY <1>1 DEF P, Shape
  <1>8. PICK v \in {None, "readAvail"}, q \in {<< >>, <<t>>} :
            /\ v = None => q = << >> /\ console.incoming # None
                           /\ ThreadsSound' /\ \A u \in Threads : Able(u)' <=> Able(u)
            /\ v # None => q = <<t>> /\ ThreadsSound' /\ ~Able(t)'
                           /\ \A u \in Threads : Able(u)' <=> Able(u) /\ u # t
            /\ asleep' = [asleep EXCEPT ![t] = v]
            /\ semaphore' = [semaphore EXCEPT !["readAvail"] = [value |-> 0, queue |-> q]]
            /\ mode' \in {"Tick", "Sleep"}
            /\ clock' \in Clock /\ \A ty : Stays(clock.pending, clock'.pending, ty)
    <2>1. CASE semaphore["readAvail"].value = 1
      <3>1. /\ semaphore' = [semaphore EXCEPT !["readAvail"] =
                                [value |-> 0, queue |-> semaphore["readAvail"].queue]]
            /\ asleep' = [asleep EXCEPT ![t] = None] /\ Enable(clock)
        BY <1>1, <1>4, <2>1, PTakes
      <3>2. clock' \in Clock /\ mode' = "Tick" /\ \A ty : Stays(clock.pending, clock'.pending, ty)
        BY <1>5, <3>1, EnableStays
      <3>3. ThreadsSound' /\ \A u \in Threads : Able(u)' <=> Able(u)
        BY <1>1, <1>2, <1>7, <3>1, <3>2, GoesOn DEF processor
      <3>4. console.incoming # None
        BY <2>1 DEF Parts, KeyboardSound
      <3> QED
        BY <1>3, <3>1, <3>2, <3>3, <3>4
    <2>2. CASE semaphore["readAvail"].value = 0
      <3>1. /\ semaphore' = [semaphore EXCEPT !["readAvail"] = [value |-> 0, queue |-> <<t>>]]
            /\ asleep' = [asleep EXCEPT ![t] = "readAvail"] /\ clock' = clock /\ mode' = "Sleep"
        BY <1>1, <1>3, <1>4, <2>2, PSleeps
      <3>2. asleep'[t] = "readAvail" /\ \A u \in Threads \ {t} : asleep'[u] = asleep[u]
        BY <3>1 DEF Shape
      <3>3. ThreadsSound' /\ ~Able(t)' /\ \A u \in Threads : Able(u)' <=> Able(u) /\ u # t
        BY <1>1, <1>2, <1>4, <1>7, <3>1, <3>2, GoesToSleep, Constants DEF processor
      <3>4. \A ty : Stays(clock.pending, clock'.pending, ty)
        BY <3>1 DEF Stays
      <3>5. "readAvail" # None
        BY <1>4, Constants
      <3> QED
        BY <1>5, <3>1, <3>3, <3>4, <3>5
    <2> QED
      BY <1>5, <2>1, <2>2
  <1>9. /\ asleep'[t] = v /\ \A u \in Threads \ {t} : asleep'[u] = asleep[u]
        /\ asleep' \in [Threads -> Semaphores \cup {"lock", None}]
    BY <1>4, <1>8 DEF Shape
  <1>10. /\ semaphore' \in [Semaphores -> [value : {0, 1}, queue : Seq(Threads)]]
         /\ semaphore'["readAvail"] = [value |-> 0, queue |-> q]
         /\ semaphore'["disk"] = semaphore["disk"]
         /\ semaphore'["writeDone"] = semaphore["writeDone"]
    <2>1. q \in Seq(Threads)
      BY <1>4
    <2> QED
      BY <1>4, <1>8, <2>1, SemaphoreTyped
  <1>11. Shape'
    <2>1. clock' \in Clock /\ mode' \in Modes
      BY <1>8 DEF Modes
    <2>2. /\ pc' \in [Threads -> DiskSteps \cup EchoSteps]
          /\ \A u \in DiskThreads : pc'[u] \in DiskSteps
          /\ \A u \in EchoThreads : pc'[u] \in EchoSteps
      <3>1. pc' = [pc EXCEPT ![t] = "Echo"] /\ "Echo" \in EchoSteps
        BY <1>1 DEF P, EchoSteps
      <3> QED
        BY <1>3, <1>7, <3>1, Constants DEF Shape
    <2>3. \A u \in Threads : call'[u] # None <=> pc'[u] \in {"Request", "Release"}
      BY <1>1, <1>7 DEF Shape
    <2> QED
      BY <1>1, <1>9, <1>10, <2>1, <2>2, <2>3 DEF Shape
  <1>12. \A u \in DiskThreads : u \in Threads \ {t} /\ (Able(u)' <=> Able(u))
    BY <1>3, <1>8, Constants
  <1>13. \A u \in Threads \ {t} : asleep[u] \in {"lock", "disk"} => u \in DiskThreads
    BY Sleepers
  <1>14. LockSound'
    BY <1>1, <1>4, <1>7, <1>8, <1>9, <1>12, <1>13, LockFrame, Constants DEF Parts
  <1>15. DiskSound'
    <2>1. \A u \in Threads : asleep'[u] = "disk" => u \in DiskThreads
      BY <1>4, <1>8, <1>9, <1>13, Constants
    <2> QED
      BY <1>1, <1>7, <1>8, <1>9, <1>10, <1>12, <2>1, DiskFrame DEF Parts
  <1>16. KeyboardSound'
    <2>1. /\ CharactersKept' /\ console' = console
          /\ \A u \in EchoThreads : pc[u] # "Finished" => ~Lacks(clock.pending, "ConsoleRead")
      BY <1>1 DEF Parts, KeyboardSound, CharactersKept
    <2>2. \A u \in Threads : asleep'[u] = "readAvail" => u = t /\ v # None
      BY <1>3, <1>9, <1>4, Constants
    <2>3. ~Lacks(clock.pending, "ConsoleRead") => ~Lacks(clock'.pending, "ConsoleRead")
      BY <1>8 DEF Stays
    <2>4. v # None => v = "readAvail"
      OBVIOUS
    <2>5. v = None => console'.incoming # None
      BY <1>8, <2>1
    <2>6. v # None => q = <<t>> /\ ~Able(t)'
      BY <1>8
    <2>7. \A u \in EchoThreads : pc[u] # "Finished"
      BY <1>1, <1>6
    <2> QED
      BY <1>1, <1>4, <1>6, <1>7, <1>8, <1>9, <1>10, <2>1, <2>2, <2>3, <2>4, <2>5, <2>6, <2>7
      DEF KeyboardSound
  <1>17. DisplaySound'
    <2>1. \A u \in Threads : asleep'[u] # "writeDone"
      BY <1>3, <1>4, <1>9, Constants DEF Semaphores
    <2>2. Lacks(clock'.pending, "ConsoleWrite")
      BY <1>3, <1>8 DEF Stays
    <2> QED
      BY <1>1, <1>3, <1>10, <2>1, <2>2 DEF DisplaySound
  <1>18. HaltsAtTheEnd'
    BY <1>8 DEF HaltsAtTheEnd
  <1> QED
    BY <1>8, <1>11, <1>14, <1>15, <1>16, <1>17, <1>18 DEF Parts

LEMMA EchoStep == ASSUME Sound, NEW t \in Threads, Echo(t) PROVE Sound'
  <1> USE DEF Sound
  <1> DEFINE d == ConsoleTime
             l == IF console.incoming = Quit THEN "Return" ELSE "Idle"
  <1>1. /\ Running(t) /\ pc[t] = "Echo"
        /\ P(t, "writeDone", Schedule(clock, "ConsoleWrite", d), l)
        /\ console' = PutChar(GetChar(console)) /\ unechoed' = Tail(unechoed)
        /\ UNCHANGED <<yieldOnReturn, currentThread, readyList, lock, disk, call>>
    BY DEF Echo, processor
  <1>2. /\ t = currentThread /\ mode = "Running" /\ asleep[t] = None /\ Able(t)
    BY <1>1, Runner
  <1>3. t \in EchoThreads
    BY <1>1, Constants DEF Shape, DiskSteps
  <1>4. /\ t \notin DiskThreads /\ semaphore["readAvail"].queue = << >>
        /\ ~console.putBusy /\ Lacks(clock.pending, "ConsoleWrite")
        /\ semaphore["writeDone"].value = 0 /\ semaphore["writeDone"].queue = << >>
        /\ \A u \in Threads : asleep[u] \notin {"readAvail", "writeDone"}
    BY <1>1, <1>3, EchoRuns
  <1>5. /\ "disk" \in Semaphores /\ "readAvail" \in Semaphores /\ "writeDone" \in Semaphores
        /\ "disk" # "writeDone" /\ "readAvail" # "writeDone" /\ "writeDone" # "lock"
        /\ "ConsoleWrite" \in Types
        /\ 0 \in {0, 1} /\ <<t>> \in Seq(Threads) /\ << >> \in Seq(Threads) /\ <<t>> # << >>
    BY DEF Semaphores, Types
  <1>6. clock \in Clock /\ d \in Int
    BY DEF Shape, DevicesAssumption
  <1>7. \A u \in EchoThreads : u = t
    BY <1>3, Constants
  <1>8. l \in {"Return", "Idle"}
    OBVIOUS
  <1> HIDE DEF d, l
  <1>9. /\ pc' = [pc EXCEPT ![t] = l]
        /\ semaphore' = [semaphore EXCEPT !["writeDone"] = [value |-> 0, queue |-> <<t>>]]
        /\ asleep' = [asleep EXCEPT ![t] = "writeDone"]
        /\ clock' = Schedule(clock, "ConsoleWrite", d) /\ mode' = "Sleep"
    BY <1>1, <1>4, <1>5, PSleeps
  <1>10. /\ clock' \in Clock /\ One(clock'.pending, "ConsoleWrite")
         /\ \A ty : ty # "ConsoleWrite" => Stays(clock.pending, clock'.pending, ty)
    <2>1. /\ clock' \in Clock
          /\ Lacks(clock.pending, "ConsoleWrite") => One(clock'.pending, "ConsoleWrite")
          /\ \A ty : ty # "ConsoleWrite" =>
                /\ One(clock.pending, ty) => One(clock'.pending, ty)
                /\ Lacks(clock.pending, ty) => Lacks(clock'.pending, ty)
                /\ ~Lacks(clock.pending, ty) => ~Lacks(clock'.pending, ty)
      BY <1>5, <1>6, <1>9, ScheduleKeeps
    <2> QED
      BY <1>4, <2>1 DEF Stays
  <1>11. /\ pc'[t] = l /\ \A u \in Threads \ {t} : pc'[u] = pc[u]
         /\ asleep'[t] = "writeDone" /\ \A u \in Threads \ {t} : asleep'[u] = asleep[u]
         /\ asleep' \in [Threads -> Semaphores \cup {"lock", None}]
    BY <1>5, <1>9 DEF Shape
  <1>12. /\ semaphore' \in [Semaphores -> [value : {0, 1}, queue : Seq(Threads)]]
         /\ semaphore'["writeDone"] = [value |-> 0, queue |-> <<t>>]
         /\ semaphore'["readAvail"] = semaphore["readAvail"]
         /\ semaphore'["disk"] = semaphore["disk"]
    BY <1>5, <1>9, SemaphoreTyped
  <1>13. /\ ThreadsSound' /\ ~Able(t)'
         /\ \A u \in Threads : Able(u)' <=> Able(u) /\ u # t
    BY <1>1, <1>2, <1>5, <1>8, <1>9, <1>11, GoesToSleep, Constants DEF processor
  <1>14. /\ console' \in [putBusy : BOOLEAN, incoming : Keys \cup {None}]
         /\ console'.putBusy /\ console'.incoming = None
    BY <1>1 DEF Shape, PutChar, GetChar
  <1>15. console.incoming # None /\ semaphore["readAvail"].value = 0
    BY <1>1, <1>2, <1>3 DEF Parts, KeyboardSound
  <1>16. CharactersKept'
    <2>1. unechoed = <<console.incoming>>
      BY <1>15 DEF Parts, KeyboardSound, CharactersKept
    <2>2. unechoed' = << >>
      BY <1>1, <2>1
    <2> QED
      BY <1>14, <2>2 DEF CharactersKept
  <1>17. Shape'
    BY <1>1, <1>3, <1>4, <1>8, <1>9, <1>10, <1>11, <1>12, <1>14, Constants
    DEF Shape, Modes, EchoSteps
  <1>18. \A u \in DiskThreads : u \in Threads \ {t} /\ (Able(u)' <=> Able(u))
    BY <1>4, <1>13, Constants
  <1>19. \A u \in Threads \ {t} : asleep[u] \in {"lock", "disk"} => u \in DiskThreads
    BY Sleepers
  <1>20. LockSound'
    BY <1>1, <1>5, <1>11, <1>18, <1>19, LockFrame DEF Parts
  <1>21. DiskSound'
    <2>1. \A u \in Threads : asleep'[u] = "disk" => u \in DiskThreads
      BY <1>5, <1>11, <1>19
    <2> QED
      BY <1>1, <1>10, <1>11, <1>12, <1>18, <2>1, DiskFrame DEF Parts
  <1>22. KeyboardSound'
    <2>1. \A u \in Threads : asleep'[u] # "readAvail"
      BY <1>4, <1>5, <1>11
    <2>2. ~Lacks(clock'.pending, "ConsoleRead")
      BY <1>1, <1>3, <1>10 DEF Parts, KeyboardSound, Stays
    <2> QED
      BY <1>4, <1>7, <1>8, <1>11, <1>12, <1>14, <1>15, <1>16, <2>1, <2>2 DEF KeyboardSound
  <1>23. DisplaySound'
    <2>1. \A u \in Threads : asleep'[u] = "writeDone" => u = t
      BY <1>4, <1>11
    <2> QED
      BY <1>3, <1>5, <1>8, <1>10, <1>11, <1>12, <1>13, <1>14, <2>1 DEF DisplaySound
  <1>24. HaltsAtTheEnd'
    BY <1>9 DEF HaltsAtTheEnd
  <1> QED
    BY <1>13, <1>17, <1>20, <1>21, <1>22, <1>23, <1>24 DEF Parts

-----------------------------------------------------------------------------
(* The first states *)

LEMMA ListedOnce ==
    ASSUME NEW S, IsFiniteSet(S), NEW x \in S,
           NEW q \in [1..(Cardinality(S) - 1) -> S], {q[i] : i \in DOMAIN q} = S \ {x}
    PROVE  /\ q \in Seq(S) /\ Distinct(q)
           /\ \A y : Queued(q, y) <=> y \in S \ {x}
  <1> DEFINE n == Cardinality(S) - 1
  <1>1. /\ IsFiniteSet(S \ {x}) /\ Cardinality(S \ {x}) = n /\ n \in Nat
    BY FS_RemoveElement, FS_CardinalityType
  <1>2. DOMAIN q = 1..n
    OBVIOUS
  <1> HIDE DEF n
  <1>3. q \in Seq(S) /\ Len(q) = n
    BY <1>1, <1>2 DEF n
  <1>4. \A y : Queued(q, y) <=> y \in S \ {x}
    BY <1>2, <1>3 DEF Queued
  <1>5. Distinct(q)
    <2>1. IsFiniteSet(1..n) /\ Cardinality(1..n) = n
      BY <1>1, FS_Interval
    <2>2. q \in Surjection(1..n, S \ {x})
      BY <1>2 DEF Surjection
    <2>3. q \in Injection(1..n, S \ {x})
      BY <1>1, <2>1, <2>2, FS_SurjSameCardinalityImpliesInj
    <2> QED
      BY <1>2, <1>3, <2>3 DEF Injection, IsInjective, Distinct
  <1> QED
    BY <1>3, <1>4, <1>5

LEMMA BootIs ==
    ASSUME NEW timer \in BOOLEAN, NEW threads, NEW c \in Boot(timer, threads)
    PROVE  /\ c \in Clock
           /\ Lacks(c.pending, "Disk") /\ Lacks(c.pending, "ConsoleWrite")
           /\ threads \cap EchoThreads # {} => ~Lacks(c.pending, "ConsoleRead")
  <1> DEFINE at0 == [now |-> 0, bufferAge |-> 0, pending |-> << >>]
             c0  == IF threads \cap EchoThreads = {} THEN at0
                    ELSE Schedule(at0, "ConsoleRead", ConsoleTime)
             Good(a) == /\ a \in Clock
                        /\ Lacks(a.pending, "Disk") /\ Lacks(a.pending, "ConsoleWrite")
                        /\ threads \cap EchoThreads # {} => ~Lacks(a.pending, "ConsoleRead")
  <1>1. at0 \in Clock /\ \A ty : Lacks(at0.pending, ty)
    BY RevolutionPositive DEF Clock, Lacks
  <1>2. /\ ConsoleTime \in Int /\ \A i \in TimerIntervals : i \in Int
        /\ "ConsoleRead" \in Types /\ "Timer" \in Types
    BY DEF DevicesAssumption, Types
  <1>3. Good(c0)
    <2>1. CASE threads \cap EchoThreads = {}
      BY <1>1, <2>1
    <2>2. CASE threads \cap EchoThreads # {}
      <3> DEFINE a == Schedule(at0, "ConsoleRead", ConsoleTime)
      <3> HIDE DEF at0
      <3>1. /\ a \in Clock
            /\ Lacks(at0.pending, "ConsoleRead") => One(a.pending, "ConsoleRead")
            /\ \A ty : ty # "ConsoleRead" => (Lacks(at0.pending, ty) => Lacks(a.pending, ty))
        BY <1>1, <1>2, ScheduleKeeps
      <3>2. One(a.pending, "ConsoleRead") => ~Lacks(a.pending, "ConsoleRead")
        BY DEF One, Lacks
      <3> QED
        BY <1>1, <2>2, <3>1, <3>2
    <2> QED
      BY <2>1, <2>2
  <1>4. ASSUME NEW i \in TimerIntervals
        PROVE  Good(Schedule(c0, "Timer", i))
    <2> DEFINE a == Schedule(c0, "Timer", i)
    <2> HIDE DEF c0
    <2>1. /\ a \in Clock
          /\ \A ty : ty # "Timer" => /\ Lacks(c0.pending, ty) => Lacks(a.pending, ty)
                                     /\ ~Lacks(c0.pending, ty) => ~Lacks(a.pending, ty)
      BY <1>2, <1>3, ScheduleKeeps
    <2> QED
      BY <1>3, <2>1
  <1>5. c = c0 \/ \E i \in TimerIntervals : c = Schedule(c0, "Timer", i)
    BY DEF Boot
  <1> HIDE DEF c0, Good
  <1>6. Good(c)
    BY <1>3, <1>4, <1>5
  <1> QED
    BY <1>6 DEF Good

LEMMA InitSound == Init => Sound
  <1> SUFFICES ASSUME Init PROVE Sound
    OBVIOUS
  <1>1. PICK timer \in BOOLEAN, threads \in Workloads : StartedWith(timer, threads)
    BY DEF Init
  <1>2. threads \subseteq Threads /\ IsFiniteSet(threads)
    BY FS_Subset DEF DevicesAssumption
  <1>3. /\ currentThread \in threads /\ readyList \in Seq(threads) /\ Distinct(readyList)
        /\ \A t : Queued(readyList, t) <=> t \in threads \ {currentThread}
    BY <1>1, <1>2, ListedOnce DEF StartedWith
  <1>4. /\ clock \in Clock
        /\ Lacks(clock.pending, "Disk") /\ Lacks(clock.pending, "ConsoleWrite")
        /\ threads \cap EchoThreads # {} => ~Lacks(clock.pending, "ConsoleRead")
    BY <1>1, BootIs DEF StartedWith
  <1>5. /\ mode = "Running" /\ yieldOnReturn = FALSE
        /\ asleep = [t \in Threads |-> None]
        /\ semaphore = [s \in Semaphores |-> [value |-> 0, queue |-> << >>]]
        /\ lock = [owner |-> None, queue |-> << >>]
        /\ \E v \in Values : disk = NewDisk(v)
        /\ call = [t \in Threads |-> None]
        /\ console = NewConsole /\ unechoed = << >>
        /\ pc = [t \in Threads |-> IF t \in threads THEN "Idle" ELSE "Finished"]
    BY <1>1 DEF Init, StartedWith, Semaphores
  <1>6. \A t \in Threads : asleep[t] = None /\ pc[t] \in {"Idle", "Finished"}
                             /\ (pc[t] = "Idle" <=> t \in threads)
    BY <1>5
  <1>7. \A t \in Threads : Able(t) <=> t \in threads
    BY <1>3, <1>5 DEF Able, Awake
  <1>8. Shape
    <2>1. disk \in [active : BOOLEAN, lastSector : RequestSectors \cup {0},
                    store : [RequestSectors -> Values]]
      BY <1>5 DEF NewDisk
    <2>2. semaphore \in [Semaphores -> [value : {0, 1}, queue : Seq(Threads)]]
      BY <1>5
    <2>3. lock \in [owner : DiskThreads \cup {None}, queue : Seq(DiskThreads)]
      BY <1>5
    <2>4. console \in [putBusy : BOOLEAN, incoming : Keys \cup {None}]
      BY <1>5 DEF NewConsole
    <2>5. readyList \in Seq(Threads) /\ currentThread \in Threads
      BY <1>2, <1>3
    <2> QED
      BY <1>4, <1>5, <2>1, <2>2, <2>3, <2>4, <2>5, Constants
      DEF Shape, Modes, DiskSteps, EchoSteps
  <1>9. ThreadsSound
    BY <1>2, <1>3, <1>5, <1>6, <1>7 DEF ThreadsSound, Awake
  <1>10. "disk" \in Semaphores /\ "readAvail" \in Semaphores /\ "writeDone" \in Semaphores
    BY DEF Semaphores
  <1>11. LockSound
    <2>1. \A t : ~Queued(lock.queue, t) /\ Distinct(lock.queue) /\ lock.owner = None
      BY <1>5 DEF Queued, Distinct
    <2> QED
      BY <1>5, <1>6, <2>1, Constants DEF LockSound
  <1>12. DiskSound
    BY <1>4, <1>5, <1>6, <1>10, Constants DEF DiskSound, NewDisk
  <1>13. KeyboardSound
    BY <1>4, <1>5, <1>6, <1>10, Constants DEF KeyboardSound, CharactersKept, NewConsole
  <1>14. DisplaySound
    BY <1>4, <1>5, <1>6, <1>10, Constants DEF DisplaySound, NewConsole
  <1> QED
    BY <1>5, <1>8, <1>9, <1>11, <1>12, <1>13, <1>14 DEF Sound, Parts, HaltsAtTheEnd

-----------------------------------------------------------------------------

LEMMA SoundStep == Sound /\ [Next]_vars => Sound'
  <1> SUFFICES ASSUME Sound, [Next]_vars PROVE Sound'
    OBVIOUS
  <1>1. CASE Sleep \/ Resume \/ Interrupt \/ AfterTick
    BY <1>1, SleepStep, ResumeStep, InterruptStep, AfterTickStep
  <1>2. CASE Idle \/ StillIdle \/ LeaveIdle \/ Halt
    BY <1>2, IdleStep, StillIdleStep, LeaveIdleStep, HaltStep
  <1>3. ASSUME NEW t \in Threads, ThreadStep(t) PROVE Sound'
    BY <1>3, StartCallStep, RequestStep, ReleaseStep, AwaitCharStep, EchoStep, FinishStep
    DEF ThreadStep
  <1>4. CASE UNCHANGED vars
    <2> USE DEF vars
    <2>1. \A t \in Threads : Able(t)' <=> Able(t)
      BY <1>4 DEF Able, Awake
    <2>2. Shape'
      BY <1>4 DEF Sound, Shape
    <2>3. ThreadsSound'
      BY <1>4, <2>1 DEF Sound, ThreadsSound, Awake
    <2>4. Parts'
      <3>1. SameToCome(clock.pending, clock'.pending)
        BY <1>4, NothingNew
      <3> QED
        BY <1>4, <2>1, <3>1, PartsFrame DEF Sound, devices
    <2>5. HaltsAtTheEnd'
      BY <1>4 DEF Sound, HaltsAtTheEnd
    <2> QED
      BY <2>2, <2>3, <2>4, <2>5 DEF Sound
  <1> QED
    BY <1>1, <1>2, <1>3, <1>4 DEF Next

LEMMA CountToCome ==
    ASSUME Shape, NEW ty
    PROVE  /\ One(clock.pending, ty) => Cardinality(Pending(ty)) = 1
           /\ Lacks(clock.pending, ty) => Cardinality(Pending(ty)) = 0
  <1>1. DOMAIN clock.pending = 1..Len(clock.pending)
    BY DEF Shape, Clock
  <1>2. CASE One(clock.pending, ty)
    <2>1. PICK i \in 1..Len(clock.pending) :
              \A j \in 1..Len(clock.pending) : clock.pending[j].type = ty <=> j = i
      BY <1>2 DEF One
    <2>2. Pending(ty) = {i}
      BY <1>1, <2>1 DEF Pending
    <2>3. ~Lacks(clock.pending, ty)
      BY <2>1 DEF Lacks
    <2> QED
      BY <2>2, <2>3, FS_Singleton
  <1>3. CASE Lacks(clock.pending, ty)
    <2>1. Pending(ty) = {}
      BY <1>1, <1>3 DEF Pending, Lacks
    <2>2. ~One(clock.pending, ty)
      BY <1>3 DEF One, Lacks
    <2> QED
      BY <2>1, <2>2, FS_EmptySet
  <1> QED
    BY <1>2, <1>3

LEMMA SoundIsOrder == Sound => DevicesSound
  <1> SUFFICES ASSUME Sound PROVE DevicesSound
    OBVIOUS
  <1> USE DEF Sound
  <1>1. TypeOK
    <2>1. clock.now \in 0..(Revolution - 1)
      BY DEF Shape, Clock
    <2>2. \A i \in DOMAIN clock.pending : clock.pending[i].when \in Int
      <3>1. clock.pending \in Seq(Event)
        BY DEF Shape, Clock
      <3>2. \A i \in DOMAIN clock.pending : clock.pending[i] \in Event
        BY <3>1
      <3> QED
        BY <3>2 DEF Event
    <2>3. \A s \in DOMAIN semaphore : semaphore[s].value \in 0..1
      BY DEF Shape
    <2> QED
      BY <2>1, <2>2, <2>3 DEF TypeOK, Shape, Modes
  <1>2. Cardinality(Pending("Disk")) = IF disk.active THEN 1 ELSE 0
    BY CountToCome DEF Parts, DiskSound, Shape
  <1>3. Cardinality(Pending("ConsoleWrite")) = IF console.putBusy THEN 1 ELSE 0
    BY CountToCome DEF Parts, DisplaySound, Shape
  <1>4. disk.active => \E t \in DiskThreads : lock.owner = t /\ asleep[t] = "disk"
    BY Constants DEF Parts, DiskSound, Shape
  <1>5. ASSUME NEW t \in Threads, Running(t)
        PROVE  /\ pc[t] = "Request" => ~disk.active /\ lock.owner = t
               /\ pc[t] = "Echo" => ~console.putBusy /\ console.incoming # None
    <2>1. asleep[t] = None /\ ~Queued(lock.queue, t)
      BY <1>5, Runner
    <2>2. CASE pc[t] = "Request"
      <3>1. t \in DiskThreads
        BY <2>2, Constants DEF Shape, EchoSteps
      <3>2. t = lock.owner
        BY <2>1, <2>2, <3>1 DEF Parts, LockSound
      <3> QED
        BY <1>5, <2>2, <3>2, Runner
    <2>3. CASE pc[t] = "Echo"
      <3>1. t \in EchoThreads
        BY <2>3, Constants DEF Shape, DiskSteps
      <3> QED
        BY <1>5, <2>1, <2>3, <3>1, EchoRuns DEF Parts, KeyboardSound
    <2> QED
      BY <2>2, <2>3
  <1> QED
    BY <1>1, <1>2, <1>3, <1>4, <1>5 DEF DevicesSound

(* A device that is busy has exactly one interrupt to come and nobody asks   *)
(* it for more (the ASSERTs of Disk::ReadRequest, WriteRequest and           *)
(* Console::PutChar); while a request is on its way, the owner of the        *)
(* SynchDisk's lock waits for it.                                            *)
THEOREM DevicesInOrder == Spec => []DevicesSound
  BY InitSound, SoundStep, SoundIsOrder, PTL DEF Spec

(* No character that was typed is lost, doubled or reordered, and the idle   *)
(* machine halts only when every thread has finished: nobody still waits for *)
(* the disk, the keyboard or the display.                                    *)
THEOREM NobodyLeftBehind == Spec => []NothingForgotten
  <1>1. Sound => NothingForgotten
    BY DEF Sound, Parts, KeyboardSound, NothingForgotten
  <1> QED
    BY <1>1, InitSound, SoundStep, PTL DEF Spec

-----------------------------------------------------------------------------
(* The disk is atomic *)

LEMMA OtherCalls ==
    ASSUME NEW t \in DiskThreads, Shape, Shape',
           \A u \in DiskThreads \ {t} :
               call'[u] = call[u] /\ (pc'[u] = "Request" <=> pc[u] = "Request")
    PROVE  CallsSeen' = [CallsSeen EXCEPT ![t] = CallsSeen'[t]]
  BY DEF CallsSeen

LEMMA SameCalls ==
    ASSUME \A u \in DiskThreads :
               /\ call'[u] = call[u]
               /\ call[u] # None => (pc'[u] = "Request" <=> pc[u] = "Request")
    PROVE  CallsSeen' = CallsSeen
  BY DEF CallsSeen

LEMMA SeenIs ==
    ASSUME NEW t \in DiskThreads
    PROVE  /\ t \in DOMAIN CallsSeen
           /\ CallsSeen[t] = IF call[t] = None THEN None
                             ELSE [sector |-> call[t].sector, writing |-> call[t].writing,
                                   data |-> call[t].data, done |-> pc[t] # "Request"]
           /\ CallsSeen'[t] = IF call'[t] = None THEN None
                              ELSE [sector |-> call'[t].sector, writing |-> call'[t].writing,
                                    data |-> call'[t].data, done |-> pc'[t] # "Request"]
  BY DEF CallsSeen

LEMMA CallDone ==
    ASSUME NEW a \in Abstract!Calls, NEW x \in Values
    PROVE  /\ [a EXCEPT !.done = TRUE] = [sector |-> a.sector, writing |-> a.writing,
                                          data |-> a.data, done |-> TRUE]
           /\ [a EXCEPT !.done = TRUE, !.data = x] = [sector |-> a.sector, writing |-> a.writing,
                                                      data |-> x, done |-> TRUE]
  <1> DEFINE b == [a EXCEPT !.done = TRUE]
             c == [a EXCEPT !.done = TRUE, !.data = x]
  <1> USE DEF Abstract!Calls
  <1>1. b \in Abstract!Calls /\ c \in Abstract!Calls
    OBVIOUS
  <1>2. b.done = TRUE /\ b.sector = a.sector /\ b.writing = a.writing /\ b.data = a.data
    OBVIOUS
  <1>3. c.done = TRUE /\ c.sector = a.sector /\ c.writing = a.writing /\ c.data = x
    OBVIOUS
  <1> HIDE DEF b, c
  <1>4. b = [sector |-> a.sector, writing |-> a.writing, data |-> a.data, done |-> TRUE]
    BY <1>1, <1>2
  <1>5. c = [sector |-> a.sector, writing |-> a.writing, data |-> x, done |-> TRUE]
    BY <1>1, <1>3
  <1> QED
    BY <1>4, <1>5 DEF b, c

LEMMA StartsCall ==
    ASSUME Sound, Sound', NEW t \in Threads, StartCall(t)
    PROVE  t \in DiskThreads /\ Abstract!Start(t)
  <1> USE DEF Sound
  <1>1. /\ t \in DiskThreads /\ pc[t] = "Idle" /\ disk' = disk
        /\ pc' = [pc EXCEPT ![t] = "Request"]
    BY DEF StartCall
  <1>2. PICK s \in RequestSectors, w \in BOOLEAN, v \in Values :
            call' = [call EXCEPT ![t] = [sector |-> s, writing |-> w, data |-> v]]
    BY DEF StartCall
  <1> DEFINE r == [sector |-> s, writing |-> w, data |-> v]
             a == [sector |-> s, writing |-> w, data |-> v, done |-> FALSE]
  <1>3. r \in Calls /\ r # None /\ a \in Abstract!Calls /\ ~a.done
    BY Constants DEF Calls, Abstract!Calls
  <1>4. /\ call'[t] = r /\ pc'[t] = "Request"
        /\ \A u \in DiskThreads \ {t} : call'[u] = call[u] /\ pc'[u] = pc[u]
    BY <1>1, <1>2, Constants DEF Shape
  <1>5. CallsSeen[t] = None
    BY <1>1 DEF CallsSeen, Shape
  <1>6. CallsSeen'[t] = a
    <2>1. /\ call'[t].sector = s /\ call'[t].writing = w /\ call'[t].data = v
          /\ call'[t] # None /\ ~(pc'[t] # "Request")
      BY <1>3, <1>4
    <2>2. CallsSeen'[t] = [sector |-> s, writing |-> w, data |-> v, done |-> pc'[t] # "Request"]
      BY <1>1, <2>1, SeenIs
    <2> QED
      BY <1>4, <2>2
  <1>7. CallsSeen' = [CallsSeen EXCEPT ![t] = CallsSeen'[t]]
    BY <1>1, <1>4, OtherCalls
  <1> QED
    BY <1>1, <1>3, <1>5, <1>6, <1>7 DEF Abstract!Start

LEMMA ServesCall ==
    ASSUME Sound, Sound', NEW t \in Threads, Request(t)
    PROVE  t \in DiskThreads /\ Abstract!Serve(t)
  <1> USE DEF Sound
  <1> DEFINE r == call[t]
             a == [sector |-> r.sector, writing |-> r.writing, data |-> r.data, done |-> FALSE]
  <1>1. /\ t \in DiskThreads /\ pc[t] = "Request" /\ r \in Calls /\ r # None
    <2>1. pc[t] = "Request"
      BY DEF Request
    <2>2. t \in DiskThreads
      BY <2>1, Constants DEF Shape, EchoSteps
    <2>3. call[t] # None /\ call[t] \in Calls \cup {None}
      BY <2>1 DEF Shape
    <2> QED
      BY <2>1, <2>2, <2>3
  <1>2. /\ r.sector \in RequestSectors /\ r.writing \in BOOLEAN /\ r.data \in Values
        /\ r = [sector |-> r.sector, writing |-> r.writing, data |-> r.data]
    BY <1>1 DEF Calls
  <1>3. /\ pc' = [pc EXCEPT ![t] = "Release"]
        /\ disk'.store = IF r.writing THEN [disk.store EXCEPT ![r.sector] = r.data] ELSE disk.store
        /\ call' = IF r.writing THEN call ELSE [call EXCEPT ![t].data = disk.store[r.sector]]
    BY DEF Request, P
  <1>4. CallsSeen[t] = a /\ a # None /\ ~a.done /\ a \in Abstract!Calls
    <2>1. a \in Abstract!Calls
      BY <1>2 DEF Abstract!Calls
    <2> QED
      BY <1>1, <2>1, NoneIsNoCall DEF CallsSeen
  <1>5. \A u \in DiskThreads \ {t} : call'[u] = call[u] /\ pc'[u] = pc[u]
    BY <1>1, <1>3, Constants DEF Shape
  <1>6. CallsSeen' = [CallsSeen EXCEPT ![t] = CallsSeen'[t]]
    BY <1>1, <1>5, OtherCalls
  <1>7. pc'[t] = "Release" /\ t \in DOMAIN call /\ t \in DOMAIN CallsSeen
    BY <1>1, <1>3 DEF Shape, CallsSeen
  <1>8. CASE r.writing
    <2>1. call' = call /\ disk'.store = [disk.store EXCEPT ![r.sector] = r.data]
      BY <1>3, <1>8
    <2>2. CallsSeen'[t] = [a EXCEPT !.done = TRUE]
      <3>1. CallsSeen'[t] = [sector |-> r.sector, writing |-> r.writing, data |-> r.data,
                             done |-> pc'[t] # "Request"]
        BY <1>1, <2>1, SeenIs
      <3>2. (pc'[t] # "Request") = TRUE
        BY <1>7
      <3>3. [a EXCEPT !.done = TRUE] = [sector |-> r.sector, writing |-> r.writing,
                                         data |-> r.data, done |-> TRUE]
        <4>1. [a EXCEPT !.done = TRUE] = [sector |-> a.sector, writing |-> a.writing,
                                          data |-> a.data, done |-> TRUE]
          BY <1>2, <1>4, CallDone
        <4> QED
          BY <4>1
      <3> QED
        BY <3>1, <3>2, <3>3, Zenon
    <2> QED
      <3>1. CallsSeen' = [CallsSeen EXCEPT ![t].done = TRUE]
        BY <1>4, <1>6, <1>7, <2>2
      <3>2. a.writing /\ a.sector = r.sector /\ a.data = r.data
        BY <1>8
      <3> HIDE DEF a, r
      <3> QED
        BY <1>1, <1>4, <2>1, <3>1, <3>2 DEF Abstract!Serve
  <1>9. CASE ~r.writing
    <2> DEFINE x == disk.store[r.sector]
    <2>1. call' = [call EXCEPT ![t].data = x] /\ disk'.store = disk.store
      BY <1>3, <1>9
    <2>2. call'[t] = [r EXCEPT !.data = x] /\ x \in Values
      BY <1>2, <1>7, <2>1 DEF Shape
    <2>3. call'[t] # None
      <3>1. [r EXCEPT !.data = x] \in Calls
        BY <1>1, <2>2 DEF Calls
      <3> QED
        BY <2>2, <3>1, Constants
    <2>4. CallsSeen'[t] = [a EXCEPT !.done = TRUE, !.data = x]
      <3>1. /\ call'[t].sector = r.sector /\ call'[t].writing = r.writing /\ call'[t].data = x
        BY <1>2, <2>2
      <3>2. CallsSeen'[t] = [sector |-> r.sector, writing |-> r.writing, data |-> x,
                             done |-> pc'[t] # "Request"]
        BY <1>1, <2>3, <3>1, SeenIs
      <3>3. (pc'[t] # "Request") = TRUE
        BY <1>7
      <3>4. [a EXCEPT !.done = TRUE, !.data = x]
                = [sector |-> r.sector, writing |-> r.writing, data |-> x, done |-> TRUE]
        <4>1. [a EXCEPT !.done = TRUE, !.data = x]
                  = [sector |-> a.sector, writing |-> a.writing, data |-> x, done |-> TRUE]
          BY <1>4, <2>2, CallDone
        <4> QED
          BY <4>1
      <3> QED
        BY <3>2, <3>3, <3>4, Zenon
    <2>5. [CallsSeen EXCEPT ![t].done = TRUE, ![t].data = x]
              = [CallsSeen EXCEPT ![t] = [a EXCEPT !.done = TRUE, !.data = x]]
      BY <1>4, <1>7
    <2> QED
      BY <1>1, <1>4, <1>6, <1>7, <1>9, <2>1, <2>4, <2>5 DEF Abstract!Serve
  <1> QED
    BY <1>8, <1>9

LEMMA ReturnsCall ==
    ASSUME Sound, Sound', NEW t \in Threads, Release(t)
    PROVE  t \in DiskThreads /\ Abstract!Return(t)
  <1> USE DEF Sound
  <1>1. /\ t \in DiskThreads /\ pc[t] = "Release" /\ call[t] \in Calls /\ call[t] # None
        /\ pc' = [pc EXCEPT ![t] = "Idle"] /\ call' = [call EXCEPT ![t] = None] /\ disk' = disk
    <2>1. /\ pc[t] = "Release" /\ disk' = disk
          /\ pc' = [pc EXCEPT ![t] = "Idle"] /\ call' = [call EXCEPT ![t] = None]
      BY DEF Release
    <2>2. t \in DiskThreads
      BY <2>1, Constants DEF Shape, EchoSteps
    <2>3. call[t] # None /\ call[t] \in Calls \cup {None}
      BY <2>1 DEF Shape
    <2> QED
      BY <2>1, <2>2, <2>3
  <1>2. CallsSeen[t] # None /\ CallsSeen[t].done
    <2> DEFINE a == [sector |-> call[t].sector, writing |-> call[t].writing,
                     data |-> call[t].data, done |-> TRUE]
    <2>1. a \in Abstract!Calls
      BY <1>1 DEF Calls, Abstract!Calls
    <2>2. CallsSeen[t] = a
      <3>1. CallsSeen[t] = [sector |-> call[t].sector, writing |-> call[t].writing,
                            data |-> call[t].data, done |-> pc[t] # "Request"]
        BY <1>1, SeenIs
      <3>2. pc[t] # "Request"
        BY <1>1
      <3> QED
        BY <3>1, <3>2
    <2> QED
      <3>1. a # None /\ a.done
        BY <2>1, NoneIsNoCall
      <3> HIDE DEF a
      <3> QED
        BY <2>2, <3>1
  <1>3. call'[t] = None /\ \A u \in DiskThreads \ {t} : call'[u] = call[u] /\ pc'[u] = pc[u]
    BY <1>1, Constants DEF Shape
  <1>4. CallsSeen'[t] = None
    BY <1>1, <1>3 DEF CallsSeen
  <1>5. CallsSeen' = [CallsSeen EXCEPT ![t] = CallsSeen'[t]]
    BY <1>1, <1>3, OtherCalls
  <1> QED
    BY <1>1, <1>2, <1>4, <1>5 DEF Abstract!Return

LEMMA CallsStep == Sound /\ Sound' /\ [Next]_vars => [Abstract!Next]_(Abstract!vars)
  <1> SUFFICES ASSUME Sound, Sound', [Next]_vars PROVE [Abstract!Next]_(Abstract!vars)
    OBVIOUS
  <1>1. SUFFICES ASSUME ~Abstract!Next
                 PROVE  disk'.store = disk.store /\ CallsSeen' = CallsSeen
    BY DEF Abstract!vars
  <1>2. CASE Interrupt \/ Idle \/ StillIdle
    <2>1. disk'.store = disk.store /\ call' = call /\ pc' = pc
      BY <1>2 DEF Interrupt, Idle, StillIdle, Fire, TimerExpired, DiskDone, CheckCharAvail,
                  WriteDone, devices, Sound, Shape
    <2> QED
      BY <2>1, SameCalls
  <1>3. CASE Sleep \/ Resume \/ AfterTick \/ LeaveIdle \/ Halt \/ UNCHANGED vars
    <2>1. disk' = disk /\ call' = call
      BY <1>3 DEF Sleep, Resume, AfterTick, LeaveIdle, Halt, vars, devices
    <2>2. pc' = pc
      BY <1>3 DEF Sleep, Resume, P, AfterTick, LeaveIdle, Halt, vars, Sound, Shape
    <2> QED
      BY <2>1, <2>2, SameCalls
  <1>4. ASSUME NEW t \in Threads, ThreadStep(t)
        PROVE  disk'.store = disk.store /\ CallsSeen' = CallsSeen
    <2>1. CASE StartCall(t) \/ Request(t) \/ Release(t)
      BY <1>1, <2>1, StartsCall, ServesCall, ReturnsCall DEF Abstract!Next
    <2>2. CASE AwaitChar(t) \/ Echo(t)
      <3>1. t \in EchoThreads /\ disk' = disk /\ call' = call
        BY <2>2, Constants DEF AwaitChar, Echo, devices, Sound, Shape, DiskSteps
      <3>2. \A u \in DiskThreads : pc'[u] = pc[u]
        BY <2>2, <3>1, Constants DEF AwaitChar, Echo, P, Sound, Shape
      <3> QED
        BY <3>1, <3>2, SameCalls
    <2>3. CASE Finish(t)
      <3>1. /\ disk' = disk /\ call' = call /\ pc' = [pc EXCEPT ![t] = "Finished"]
            /\ pc[t] \in {"Idle", "Return"}
        BY <2>3 DEF Finish, devices
      <3>2. call[t] = None /\ \A u \in DiskThreads \ {t} : pc'[u] = pc[u]
        BY <3>1, Constants DEF Sound, Shape
      <3> QED
        BY <3>1, <3>2, SameCalls
    <2> QED
      BY <1>4, <2>1, <2>2, <2>3 DEF ThreadStep
  <1> QED
    BY <1>2, <1>3, <1>4 DEF Next

LEMMA CallsInit == Init => Abstract!Init
  <1> SUFFICES ASSUME Init PROVE Abstract!Init
    OBVIOUS
  <1>1. disk.store \in [RequestSectors -> Values]
    BY InitSound DEF Sound, Shape
  <1>2. CallsSeen = [t \in DiskThreads |-> None]
    BY Constants DEF Init, CallsSeen
  <1> QED
    BY <1>1, <1>2 DEF Abstract!Init

(* SynchDisk is atomic: every call of ReadSector and WriteSector reads or    *)
(* writes its sector at one moment between its start and its return, however *)
(* the threads and the interrupts alternate.  This is the safety part of     *)
(* ImplementsDisk.                                                           *)
THEOREM CallsAreAtomic == Spec => Abstract!Init /\ [][Abstract!Next]_(Abstract!vars)
  <1>1. Sound /\ [Next]_vars => [Abstract!Next]_(Abstract!vars)
    BY CallsStep, SoundStep
  <1> QED
    BY <1>1, CallsInit, InitSound, SoundStep, PTL DEF Spec

-----------------------------------------------------------------------------
(* Lemmas: remainders *)

LEMMA WholeQuotient ==
    ASSUME NEW x \in Int, NEW n \in Nat \ {0}
    PROVE  x \div n \in Int
  OBVIOUS

LEMMA DivisionWithRest ==
    ASSUME NEW x \in Int, NEW n \in Nat \ {0}
    PROVE  x = (x \div n) * n + (x % n)
  OBVIOUS

LEMMA SameQuotient ==
    ASSUME NEW q \in Int, NEW p \in Int, NEW n \in Nat \ {0},
           NEW r \in 0..(n - 1), NEW s \in 0..(n - 1), q * n + r = p * n + s
    PROVE  q = p
  <1>1. (q - p) * n = s - r
    OBVIOUS
  <1>2. CASE q > p
    <2>1. (q - p) * n >= n
      BY <1>2
    <2> QED
      BY <1>1, <2>1
  <1>3. CASE q < p
    <2>1. (p - q) * n >= n
      BY <1>3
    <2>2. (p - q) * n = r - s
      BY <1>1
    <2> QED
      BY <2>1, <2>2
  <1> QED
    BY <1>2, <1>3

(* Whole multiples do not count in a remainder. *)
LEMMA WholeTurns ==
    ASSUME NEW x \in Int, NEW q \in Int, NEW n \in Nat \ {0}
    PROVE  (x + q * n) % n = x % n
  <1> DEFINE y == x + q * n
  <1>1. y \in Int
    OBVIOUS
  <1> HIDE DEF y
  <1> DEFINE a == y \div n
             b == y % n
             c == x \div n
             d == x % n
  <1>2. y = a * n + b /\ b \in 0..(n - 1) /\ a \in Int
    BY <1>1, DivisionWithRest, RestBound, WholeQuotient
  <1>3. x = c * n + d /\ d \in 0..(n - 1) /\ c \in Int
    BY DivisionWithRest, RestBound, WholeQuotient
  <1> HIDE DEF a, b, c, d
  <1>4. a * n + b = (c + q) * n + d
    <2>1. (c + q) * n = c * n + q * n
      BY <1>3
    <2>2. y = x + q * n
      BY DEF y
    <2> QED
      BY <1>1, <1>2, <1>3, <2>1, <2>2
  <1>5. c + q \in Int
    BY <1>3
  <1>6. a = c + q
    BY <1>2, <1>3, <1>4, <1>5, SameQuotient
  <1>7. b = d
    BY <1>2, <1>3, <1>4, <1>6
  <1> QED
    BY <1>7 DEF b, d, y

LEMMA SumOfRest ==
    ASSUME NEW x \in Int, NEW y \in Int, NEW n \in Nat \ {0}
    PROVE  ((x % n) + y) % n = (x + y) % n
  <1> DEFINE q == x \div n
             r == x % n
  <1>1. q \in Int /\ r \in Int /\ x = q * n + r
    BY DivisionWithRest, RestBound, WholeQuotient
  <1> HIDE DEF q, r
  <1>2. r + y \in Int
    BY <1>1
  <1>3. ((r + y) + q * n) % n = (r + y) % n
    BY <1>1, <1>2, WholeTurns
  <1>4. (r + y) + q * n = x + y
    <2>1. q * n \in Int
      BY <1>1
    <2> QED
      BY <1>1, <2>1
  <1> QED
    BY <1>3, <1>4 DEF r

(* From any time, the rest of the way to the next boundary ends at one. *)
LEMMA NextBoundary ==
    ASSUME NEW x \in Int, NEW n \in Nat \ {0}
    PROVE  x + ((-x) % n) = ((x + ((-x) % n)) \div n) * n
  <1> DEFINE y == -x
  <1>1. y \in Int
    OBVIOUS
  <1> HIDE DEF y
  <1> DEFINE q == y \div n
             r == y % n
  <1>2. q \in Int /\ r \in Int /\ y = q * n + r
    BY <1>1, DivisionWithRest, RestBound, WholeQuotient
  <1> HIDE DEF q, r
  <1>3. x + r = (-q) * n
    <2>1. q * n \in Int /\ (-q) * n = -(q * n)
      BY <1>2
    <2>2. y = -x
      BY DEF y
    <2> QED
      BY <1>1, <1>2, <2>1, <2>2
  <1> DEFINE z == x + r
  <1>4. z \in Int /\ z = (-q) * n + 0 /\ -q \in Int
    BY <1>2, <1>3
  <1> HIDE DEF z
  <1> DEFINE a == z \div n
             b == z % n
  <1>5. a \in Int /\ b \in 0..(n - 1) /\ z = a * n + b
    BY <1>4, DivisionWithRest, RestBound, WholeQuotient
  <1> HIDE DEF a, b
  <1>6. 0 \in 0..(n - 1) /\ a * n + b = (-q) * n + 0
    BY <1>4, <1>5
  <1>7. a = -q
    BY <1>4, <1>5, <1>6, SameQuotient
  <1>8. z = a * n
    BY <1>4, <1>7
  <1> QED
    BY <1>8 DEF z, a, r, y

-----------------------------------------------------------------------------
(* The times of a request *)

SeekFrom(l, s) == Distance(Track(s), Track(l)) * SeekTime
Longest(l)     == Max({SeekFrom(l, s) : s \in RequestSectors \cup {0}})

(* The claim of PassesTheHead about a request for the sector l that ends     *)
(* when ticks after now.                                                     *)
Timely(when, now, l) ==
    /\ when > 0 => \/ when <= RotationTime
                   \/ (now + when) % Revolution = ((l + 1) * RotationTime) % Revolution
    /\ when < Longest(l) + Revolution + RotationTime

OnTime(q, now, l) ==
    \A j \in 1..Len(q) : q[j].type = "Disk" => Timely(q[j].when, now, l)

LEMMA LargestValue ==
    ASSUME NEW T, IsFiniteSet(T), T # {}, NEW g \in [T -> Nat]
    PROVE  \E x \in T : \A y \in T : g[x] >= g[y]
  <1>1. PICK n \in Nat : ExistsBijection(1..n, T)
    BY FS_NatBijection
  <1>2. PICK f \in [1..n -> T] : \A y \in T : \E i \in 1..n : f[i] = y
    BY <1>1 DEF ExistsBijection, Bijection, Surjection
  <1> DEFINE K == {k \in Nat : k <= n => \E b \in Nat : \A i \in 1..k : g[f[i]] <= b}
  <1>3. 0 \in K
    OBVIOUS
  <1>4. ASSUME NEW k \in K PROVE k + 1 \in K
    <2>1. CASE k + 1 <= n
      <3>1. PICK b \in Nat : \A i \in 1..k : g[f[i]] <= b
        BY <2>1
      <3>2. k + 1 \in 1..n /\ g[f[k + 1]] \in Nat
        BY <1>2, <2>1
      <3>3. PICK c \in Nat : c >= b /\ c >= g[f[k + 1]]
        BY <3>1, <3>2
      <3>4. \A i \in 1..k : i \in 1..n /\ g[f[i]] \in Nat
        BY <1>2, <2>1
      <3>5. \A i \in 1..(k + 1) : g[f[i]] <= c
        BY <3>1, <3>2, <3>3, <3>4
      <3> QED
        BY <3>3, <3>5
    <2>2. CASE ~(k + 1 <= n)
      BY <2>2
    <2> QED
      BY <2>1, <2>2
  <1> HIDE DEF K
  <1>5. Nat \subseteq K
    <2>1. K \subseteq Nat
      BY DEF K
    <2> QED
      BY <1>3, <1>4, <2>1, SetInduction
  <1>6. PICK b \in Nat : \A i \in 1..n : g[f[i]] <= b
    <2>1. n \in K
      BY <1>5
    <2> QED
      BY <2>1 DEF K
  <1> DEFINE B == {c \in Nat : \A y \in T : g[y] <= c}
  <1>7. b \in B
    BY <1>2, <1>6
  <1>8. PICK m \in B : \A c \in B : m <= c
    <2>1. B \in SUBSET Nat /\ B # {}
      BY <1>7
    <2> HIDE DEF B
    <2> QED
      BY <2>1, SmallestMember
  <1>9. \E x \in T : g[x] = m
    <2> SUFFICES ASSUME \A x \in T : g[x] # m PROVE FALSE
      OBVIOUS
    <2>1. m \in Nat /\ \A y \in T : g[y] \in Nat /\ g[y] < m
      OBVIOUS
    <2>2. m - 1 \in Nat
      BY <2>1
    <2>3. m - 1 \in B
      BY <2>1, <2>2
    <2> QED
      BY <1>8, <2>1, <2>3
  <1> QED
    BY <1>9

LEMMA SectorNumbers ==
    /\ SectorsPerTrack \in Nat \ {0} /\ RotationTime \in Nat \ {0} /\ SeekTime \in Nat
    /\ RequestSectors \cup {0} \subseteq Nat
    /\ Revolution \in Nat \ {0} /\ Revolution = SectorsPerTrack * RotationTime
  <1>1. SectorsPerTrack \in Nat \ {0} /\ RotationTime \in Nat \ {0} /\ SeekTime \in Nat
    BY DEF DevicesAssumption
  <1>2. RequestSectors \cup {0} \subseteq Nat
    BY DEF DevicesAssumption
  <1> QED
    BY <1>1, <1>2, RevolutionPositive DEF Revolution

LEMMA SeekFromIs ==
    ASSUME NEW l \in RequestSectors \cup {0}, NEW s \in RequestSectors \cup {0}
    PROVE  SeekFrom(l, s) \in Nat /\ SeekFrom(l, s) = SeekFrom(s, l)
  <1>1. Track(s) \in Nat /\ Track(l) \in Nat
    BY SectorNumbers, NatQuotient DEF Track
  <1>2. /\ Distance(Track(s), Track(l)) \in Nat
        /\ Distance(Track(s), Track(l)) = Distance(Track(l), Track(s))
    BY <1>1 DEF Distance
  <1> QED
    BY <1>2, SectorNumbers, Product DEF SeekFrom

LEMMA LongestIs ==
    ASSUME NEW l \in RequestSectors \cup {0}
    PROVE  Longest(l) \in Nat /\ \A s \in RequestSectors \cup {0} : SeekFrom(l, s) <= Longest(l)
  <1> DEFINE T == RequestSectors \cup {0}
             g == [s \in T |-> SeekFrom(l, s)]
             S == {SeekFrom(l, s) : s \in T}
  <1>1. IsFiniteSet(T) /\ T # {}
    BY FS_AddElement DEF DevicesAssumption
  <1>2. g \in [T -> Nat]
    BY SeekFromIs
  <1>3. \A s \in T : g[s] = SeekFrom(l, s)
    OBVIOUS
  <1> HIDE DEF g, T
  <1>4. PICK x \in T : \A y \in T : g[x] >= g[y]
    BY <1>1, <1>2, LargestValue
  <1>5. g[x] \in S /\ \A v \in S : g[x] >= v
    BY <1>3, <1>4
  <1>6. Max(S) \in S /\ \A v \in S : Max(S) >= v
    <2> HIDE DEF S
    <2>1. \E z \in S : \A v \in S : z >= v
      BY <1>5
    <2> QED
      BY <2>1 DEF Max
  <1>7. Longest(l) = Max(S)
    BY DEF Longest, T
  <1>8. S \subseteq Nat
    BY <1>2, <1>3
  <1> QED
    BY <1>6, <1>7, <1>8 DEF T

LEMMA LatencyTimely ==
    ASSUME Shape, NEW s \in RequestSectors, NEW w
    PROVE  Timely(ComputeLatency(s, w), clock.now, s)
  <1> DEFINE now  == clock.now
             seek == Seek(s)
             rot  == Rotation(s)
             k    == TimeAfter(s) \div RotationTime
             m    == ModuloDiff(s, k)
             q    == (s - k) \div SectorsPerTrack
             when == ComputeLatency(s, w)
  <1>1. /\ now \in Nat /\ s \in Nat /\ seek \in Nat /\ rot \in 0..(RotationTime - 1)
        /\ TimeAfter(s) \in Nat /\ TimeAfter(s) = now + seek + rot
    <2>1. clock.now \in Nat
      BY SectorNumbers DEF Shape, Clock
    <2>2. s \in RequestSectors \cup {0} /\ s \in Nat
      BY SectorNumbers
    <2> QED
      BY <2>1, <2>2, Times DEF TimeAfter
  <1>2. k \in Int /\ TimeAfter(s) = k * RotationTime
    <2> DEFINE x == now + seek
    <2>1. x \in Int /\ rot = (-x) % RotationTime /\ x + rot = TimeAfter(s)
      BY <1>1 DEF Rotation
    <2> HIDE DEF x, rot
    <2>2. x + rot = ((x + rot) \div RotationTime) * RotationTime
      BY <2>1, NextBoundary, SectorNumbers
    <2>3. k \in Int
      BY <1>1, WholeQuotient, SectorNumbers
    <2> QED
      BY <2>1, <2>2, <2>3
  <1> HIDE DEF k
  <1>3. m \in 0..(SectorsPerTrack - 1) /\ q \in Int /\ s - k = q * SectorsPerTrack + m
    <2>1. s - k \in Int
      BY <1>1, <1>2
    <2>2. m = (s - k) % SectorsPerTrack
      BY DEF ModuloDiff
    <2> QED
      BY <2>1, <2>2, DivisionWithRest, RestBound, WholeQuotient, SectorNumbers
  <1>4. Longest(s) \in Nat /\ seek <= Longest(s)
    <2>1. s \in RequestSectors \cup {0} /\ disk.lastSector \in RequestSectors \cup {0}
      BY DEF Shape
    <2>2. seek = SeekFrom(disk.lastSector, s)
      BY DEF Seek, SeekFrom
    <2> QED
      BY <2>1, <2>2, SeekFromIs, LongestIs
  <1> HIDE DEF m, q, seek, rot, now
  <1>5. when = RotationTime \/ when = seek + rot + m * RotationTime + RotationTime
    BY DEF ComputeLatency, m, k, seek, rot
  <1> HIDE DEF when
  <1>6. CASE when = RotationTime
    <2>1. RotationTime < Longest(s) + Revolution + RotationTime
      BY <1>4, SectorNumbers
    <2> QED
      BY <1>6, <2>1, SectorNumbers DEF Timely, when
  <1>7. CASE when = seek + rot + m * RotationTime + RotationTime
    <2> DEFINE R == RotationTime
               N == SectorsPerTrack
    <2>1. R \in Nat \ {0} /\ N \in Nat \ {0} /\ Revolution \in Nat \ {0} /\ Revolution = N * R
      BY SectorNumbers
    <2> HIDE DEF R, N
    <2>2. m * R \in Nat /\ m * R <= Revolution - R
      <3>1. m \in Nat /\ m <= N - 1
        BY <1>3, <2>1 DEF N
      <3>2. m * R <= (N - 1) * R
        BY <2>1, <3>1
      <3>3. (N - 1) * R = N * R - R
        BY <2>1
      <3>4. m * R \in Nat
        BY <2>1, <3>1
      <3> QED
        BY <2>1, <3>2, <3>3, <3>4
    <2>3. when = seek + rot + m * R + R /\ rot \in 0..(R - 1)
      BY <1>1, <1>7 DEF R
    <2>4. when < Longest(s) + Revolution + R
      BY <1>1, <1>4, <2>1, <2>2, <2>3
    <2>5. now + when = k * R + m * R + R
      <3>1. now + seek + rot = k * R
        BY <1>1, <1>2 DEF R
      <3>2. k * R \in Int
        BY <1>2, <2>1
      <3> QED
        BY <1>1, <2>1, <2>2, <2>3, <3>1, <3>2
    <2>6. k * R + m * R + R = (s + 1) * R + (-q) * (N * R)
      <3>1. k + m = s - q * N
        <4>1. s - k = q * N + m
          BY <1>3 DEF N
        <4>2. q * N \in Int
          BY <1>3, <2>1
        <4> QED
          BY <1>1, <1>2, <1>3, <4>1, <4>2
      <3>2. k * R + m * R = (k + m) * R
        BY <1>2, <1>3, <2>1
      <3>3. (s - q * N) * R = s * R - (q * N) * R
        <4>1. q * N \in Int
          BY <1>3, <2>1
        <4> QED
          BY <1>1, <2>1, <4>1
      <3>4. (q * N) * R = q * (N * R)
        BY <1>3, <2>1
      <3>5. (-q) * (N * R) = -(q * (N * R))
        BY <1>3, <2>1
      <3>6. (s + 1) * R = s * R + R
        BY <1>1, <2>1
      <3>7. s * R \in Int /\ q * (N * R) \in Int
        BY <1>1, <1>3, <2>1
      <3>8. k * R + m * R = s * R - q * (N * R)
        BY <3>1, <3>2, <3>3, <3>4
      <3> QED
        BY <2>1, <3>5, <3>6, <3>7, <3>8
    <2>7. (now + when) % Revolution = ((s + 1) * R) % Revolution
      <3>1. (s + 1) * R \in Int /\ -q \in Int
        BY <1>1, <1>3, <2>1
      <3>2. ((s + 1) * R + (-q) * Revolution) % Revolution = ((s + 1) * R) % Revolution
        BY <2>1, <3>1, WholeTurns
      <3>3. now + when = (s + 1) * R + (-q) * Revolution
        BY <2>1, <2>5, <2>6
      <3> QED
        BY <3>2, <3>3
    <2> QED
      BY <2>4, <2>7 DEF Timely, when, now, R
  <1> QED
    BY <1>5, <1>6, <1>7

LEMMA TimelyLater ==
    ASSUME NEW when \in Int, NEW now \in Int, NEW l \in RequestSectors \cup {0}, NEW d \in Nat,
           Timely(when, now, l)
    PROVE  Timely(when - d, (now + d) % Revolution, l)
  <1>1. Longest(l) \in Nat
    BY LongestIs
  <1>2. when - d < Longest(l) + Revolution + RotationTime
    BY <1>1, SectorNumbers DEF Timely
  <1>3. (((now + d) % Revolution) + (when - d)) % Revolution = (now + when) % Revolution
    <2> DEFINE x == now + d
               y == when - d
    <2>1. x \in Int /\ y \in Int /\ x + y = now + when
      OBVIOUS
    <2> HIDE DEF x, y
    <2>2. ((x % Revolution) + y) % Revolution = (x + y) % Revolution
      BY <2>1, SumOfRest, SectorNumbers
    <2> QED
      BY <2>1, <2>2 DEF x, y
  <1>4. when - d > 0 => when > 0
    OBVIOUS
  <1>5. when <= RotationTime => when - d <= RotationTime
    BY SectorNumbers
  <1> QED
    BY <1>2, <1>3, <1>4, <1>5 DEF Timely

LEMMA OnTimeLater ==
    ASSUME NEW c \in Clock, NEW l \in RequestSectors \cup {0}, NEW d \in Nat,
           OnTime(c.pending, c.now, l)
    PROVE  OnTime(Advance(c, d).pending, Advance(c, d).now, l)
  <1> DEFINE a == Advance(c, d)
  <1>1. d \in Int
    OBVIOUS
  <1>2. /\ Len(a.pending) = Len(c.pending)
        /\ \A i \in 1..Len(c.pending) : a.pending[i] = [c.pending[i] EXCEPT !.when = @ - d]
    BY <1>1, AdvanceKeeps
  <1>3. c.now \in Int /\ c.pending \in Seq(Event)
    BY SectorNumbers DEF Clock
  <1>4. a.now = (c.now + d) % Revolution
    BY DEF Advance
  <1> HIDE DEF a
  <1>5. ASSUME NEW j \in 1..Len(a.pending), a.pending[j].type = "Disk"
        PROVE  Timely(a.pending[j].when, a.now, l)
    <2>1. c.pending[j] \in Event /\ j \in 1..Len(c.pending)
      BY <1>2, <1>3
    <2>2. a.pending[j].type = c.pending[j].type /\ a.pending[j].when = c.pending[j].when - d
      BY <1>2, <2>1 DEF Event
    <2>3. c.pending[j].when \in Int
      BY <2>1 DEF Event
    <2>4. Timely(c.pending[j].when, c.now, l)
      BY <1>5, <2>1, <2>2 DEF OnTime
    <2>5. Timely(c.pending[j].when - d, (c.now + d) % Revolution, l)
      BY <1>3, <2>3, <2>4, TimelyLater
    <2> QED
      BY <1>4, <2>2, <2>5
  <1>6. OnTime(a.pending, a.now, l)
    BY <1>5 DEF OnTime
  <1> QED
    BY <1>6 DEF a

LEMMA OnTimeTail ==
    ASSUME NEW q \in Seq(Event), q # << >>, NEW now, NEW l, OnTime(q, now, l)
    PROVE  OnTime(Tail(q), now, l)
  BY TailKeeps DEF OnTime

LEMMA OnTimeMore ==
    ASSUME NEW c \in Clock, NEW type \in Types \ {"Disk"}, NEW d \in Int, NEW l,
           OnTime(c.pending, c.now, l)
    PROVE  OnTime(Schedule(c, type, d).pending, Schedule(c, type, d).now, l)
  <1> DEFINE e == [type |-> type, when |-> d]
             q == c.pending
             r == SortedInsert(q, e)
             a == Schedule(c, type, d)
  <1>1. a.now = c.now /\ a.pending = r
    BY ScheduleKeeps
  <1>2. q \in Seq(Event) /\ e \in Event /\ e.type # "Disk"
    BY DEF Clock, Event
  <1>3. /\ Len(r) = Len(q) + 1
        /\ \E at \in 1..(Len(q) + 1) : \A i \in 1..(Len(q) + 1) :
              r[i] = IF i < at THEN q[i] ELSE IF i = at THEN e ELSE q[i - 1]
    BY <1>2, InsertIs
  <1>4. PICK at \in 1..(Len(q) + 1) : \A i \in 1..(Len(q) + 1) :
              r[i] = IF i < at THEN q[i] ELSE IF i = at THEN e ELSE q[i - 1]
    BY <1>3
  <1> HIDE DEF e, r, a
  <1>5. ASSUME NEW j \in 1..Len(r), r[j].type = "Disk"
        PROVE  Timely(r[j].when, c.now, l)
    <2>1. j \in 1..(Len(q) + 1) /\ Len(q) \in Nat
      BY <1>2, <1>3
    <2>2. \E i \in 1..Len(q) : r[j] = q[i]
      <3>1. CASE j < at
        BY <1>4, <2>1, <3>1
      <3>2. CASE j > at
        <4>1. j - 1 \in 1..Len(q) /\ r[j] = q[j - 1]
          BY <1>4, <2>1, <3>2
        <4> QED
          BY <4>1
      <3>3. CASE j = at
        BY <1>2, <1>4, <1>5, <2>1, <3>3
      <3> QED
        BY <2>1, <3>1, <3>2, <3>3
    <2> QED
      BY <1>5, <2>2 DEF OnTime
  <1>6. OnTime(a.pending, a.now, l)
    BY <1>1, <1>5 DEF OnTime
  <1> QED
    BY <1>6 DEF a

Timed(c, l) == c \in Clock /\ OnTime(c.pending, c.now, l)

LEMMA TimedEnable ==
    ASSUME NEW c, NEW l \in RequestSectors \cup {0}, Timed(c, l), Enable(c)
    PROVE  Timed(clock', l)
  <1>1. SystemTick \in Nat /\ SystemTick \in Int
    BY DEF DevicesAssumption
  <1>2. clock' = Advance(c, SystemTick)
    BY DEF Enable
  <1>3. Advance(c, SystemTick) \in Clock
    BY <1>1, AdvanceKeeps DEF Timed
  <1> QED
    BY <1>1, <1>2, <1>3, OnTimeLater DEF Timed

LEMMA TimedP ==
    ASSUME NEW t, NEW s, NEW c, NEW at, NEW l \in RequestSectors \cup {0},
           Timed(c, l), P(t, s, c, at)
    PROVE  Timed(clock', l)
  <1>1. clock' = c \/ Enable(c)
    BY DEF P
  <1> QED
    BY <1>1, TimedEnable

LEMMA TimedMore ==
    ASSUME NEW c, NEW l \in RequestSectors \cup {0}, Timed(c, l),
           NEW type \in Types \ {"Disk"}, NEW d \in Int
    PROVE  Timed(Schedule(c, type, d), l)
  <1>1. type \in Types /\ c \in Clock
    BY DEF Timed
  <1>2. Schedule(c, type, d) \in Clock
    BY <1>1, ScheduleKeeps
  <1> QED
    BY <1>1, <1>2, OnTimeMore DEF Timed

LEMMA TimedFire ==
    ASSUME Shape, NEW c, NEW l \in RequestSectors \cup {0},
           Timed(c, l), c.pending # << >>, Fire(c)
    PROVE  Timed(clock', l) /\ disk'.lastSector = disk.lastSector
  <1> DEFINE rest == [c EXCEPT !.pending = SortedRemove(@)]
  <1>1. c \in Clock /\ c.pending \in Seq(Event)
    BY DEF Timed, Clock
  <1>2. Timed(rest, l)
    <2>1. rest.pending = Tail(c.pending) /\ rest.now = c.now /\ rest \in Clock
      BY <1>1, TailKeeps DEF Clock, SortedRemove
    <2> HIDE DEF rest
    <2> QED
      BY <1>1, <2>1, OnTimeTail DEF Timed
  <1>3. TimerExpired(rest) \/ DiskDone(rest) \/ CheckCharAvail(rest) \/ WriteDone(rest)
    BY DEF Fire
  <1> HIDE DEF rest
  <1>4. disk'.lastSector = disk.lastSector
    BY <1>3 DEF TimerExpired, DiskDone, CheckCharAvail, WriteDone, devices, Shape
  <1>5. /\ ConsoleTime \in Int /\ \A i \in TimerIntervals : i \in Int
        /\ "Timer" \in Types \ {"Disk"} /\ "ConsoleRead" \in Types \ {"Disk"}
    BY DEF DevicesAssumption, Types
  <1>6. CASE TimerExpired(rest)
    <2>1. PICK i \in TimerIntervals : clock' = Schedule(rest, "Timer", i)
      BY <1>6 DEF TimerExpired
    <2> QED
      BY <1>2, <1>4, <1>5, <2>1, TimedMore
  <1>7. CASE DiskDone(rest) \/ WriteDone(rest)
    BY <1>2, <1>4, <1>7 DEF DiskDone, WriteDone
  <1>8. CASE CheckCharAvail(rest)
    <2>1. clock' = Schedule(rest, "ConsoleRead", ConsoleTime)
      BY <1>8 DEF CheckCharAvail
    <2> QED
      BY <1>2, <1>4, <1>5, <2>1, TimedMore
  <1> QED
    BY <1>3, <1>6, <1>7, <1>8

LEMMA TimedRequest ==
    ASSUME Sound, NEW t \in Threads, Request(t)
    PROVE  Timed(clock', disk'.lastSector)
  <1> USE DEF Sound
  <1> DEFINE r == call[t]
             s == r.sector
             c == UpdateLast(clock, s)
             d == ComputeLatency(s, r.writing)
             a == Schedule(c, "Disk", d)
             e == [type |-> "Disk", when |-> d]
             q == clock.pending
  <1>1. Running(t) /\ pc[t] = "Request" /\ P(t, "disk", a, "Release") /\ disk'.lastSector = s
    BY DEF Request
  <1>2. t \in DiskThreads /\ r \in Calls /\ s \in RequestSectors
    <2>1. t \in DiskThreads
      BY <1>1, Constants DEF Shape, EchoSteps
    <2>2. r \in Calls
      BY <1>1 DEF Shape
    <2> QED
      BY <2>1, <2>2 DEF Calls
  <1>3. Lacks(q, "Disk")
    <2>1. t = lock.owner
      <3>1. asleep[t] = None /\ ~Queued(lock.queue, t)
        BY <1>1, Runner
      <3> QED
        BY <1>1, <1>2, <3>1 DEF Parts, LockSound
    <2>2. ~disk.active
      BY <1>1, <2>1, Runner
    <2> QED
      BY <2>2 DEF Parts, DiskSound
  <1>4. Timely(d, clock.now, s)
    BY <1>2, LatencyTimely
  <1>5. c \in Clock /\ c.pending = q /\ c.now = clock.now /\ d \in Int /\ "Disk" \in Types
    BY <1>2, LatencyTyped DEF Types
  <1> HIDE DEF d, c
  <1>6. a \in Clock /\ a.now = clock.now /\ a.pending = SortedInsert(q, e)
    BY <1>5, ScheduleKeeps
  <1>7. q \in Seq(Event) /\ e \in Event /\ e.when = d
    BY <1>5 DEF Shape, Clock, Event, Types
  <1> DEFINE x == SortedInsert(q, e)
  <1>8. /\ Len(x) = Len(q) + 1
        /\ \E at \in 1..(Len(q) + 1) : \A i \in 1..(Len(q) + 1) :
              x[i] = IF i < at THEN q[i] ELSE IF i = at THEN e ELSE q[i - 1]
    BY <1>7, InsertIs
  <1>9. PICK at \in 1..(Len(q) + 1) : \A i \in 1..(Len(q) + 1) :
              x[i] = IF i < at THEN q[i] ELSE IF i = at THEN e ELSE q[i - 1]
    BY <1>8
  <1> HIDE DEF x, e, q, a
  <1>10. ASSUME NEW j \in 1..Len(x), x[j].type = "Disk"
         PROVE  x[j].when = d
    <2>1. j \in 1..(Len(q) + 1) /\ Len(q) \in Nat
      BY <1>7, <1>8
    <2>2. j < at => j \in 1..Len(q)
      BY <2>1
    <2>3. j > at => j - 1 \in 1..Len(q)
      BY <2>1
    <2>4. j = at
      BY <1>3, <1>9, <1>10, <2>1, <2>2, <2>3 DEF Lacks
    <2> QED
      BY <1>7, <1>9, <2>1, <2>4
  <1>11. Timed(a, s)
    <2>1. a.pending = x
      BY <1>6 DEF x
    <2> QED
      BY <1>4, <1>6, <1>10, <2>1 DEF Timed, OnTime
  <1> QED
    BY <1>1, <1>2, <1>11, TimedP

LEMMA TimedStep ==
    ASSUME Sound, Timed(clock, disk.lastSector), [Next]_vars
    PROVE  Timed(clock', disk'.lastSector)
  <1>1. disk.lastSector \in RequestSectors \cup {0} /\ clock \in Clock
    BY DEF Sound, Shape
  <1>2. CASE Enable(clock) /\ disk' = disk
    BY <1>1, <1>2, TimedEnable
  <1>3. CASE clock' = clock /\ disk' = disk
    BY <1>3
  <1>4. CASE Sleep \/ AfterTick \/ LeaveIdle \/ Halt \/ UNCHANGED vars
    BY <1>2, <1>3, <1>4 DEF Sleep, AfterTick, LeaveIdle, Halt, vars, devices
  <1>5. CASE Resume
    <2>1. disk' = disk /\ (clock' = clock \/ Enable(clock))
      BY <1>5 DEF Resume, P, devices
    <2> QED
      BY <1>2, <1>3, <2>1
  <1>6. CASE Interrupt \/ StillIdle
    <2>1. clock.pending # << >> /\ Fire(clock)
      BY <1>6 DEF Interrupt, StillIdle, IsDue
    <2> QED
      BY <1>1, <2>1, TimedFire DEF Sound
  <1>7. CASE Idle
    <2> DEFINE d == Max({0, Head(clock.pending).when})
               c == Advance(clock, d)
    <2>1. clock.pending # << >> /\ Fire(c)
      BY <1>7 DEF Idle, NothingToDo
    <2>2. d \in Nat /\ c \in Clock /\ c.pending # << >>
      BY <2>1, JumpIs DEF Sound, Called
    <2> HIDE DEF d
    <2>3. Timed(c, disk.lastSector)
      BY <1>1, <2>2, OnTimeLater DEF Timed
    <2> HIDE DEF c
    <2> QED
      BY <1>1, <2>1, <2>2, <2>3, TimedFire DEF Sound
  <1>8. ASSUME NEW t \in Threads, ThreadStep(t)
        PROVE  Timed(clock', disk'.lastSector)
    <2>1. CASE StartCall(t) \/ Release(t) \/ AwaitChar(t) \/ Finish(t)
      <3>1. disk' = disk /\ (clock' = clock \/ Enable(clock))
        BY <2>1 DEF StartCall, Release, AwaitChar, P, Finish, devices
      <3> QED
        BY <1>2, <1>3, <3>1
    <2>2. CASE Echo(t)
      <3> DEFINE c == Schedule(clock, "ConsoleWrite", ConsoleTime)
                 at == IF console.incoming = Quit THEN "Return" ELSE "Idle"
      <3>1. disk' = disk /\ P(t, "writeDone", c, at)
        BY <2>2 DEF Echo
      <3>2. ConsoleTime \in Int /\ "ConsoleWrite" \in Types \ {"Disk"}
        BY DEF DevicesAssumption, Types
      <3>3. Timed(c, disk.lastSector)
        BY <1>1, <3>2, TimedMore
      <3> HIDE DEF c, at
      <3> QED
        BY <1>1, <3>1, <3>3, TimedP
    <2>3. CASE Request(t)
      BY <2>3, TimedRequest
    <2> QED
      BY <1>8, <2>1, <2>2, <2>3 DEF ThreadStep
  <1> QED
    BY <1>4, <1>5, <1>6, <1>7, <1>8 DEF Next

LEMMA TimedPasses == Shape /\ Timed(clock, disk.lastSector) => PassesTheHead
  <1> SUFFICES ASSUME Shape, Timed(clock, disk.lastSector), NEW i \in Pending("Disk")
               PROVE  Timely(clock.pending[i].when, clock.now, disk.lastSector)
    BY DEF PassesTheHead, Timely, Longest, SeekFrom, Seek
  <1>1. i \in 1..Len(clock.pending) /\ clock.pending[i].type = "Disk"
    BY DEF Pending, Shape, Clock
  <1> QED
    BY <1>1 DEF Timed, OnTime

(* A request that does not come from the track buffer ends when its sector   *)
(* has just passed the head, and within the longest seek, a revolution and a *)
(* sector: what ComputeLatency, TimeToSeek and UpdateLast work out.          *)
THEOREM SectorsPassTheHead == Spec => []PassesTheHead
  <1> DEFINE T == Timed(clock, disk.lastSector)
  <1>1. Init => T
    <2>1. Init => Shape /\ ~disk.active /\ DiskSound
      <3>1. Init => ~disk.active
        BY DEF Init, NewDisk
      <3> QED
        BY <3>1, InitSound DEF Sound, Parts
    <2> QED
      BY <2>1 DEF DiskSound, Shape, Timed, OnTime, Lacks
  <1>2. Sound /\ T /\ [Next]_vars => T'
    BY TimedStep
  <1>3. Sound /\ T => PassesTheHead
    BY TimedPasses DEF Sound
  <1> HIDE DEF T
  <1> QED
    BY <1>1, <1>2, <1>3, InitSound, SoundStep, PTL DEF Spec

=============================================================================
