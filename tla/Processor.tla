----------------------------- MODULE Processor -----------------------------
(***************************************************************************)
(* What the instructions of the MIPS do, for the programs that run on the  *)
(* simulator: arithmetic on integers, each instruction in one step, and    *)
(* branches that take effect after the instruction that follows.           *)
(***************************************************************************)
EXTENDS Words

CONSTANTS Registers, R2, R31, TopBits, Results, Starts

VARIABLES registers, hi, lo, pc, next, memory, code, halted

vars == <<registers, hi, lo, pc, next, memory, code, halted>>

i == code[pc]
s == registers[i.rs]
t == registers[i.rt]
immediate == SignExtend(i.field, HalfBits)

Executes(op) == ~halted /\ pc % 4 = 0 /\ i.op = op

(* The next instruction is that at next, and after it the one at a. *)
GoesTo(a) == pc' = next /\ next' = a /\ UNCHANGED <<code, halted>>
GoesOn    == GoesTo(Wrap(next + 4))

Set(r, n) ==
    /\ registers' = [registers EXCEPT ![r] = Wrap(n), ![0] = 0]
    /\ UNCHANGED <<hi, lo, memory>>

Stops == halted' = TRUE /\ UNCHANGED <<registers, hi, lo, pc, next, memory, code>>

-----------------------------------------------------------------------------
(* Arithmetic *)

Fits(n) == -(Modulus \div 2) <= n /\ n < Modulus \div 2

Checked(op, r, n) == Executes(op) /\ IF Fits(n) THEN Set(r, n) /\ GoesOn ELSE Stops

Gives(op, r, n) == Executes(op) /\ Set(r, n) /\ GoesOn

OneIf(b) == IF b THEN 1 ELSE 0

(* The word whose bit b is one when Holds(b's bits in v and w). *)
Bitwise(v, w, Holds(_, _)) ==
    FromBits({b \in 0..(WordBits - 1) : Holds(b \in Bits(v), b \in Bits(w))})

Logic ==
    LET both(x, y)    == x /\ y
        either(x, y)  == x \/ y
        oneOf(x, y)   == x # y
        neither(x, y) == ~x /\ ~y
        low           == i.field
    IN  \/ Gives("AND", i.rd, Bitwise(s, t, both)) \/ Gives("ANDI", i.rt, Bitwise(s, low, both))
        \/ Gives("OR", i.rd, Bitwise(s, t, either)) \/ Gives("ORI", i.rt, Bitwise(s, low, either))
        \/ Gives("XOR", i.rd, Bitwise(s, t, oneOf)) \/ Gives("XORI", i.rt, Bitwise(s, low, oneOf))
        \/ Gives("NOR", i.rd, Bitwise(s, t, neither))

Sums ==
    \/ Checked("ADD", i.rd, Signed(s) + Signed(t))
    \/ Checked("ADDI", i.rt, Signed(s) + Signed(immediate))
    \/ Checked("SUB", i.rd, Signed(s) - Signed(t))
    \/ Gives("ADDU", i.rd, s + t) \/ Gives("ADDIU", i.rt, s + immediate)
    \/ Gives("SUBU", i.rd, s - t)
    \/ Gives("LUI", i.rt, i.field * TwoTo[HalfBits])

Comparisons ==
    \/ Gives("SLT", i.rd, OneIf(Signed(s) < Signed(t)))
    \/ Gives("SLTI", i.rt, OneIf(Signed(s) < Signed(immediate)))
    \/ Gives("SLTU", i.rd, OneIf(s < t))
    \/ Gives("SLTIU", i.rt, OneIf(s < immediate))

(* Shifts to the left multiply, those to the right divide, of the integer    *)
(* or of the word.                                                           *)
Shifting ==
    LET by == TwoTo[i.field]
        byS == TwoTo[s % WordBits]
    IN  \/ Gives("SLL", i.rd, t * by) \/ Gives("SLLV", i.rd, t * byS)
        \/ Gives("SRL", i.rd, t \div by) \/ Gives("SRLV", i.rd, t \div byS)
        \/ Gives("SRA", i.rd, Signed(t) \div by) \/ Gives("SRAV", i.rd, Signed(t) \div byS)

(* A product has two words; a division by zero gives zero. *)
Product(n) == LET m == n % (Modulus * Modulus) IN hi' = m \div Modulus /\ lo' = m % Modulus

Division(a, b) ==
    \E q \in (-Modulus)..Modulus, r \in (-Modulus)..Modulus :
        /\ IF b = 0 THEN q = 0 /\ r = 0
           ELSE a = q * b + r /\ r * r < b * b /\ (r = 0 \/ (r > 0 <=> a > 0))
        /\ lo' = Wrap(q) /\ hi' = Wrap(r)

HiAndLo ==
    \/ Gives("MFHI", i.rd, hi) \/ Gives("MFLO", i.rd, lo)
    \/ Executes("DIV") /\ ~Fits(-Signed(s)) /\ Signed(t) = -1 /\ Stops
    \/ /\ \/ Executes("MULT") /\ Product(Signed(s) * Signed(t))
          \/ Executes("MULTU") /\ Product(s * t)
          \/ Executes("DIV") /\ (Fits(-Signed(s)) \/ Signed(t) # -1)
             /\ Division(Signed(s), Signed(t))
          \/ Executes("DIVU") /\ Division(s, t)
          \/ Executes("MTHI") /\ hi' = s /\ UNCHANGED lo
          \/ Executes("MTLO") /\ lo' = s /\ UNCHANGED hi
       /\ GoesOn /\ UNCHANGED <<registers, memory>>

-----------------------------------------------------------------------------
(* Branches, jumps and exceptions *)

Branches(op, condition) ==
    /\ Executes(op)
    /\ GoesTo(Wrap(IF condition THEN next + 4 * Signed(immediate) ELSE next + 4))
    /\ UNCHANGED <<registers, hi, lo, memory>>

Branching ==
    \/ Branches("BEQ", s = t) \/ Branches("BNE", s # t)
    \/ Branches("BGTZ", Signed(s) > 0) \/ Branches("BLEZ", Signed(s) <= 0)
    \/ Branches("BGEZ", Signed(s) >= 0) \/ Branches("BLTZ", Signed(s) < 0)

(* Those that link read their register after they set the link. *)
Linking(op, link, Target(_)) ==
    /\ Executes(op)
    /\ Set(link, next + 4)
    /\ GoesTo(Wrap(Target([registers EXCEPT ![link] = Wrap(next + 4)][i.rs])))

Jumping ==
    LET segment   == TwoTo[WordBits - TopBits]
        jump      == segment * (Wrap(next + 4) \div segment) + 4 * i.field
        near      == next + 4 * Signed(immediate)
        far(x)    == jump
        atLeast(x) == IF Signed(x) >= 0 THEN near ELSE next + 4
        less(x)    == IF Signed(x) < 0 THEN near ELSE next + 4
        there(x)   == x
    IN  \/ Linking("JAL", R31, far) \/ Linking("JALR", i.rd, there)
        \/ Linking("BGEZAL", R31, atLeast) \/ Linking("BLTZAL", R31, less)
        \/ /\ \/ Executes("J") /\ GoesTo(jump)
              \/ Executes("JR") /\ GoesTo(s)
           /\ UNCHANGED <<registers, hi, lo, memory>>

Exceptions ==
    \/ Executes("RES") /\ Stops
    \/ Executes("UNIMP") /\ Stops
    \/ ~halted /\ pc % 4 # 0 /\ Stops
    \/ Executes("SYSCALL") /\ (\E rv \in Results : Set(R2, rv)) /\ GoesOn

-----------------------------------------------------------------------------
(* Memory *)

At == Wrap(s + immediate)

(* The instruction uses n bytes at a multiple of n. *)
Uses(op, n) == Executes(op) /\ At % n = 0

Loading(op, n, Value(_)) ==
    \/ Uses(op, n) /\ Set(i.rt, Value(BytesAt(memory, At, n))) /\ GoesOn
    \/ Executes(op) /\ At % n # 0 /\ Stops

Storing(op, n, w) ==
    \/ Uses(op, n) /\ memory' = Stored(memory, At, n, w)
       /\ GoesOn /\ UNCHANGED <<registers, hi, lo>>
    \/ Executes(op) /\ At % n # 0 /\ Stops

Memory ==
    LET plain(w)  == w
        byte(w)   == SignExtend(w, ByteBits)
        half(w)   == SignExtend(w, HalfBits)
        top       == TwoTo[3 * ByteBits]
        right(w)  == TwoTo[ByteBits] * (t \div TwoTo[ByteBits]) + (w \div top)
        high      == top * (t % TwoTo[ByteBits]) + (BytesAt(memory, At, 4) % top)
    IN  \/ Loading("LB", 1, byte) \/ Loading("LBU", 1, plain)
        \/ Loading("LH", 2, half) \/ Loading("LHU", 2, plain)
        \/ Loading("LW", 4, plain) \/ Loading("LWL", 4, plain) \/ Loading("LWR", 4, right)
        \/ Storing("SB", 1, t) \/ Storing("SH", 2, t) \/ Storing("SW", 4, t)
        \/ Storing("SWL", 4, t) \/ Storing("SWR", 4, high)

-----------------------------------------------------------------------------

Init ==
    /\ \E p \in Starts :
          registers \in p.registers /\ memory \in p.memory /\ code \in p.code
    /\ hi = 0 /\ lo = 0 /\ pc = 0 /\ next = 4 /\ halted = FALSE

Next ==
    \/ Logic \/ Sums \/ Comparisons \/ Shifting \/ HiAndLo
    \/ Branching \/ Jumping \/ Exceptions \/ Memory

Spec == Init /\ [][Next]_vars
=============================================================================
