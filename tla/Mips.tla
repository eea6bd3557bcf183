-------------------------------- MODULE Mips --------------------------------
(***************************************************************************)
(* The MIPS simulator of machine/mipssim.cc, which runs one thread of a    *)
(* user program: Machine::OneInstruction with its delayed loads and        *)
(* delayed branches, RaiseException, and what ExceptionHandler does to the *)
(* registers.  An instruction is fetched again after a page fault and      *)
(* starts from the beginning.                                              *)
(*                                                                         *)
(* int arithmetic wraps.  The debugger's registers (PrevPCReg, BadVAddrReg)*)
(* are left out.  A word has 4 * ByteBits bits, and what depends on the    *)
(* width is scaled with it.                                                *)
(***************************************************************************)
EXTENDS Words

CONSTANTS Registers,    \* the general registers, with R0 = 0
          R2, R31,      \* the one that gets a syscall's result; the link register
          TopBits,      \* the bits of an address a jump keeps (4 on the MIPS)
          Results,      \* what a syscall returns
          Starts        \* what may be run: sets of codes, registers and memories

(* The formats of the instructions. *)
Immediates == {"ADDI", "ADDIU", "SLTI", "SLTIU", "ANDI", "ORI", "XORI", "LUI"}
Loads      == {"LB", "LBU", "LH", "LHU", "LW"}
Merges     == {"LWL", "LWR"}
Stores     == {"SB", "SH", "SW", "SWL", "SWR"}
Branches   == {"BEQ", "BNE", "BLEZ", "BGTZ", "BLTZ", "BGEZ", "BLTZAL", "BGEZAL"}
Jumps      == {"J", "JAL"}
IFMT       == Immediates \cup Loads \cup Merges \cup Stores \cup Branches
Shifts     == {"SLL", "SRL", "SRA"}
RegisterJumps == {"JR", "JALR"}
HiLo       == {"MTHI", "MTLO", "MULT", "MULTU", "DIV", "DIVU"}
Sums          == {"ADD", "ADDI", "ADDIU", "ADDU", "AND", "ANDI"}
LogicAndMoves == {"NOR", "OR", "ORI", "XOR", "XORI", "LUI", "MFHI", "MFLO"}
Differences   == {"SUB", "SUBU", "SLT", "SLTU", "SLLV", "SRLV", "SRAV"}
Arithmetic    == Immediates \cup Shifts \cup Sums \cup LogicAndMoves \cup Differences
Opcodes    == IFMT \cup Jumps \cup RegisterJumps \cup HiLo \cup Arithmetic
                   \cup {"SYSCALL", "RES", "UNIMP"}

(* field is what the instruction has besides registers: an immediate of half *)
(* a word, the target of a jump or the count of a shift.                     *)
FieldLimit(op) == CASE op \in IFMT  -> TwoTo[HalfBits]
                    [] op \in Jumps -> TwoTo[WordBits - TopBits - 2]
                    [] OTHER -> WordBits

Instruction ==
    {i \in [op : Opcodes, rs : Registers, rt : Registers, rd : Registers, field : Word] :
        i.field < FieldLimit(i.op)}

MipsAssumption ==
    /\ Registers \subseteq Nat /\ {0, R2, R31} \subseteq Registers /\ R2 # 0
    /\ TopBits \in 0..(WordBits - 3)
    /\ Results \subseteq Word
    /\ \A s \in Starts :
          /\ s.code \subseteq [{a \in Word : a % 4 = 0} -> Instruction]
          /\ s.registers \subseteq [Registers -> Word] /\ \A r \in s.registers : r[0] = 0
          /\ s.memory \subseteq [Word -> Byte]

ASSUME MipsAssumption

VARIABLES
    registers,              \* the general registers
    HiReg, LoReg,
    PCReg, NextPCReg,
    LoadReg, LoadValueReg,  \* the delayed load; R0 when there is none
    memory, code,
    halted                  \* Nachos has halted or aborted

counters == <<PCReg, NextPCReg>>
mipsVars == <<registers, HiReg, LoReg, PCReg, NextPCReg, LoadReg, LoadValueReg, memory,
          code, halted>>

-----------------------------------------------------------------------------

Aligned(a, n) == a % n = 0

(* The instruction that is executed, and its registers' values. *)
instr == code[PCReg]
rsv   == registers[instr.rs]
rtv   == registers[instr.rt]
Is(ops) == ~halted /\ Aligned(PCReg, 4) /\ instr.op \in ops

(* Decode: immediates are signed. *)
extra ==
    IF instr.op \in IFMT THEN SignExtend(instr.field, HalfBits) ELSE instr.field

IndexToAddr(x) == ShiftLeft(x, 2)

Destination == IF instr.op \in Immediates THEN instr.rt ELSE instr.rd

-----------------------------------------------------------------------------
(* Exceptions *)

(* Variant of Loaded: R0 is not reset. *)
LoadedAlsoR0(regs) == [regs EXCEPT ![LoadReg] = LoadValueReg]

(* DelayedLoad: the pending load takes effect, after what the instruction    *)
(* wrote, and R0 stays zero.                                                 *)
Loaded(regs) == [regs EXCEPT ![LoadReg] = LoadValueReg, ![0] = 0]

DelayedLoad(regs, nextReg, nextValue) ==
    /\ registers' = Loaded(regs)
    /\ LoadReg' = nextReg
    /\ LoadValueReg' = nextValue

(* The address the instruction reads or writes; of the code that checks it,  *)
(* LH, LW and the merging ones come before Translate, which checks the rest. *)
Address == Wrap(rsv + extra)

Size == CASE instr.op \in {"LB", "LBU", "SB"} -> 1
          [] instr.op \in {"LH", "LHU", "SH"} -> 2
          [] OTHER -> 4

UsesMemory == instr.op \in Loads \cup Merges \cup Stores

(* The page of the instruction or of its data is not in the TLB. *)
PageFault ==
    /\ ~halted /\ Aligned(PCReg, 4)
    /\ DelayedLoad(registers, 0, 0)
    /\ UNCHANGED <<HiReg, LoReg, counters, memory, code, halted>>

Halts ==
    /\ DelayedLoad(registers, 0, 0)
    /\ halted' = TRUE
    /\ UNCHANGED <<HiReg, LoReg, counters, memory, code>>

(* An address error, or for the merging instructions a failed assertion. *)
AddressError ==
    /\ ~halted
    /\ \/ ~Aligned(PCReg, 4)
       \/ Aligned(PCReg, 4) /\ UsesMemory /\ ~Aligned(Address, Size)
    /\ Halts

Illegal == Is({"RES", "UNIMP"}) /\ Halts

(* The result is put in R2 and the counters are advanced by the kernel. *)
Syscall ==
    /\ Is({"SYSCALL"})
    /\ \E rv \in Results : registers' = [Loaded(registers) EXCEPT ![R2] = rv]
    /\ LoadReg' = 0 /\ LoadValueReg' = 0
    /\ PCReg' = NextPCReg
    /\ NextPCReg' = Wrap(NextPCReg + 4)
    /\ UNCHANGED <<HiReg, LoReg, memory, code, halted>>

-----------------------------------------------------------------------------
(* Arithmetic *)

(* An instruction ends: the pending load, the next one, and the counters. *)
Completes(regs, nextReg, nextValue, pcAfter) ==
    /\ DelayedLoad(regs, nextReg, nextValue)
    /\ PCReg' = NextPCReg
    /\ NextPCReg' = pcAfter
    /\ UNCHANGED <<code, halted>>

Following == Wrap(NextPCReg + 4)

SameSign(v, w) == Negative(v) <=> Negative(w)

Overflows ==
    CASE instr.op = "ADD"  -> SameSign(rsv, rtv) /\ ~SameSign(rsv, Wrap(rsv + rtv))
      [] instr.op = "ADDI" -> SameSign(rsv, extra) /\ ~SameSign(extra, Wrap(rsv + extra))
      [] instr.op = "SUB"  -> ~SameSign(rsv, rtv) /\ ~SameSign(rsv, Wrap(rsv - rtv))
      [] OTHER -> FALSE

Truth(b) == IF b THEN 1 ELSE 0

(* What an arithmetic instruction computes. *)
SumOrAnd ==
    CASE instr.op \in {"ADD", "ADDU"}   -> Wrap(rsv + rtv)
      [] instr.op \in {"ADDI", "ADDIU"} -> Wrap(rsv + extra)
      [] instr.op = "AND"  -> And(rsv, rtv)
      [] instr.op = "ANDI" -> And(rsv, Low(extra, HalfBits))

(* The shifts by a register take its low bits.  SRL and SRLV keep the sign.  *)
ShiftOrCompare ==
    LET count == rsv % WordBits
    IN  CASE instr.op \in {"SUB", "SUBU"} -> Wrap(rsv - rtv)
          [] instr.op = "SLT"   -> Truth(Signed(rsv) < Signed(rtv))
          [] instr.op = "SLTI"  -> Truth(Signed(rsv) < Signed(extra))
          [] instr.op = "SLTU"  -> Truth(rsv < rtv)
          [] instr.op = "SLTIU" -> Truth(rsv < extra)
          [] instr.op = "SLL"   -> ShiftLeft(rtv, extra)
          [] instr.op = "SLLV"  -> ShiftLeft(rtv, count)
          [] instr.op \in {"SRA", "SRL"}   -> ShiftRight(rtv, extra)
          [] instr.op \in {"SRAV", "SRLV"} -> ShiftRight(rtv, count)

(* OR takes its first operand twice. *)
LogicOrMove ==
    CASE instr.op = "NOR"  -> Not(Or(rsv, rtv))
      [] instr.op = "OR"   -> Or(rsv, rsv)
      [] instr.op = "ORI"  -> Or(rsv, Low(extra, HalfBits))
      [] instr.op = "XOR"  -> Xor(rsv, rtv)
      [] instr.op = "XORI" -> Xor(rsv, Low(extra, HalfBits))
      [] instr.op = "LUI"  -> ShiftLeft(extra, HalfBits)
      [] instr.op = "MFHI" -> HiReg
      [] instr.op = "MFLO" -> LoReg

Value == IF instr.op \in Sums THEN SumOrAnd
         ELSE IF instr.op \in LogicAndMoves THEN LogicOrMove
         ELSE ShiftOrCompare

Overflow == Is({"ADD", "ADDI", "SUB"}) /\ Overflows /\ Halts

Compute ==
    /\ Is(Arithmetic) /\ ~Overflows
    /\ Completes([registers EXCEPT ![Destination] = Value], 0, 0, Following)
    /\ UNCHANGED <<HiReg, LoReg, memory>>

(* Mult, one bit of a after the other: lo and hi add up the b of those that  *)
(* are set.                                                                  *)
Added(m) ==
    LET lo    == Wrap(m.lo + m.bLo)
        carry == Truth(lo < m.bLo)
    IN  IF m.a % 2 = 1 THEN [m EXCEPT !.lo = lo, !.hi = Wrap(m.hi + carry + m.bHi)] ELSE m

Doubled(m) ==
    [m EXCEPT !.bHi = Wrap(ShiftLeft(@, 1) + Truth(Negative(m.bLo))),
              !.bLo = ShiftLeft(@, 1),
              !.a = ShiftRight(@, 1)]

MultLoop(a, b) ==
    LET after[n \in 0..WordBits] ==
            IF n = 0 THEN [a |-> a, bLo |-> b, bHi |-> 0, lo |-> 0, hi |-> 0]
            ELSE IF after[n - 1].a = 0 THEN after[n - 1]
            ELSE Doubled(Added(after[n - 1]))
    IN  after[WordBits]

Negated(m) ==
    LET lo == Wrap(Not(m.lo) + 1)
    IN  [m EXCEPT !.lo = lo, !.hi = Wrap(Not(@) + Truth(lo = 0))]

(* The signed product is that of the absolute values; the least integer is   *)
(* its own.                                                                  *)
Mult(a, b, signedArith) ==
    LET absolute(w) == IF signedArith /\ Negative(w) THEN Wrap(-w) ELSE w
        product     == MultLoop(absolute(a), absolute(b))
    IN  IF signedArith /\ ~SameSign(a, b) /\ a # 0 /\ b # 0 THEN Negated(product)
        ELSE product

(* The division of C, which truncates. *)
Quotient(a, b) == LET q == (IF a < 0 THEN -a ELSE a) \div (IF b < 0 THEN -b ELSE b)
                  IN  IF (a < 0) <=> (b < 0) THEN q ELSE -q

(* The least integer divided by -1 does not fit, and the host stops. *)
DivisionTraps ==
    /\ Is({"DIV"})
    /\ Signed(rtv) = -1 /\ rsv = Modulus \div 2
    /\ Halts

Divide(a, b) ==
    /\ LoReg' = IF b = 0 THEN 0 ELSE Wrap(Quotient(a, b))
    /\ HiReg' = IF b = 0 THEN 0 ELSE Wrap(a - Quotient(a, b) * b)

MultiplyOrDivide ==
    /\ Is(HiLo)
    /\ \/ /\ instr.op \in {"MULT", "MULTU"}
          /\ LET m == Mult(rsv, rtv, instr.op = "MULT")
             IN  HiReg' = m.hi /\ LoReg' = m.lo
       \/ /\ instr.op = "DIV" /\ ~(Signed(rtv) = -1 /\ rsv = Modulus \div 2)
          /\ Divide(Signed(rsv), Signed(rtv))
       \/ instr.op = "DIVU" /\ Divide(rsv, rtv)
       \/ instr.op = "MTHI" /\ HiReg' = rsv /\ UNCHANGED LoReg
       \/ instr.op = "MTLO" /\ LoReg' = rsv /\ UNCHANGED HiReg
    /\ Completes(registers, 0, 0, Following)
    /\ UNCHANGED memory

-----------------------------------------------------------------------------
(* Branches and jumps: the next instruction is executed in any case. *)

(* The registers after an instruction that links did so, before it reads     *)
(* them.                                                                     *)
Linked ==
    CASE instr.op \in {"BGEZAL", "BLTZAL", "JAL"} -> [registers EXCEPT ![R31] = Following]
      [] instr.op = "JALR" -> [registers EXCEPT ![instr.rd] = Following]
      [] OTHER -> registers

Taken ==
    LET s == Linked[instr.rs]
    IN  CASE instr.op = "BEQ" -> rsv = rtv
          [] instr.op = "BNE" -> rsv # rtv
          [] instr.op = "BGTZ" -> Signed(s) > 0
          [] instr.op = "BLEZ" -> Signed(s) <= 0
          [] instr.op \in {"BGEZ", "BGEZAL"} -> ~Negative(s)
          [] instr.op \in {"BLTZ", "BLTZAL"} -> Negative(s)

Branch ==
    /\ Is(Branches)
    /\ Completes(Linked, 0, 0, IF Taken THEN Wrap(NextPCReg + IndexToAddr(extra)) ELSE Following)
    /\ UNCHANGED <<HiReg, LoReg, memory>>

Jump ==
    /\ Is(Jumps)
    /\ LET kept == TwoTo[WordBits - TopBits]
       IN  Completes(Linked, 0, 0, (Following - (Following % kept)) + IndexToAddr(extra))
    /\ UNCHANGED <<HiReg, LoReg, memory>>

JumpRegister ==
    /\ Is(RegisterJumps)
    /\ Completes(Linked, 0, 0, Linked[instr.rs])
    /\ UNCHANGED <<HiReg, LoReg, memory>>

-----------------------------------------------------------------------------
(* Memory *)

(* Its data is where the instruction finds it. *)
Accesses(ops) == Is(ops) /\ Aligned(Address, Size)

Load ==
    /\ Accesses(Loads)
    /\ LET value == BytesAt(memory, Address, Size)
       IN  Completes(registers, instr.rt,
                     IF instr.op \in {"LB", "LH"} THEN SignExtend(value, Size * ByteBits)
                     ELSE value, Following)
    /\ UNCHANGED <<HiReg, LoReg, memory>>

(* Variant of Forwarded: a load that has not been finished is not seen. *)
PendingIgnored == rtv

(* The register the merging loads change is the one of a pending load. *)
Forwarded == IF LoadReg = instr.rt THEN LoadValueReg ELSE rtv

(* Only whole words get past the assertion: LWL takes the word, LWR its      *)
(* highest byte.                                                             *)
MergingLoad ==
    /\ Accesses(Merges)
    /\ LET value == BytesAt(memory, Address, 4)
       IN  Completes(registers, instr.rt,
                     IF instr.op = "LWL" THEN value
                     ELSE (Forwarded - Low(Forwarded, ByteBits)) + value \div TwoTo[3 * ByteBits],
                     Following)
    /\ UNCHANGED <<HiReg, LoReg, memory>>

(* SWR stores the lowest byte as the highest. *)
Store ==
    /\ Accesses(Stores)
    /\ LET merged == Low(BytesAt(memory, Address, 4), 3 * ByteBits)
                     + ShiftLeft(rtv, 3 * ByteBits)
       IN  memory' = Stored(memory, Address, Size, IF instr.op = "SWR" THEN merged ELSE rtv)
    /\ Completes(registers, 0, 0, Following)
    /\ UNCHANGED <<HiReg, LoReg>>

-----------------------------------------------------------------------------

(* The program starts, or it goes on with whatever it computed before.      *)
MipsInit ==
    /\ \E s \in Starts :
          registers \in s.registers /\ memory \in s.memory /\ code \in s.code
    /\ HiReg = 0 /\ LoReg = 0
    /\ PCReg = 0 /\ NextPCReg = 4
    /\ LoadReg = 0 /\ LoadValueReg = 0
    /\ halted = FALSE

MipsNext ==
    \/ PageFault \/ AddressError \/ Illegal \/ Syscall \/ Overflow \/ Compute
    \/ DivisionTraps \/ MultiplyOrDivide \/ Branch \/ Jump \/ JumpRegister
    \/ Load \/ MergingLoad \/ Store

MipsSpec == MipsInit /\ [][MipsNext]_mipsVars

-----------------------------------------------------------------------------
(* Properties *)

(* Every register is a word, R0 is zero and the pending load has a register. *)
RegistersSound ==
    /\ registers \in [Registers -> Word] /\ registers[0] = 0
    /\ {HiReg, LoReg, PCReg, NextPCReg, LoadValueReg} \subseteq Word
    /\ LoadReg \in Registers
    /\ memory \in [Word -> Byte]
    /\ halted \in BOOLEAN

(* The registers of general use that an instruction reads or writes itself;  *)
(* what a load loads and a syscall returns comes after the pending load.     *)
Touched ==
    CASE instr.op \in Arithmetic  -> {instr.rs, instr.rt, Destination}
      [] instr.op \in Loads \cup Merges -> {instr.rs}
      [] instr.op \in {"BGEZAL", "BLTZAL", "JAL"} -> {instr.rs, R31}
      [] instr.op = "JALR" -> {instr.rs, instr.rd}
      [] instr.op = "SYSCALL" -> {}
      [] OTHER -> {instr.rs, instr.rt}

TouchesPendingLoad == Aligned(PCReg, 4) /\ LoadReg \in Touched \ {0}

(* The processor a compiler writes code for: loads take effect at once and   *)
(* nothing is ever fetched twice.                                            *)
Processor == INSTANCE Processor WITH
    registers <- Loaded(registers), hi <- HiReg, lo <- LoReg,
    pc <- PCReg, next <- NextPCReg

(* As long as no instruction uses the register that the load before it loads,*)
(* each does to the registers and the memory what it does on the Processor,  *)
(* wherever page faults interrupt it and start it again.                     *)
ImplementsProcessor ==
    /\ Processor!Init
    /\ [][TouchesPendingLoad \/ Processor!Next]_<<Processor!vars>>

=============================================================================
