------------------------------- MODULE MCMips -------------------------------
(* Instances of Mips for TLC: bytes of one bit, so that words have four, and *)
(* the registers R0, R1, R2 and the link register R3.                        *)
EXTENDS Mips, Sequences

Instr(op, rs, rt, rd, field) ==
    [op |-> op, rs |-> rs, rt |-> rt, rd |-> rd, field |-> field]

Stop == Instr("RES", 0, 0, 0, 0)

Code(is) == [a \in {b \in Word : b % 4 = 0} |->
                IF a \div 4 < Len(is) THEN is[(a \div 4) + 1] ELSE Stop]

R(r1, r2) == [r \in 0..3 |-> <<0, r1, r2, 0>>[r + 1]]

Memories == {[a \in Word |-> (a * a + a \div 4) % 2]}

(* One instruction with every value of its operands.                         *)
Fields(op) ==
    CASE op \in IFMT -> 0..3 [] op \in Jumps -> 0..1 [] op \in {"SLL", "SRA"} -> 0..3
      [] OTHER -> {0}

(* OR and the logical shifts to the right do something else.                 *)
Faithful == Opcodes \ {"OR", "SRL", "SRLV"}

Singles ==
    {Code(<<Instr(op, 1, 2, rd, f)>>) :
        <<op, rd, f>> \in {x \in Faithful \X {0, 1, 3} \X (0..3) :
                             /\ x[3] \in Fields(x[1])
                             /\ x[1] \in IFMT \cup Jumps => x[2] = 0}}

(* Three instructions in a row, with loads, branches and links in each       *)
(* other's delay slots.                                                      *)
Pieces ==
    {Instr("LW", 1, 2, 0, 0), Instr("LB", 0, 1, 0, 1), Instr("LWR", 0, 2, 0, 0),
     Instr("LH", 2, 0, 0, 0), Instr("SW", 0, 2, 0, 0), Instr("SB", 1, 2, 0, 1),
     Instr("SWR", 1, 1, 0, 0), Instr("ADDIU", 1, 1, 0, 1), Instr("ADD", 1, 2, 2, 0),
     Instr("MULT", 1, 2, 0, 0), Instr("MFHI", 0, 0, 1, 0), Instr("BNE", 1, 0, 0, 2),
     Instr("BGEZAL", 1, 0, 0, 1), Instr("JAL", 0, 0, 0, 1), Instr("JALR", 2, 0, 1, 0),
     Instr("JR", 3, 0, 0, 0), Instr("SYSCALL", 0, 0, 0, 0)}

Triples == {Code(<<i, j, k>>) : i \in Pieces, j \in Pieces, k \in Pieces}

AllStarts ==
    {[code |-> Singles, registers |-> {R(v, w) : v \in Word, w \in Word}, memory |-> Memories],
     [code |-> Triples, registers |-> {R(v, 8) : v \in {4, 11}}, memory |-> Memories]}
=============================================================================
