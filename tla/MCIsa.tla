------------------------------- MODULE MCIsa -------------------------------
(* Instances of IsaSpec: words of four bits, so registers of 4 or 8.       *)
EXTENDS IsaSpec, TLC

MCRegs == {0, 1, 2, 8, 9, 15, 31}
MCTails == {{}, 16 .. 31}

(* Register values at the edges of a word and of a register. *)
Edges(t) ==
    IF t = "RV32" THEN {0, 1, 2, 5, 7, 8, 15}
    ELSE {0, 1, 3, 7, 8, 15, 18, 127, 128, 248, 255}

MCMem == {[a \in 0 .. MemSize - 1 |-> IF a % 3 = 0 THEN 1 ELSE 0],
          [a \in 0 .. MemSize - 1 |-> IF a % 4 \in {1, 3} THEN 1 ELSE 0]}

(* x1 and x8 hold a, the other registers b. *)
HartWith(t, a, b, pc, mem) ==
    Hart(t, [r \in Regs |-> CASE r = 0 -> 0 [] r \in {1, 8} -> a [] OTHER -> b], pc, mem)

HartsOf(t, as, bs) ==
    {HartWith(t, a, b, 2, CHOOSE m \in MCMem : m[0] = 1) : a \in as, b \in bs}

AllPairs == HartsOf("RV32", Edges("RV32"), Edges("RV32"))
            \cup HartsOf("RV64", Edges("RV64"), Edges("RV64"))

(* Few values, every memory and PCs at both ends. *)
Samples ==
    {HartWith(t, a, b, pc, m) :
        t \in {"RV32", "RV64"}, a \in {0, 4, 9}, b \in {3, 12}, pc \in {0, 12}, m \in MCMem}
    \cup {HartWith("RV64", a, 6, 4, m) : a \in {17, 248}, m \in MCMem}

Few == {HartWith(t, 4, 12, 6, m) : t \in {"RV32", "RV64"}, m \in MCMem}

(* PCs at the ends of a word and of a register. *)
HighPCs ==
    {HartWith(t, 6, 3, pc, m) : t \in {"RV32"}, pc \in {12, 14}, m \in MCMem}
    \cup {HartWith(t, 6, 3, pc, m) : t \in {"RV64"}, pc \in {12, 14, 16, 252, 254}, m \in MCMem}

I(c, op, rd, rs1, rs2, imm) ==
    [c |-> c, op |-> op, rd |-> rd, rs1 |-> rs1, rs2 |-> rs2, imm |-> imm]

(* Every single bit of an immediate of n bits, step 2^lo, with both signs. *)
Bits(lo, n) == {2^k : k \in lo .. n - 1}
SignedBits(lo, n) == {2^k : k \in lo .. n - 2} \cup {-(2^k) : k \in lo .. n - 1}

----------------------------------------------------------------------------
(* Register operations, over all pairs of edges and with aliases. *)

Aliases == {<<9, 1, 2>>, <<1, 1, 2>>, <<2, 1, 2>>, <<1, 2, 1>>, <<0, 1, 2>>, <<9, 1, 1>>}

RCode == {I("-", op, r[1], r[2], r[3], 0) : op \in BaseOps \cup MulDivOps, r \in Aliases}
         \cup {I("-", op, 0, r[1], r[2], 8) : op \in BranchOps, r \in {<<1, 2>>, <<2, 1>>}}
         \cup {I("-", "JALR", r, 1, 0, 3) : r \in {0, 1, 2}}

CRCode ==
    LET ops == "C_SUB" :> "SUB" @@ "C_XOR" :> "XOR" @@ "C_OR" :> "OR" @@ "C_AND" :> "AND"
               @@ "C_SUBW" :> "SUBW" @@ "C_ADDW" :> "ADDW"
    IN  {I(c, ops[c], r[1], r[1], r[2], 0) : c \in DOMAIN ops, r \in {<<8, 9>>, <<9, 8>>, <<8, 8>>}}
        \cup {I("C_MV", "ADD", r[1], 0, r[2], 0) : r \in {<<1, 2>>, <<0, 1>>}}
        \cup {I("C_ADD", "ADD", r[1], r[1], r[2], 0) : r \in {<<1, 2>>, <<2, 1>>, <<1, 1>>}}
        \cup {I("C_BEQZ", "BEQ", 0, 8, 0, 6), I("C_BNEZ", "BNE", 0, 8, 0, 6)}
        \cup {I("C_JR", "JALR", 0, 1, 0, 0), I("C_JALR", "JALR", 1, 1, 0, 0),
              I("C_JALR", "JALR", 1, 2, 0, 0)}

(* Immediate operations and shifts, over all pairs too. *)
ICode == {I("-", op, r[1], r[2], 0, imm) :
            op \in {"ADDI", "SLTI", "SLTIU", "XORI", "ORI", "ANDI", "ADDIW"},
            r \in {<<2, 1>>, <<1, 1>>}, imm \in {-3, 7}}
         \cup {I("-", op, 2, 1, 0, imm) : op \in ShiftOps, imm \in {0, 1, 3, 6}}
         \cup {I("-", "LUI", 9, 0, 0, imm) : imm \in {1, 2, 3}}
         \cup {I("-", "AUIPC", 9, 0, 0, imm) : imm \in {1, 2, 3}}

CICode == {I("C_ADDI", "ADDI", r, r, 0, imm) : r \in {0, 1}, imm \in {-3, 7}}
          \cup {I("C_ADDIW", "ADDIW", 1, 1, 0, imm) : imm \in {-3, 7}}
          \cup {I("C_ANDI", "ANDI", 8, 8, 0, imm) : imm \in {-3, 7}}
          \cup {I("C_SRLI", "SRLI", 8, 8, 0, imm) : imm \in {0, 1, 6, 35}}
          \cup {I("C_SRAI", "SRAI", 8, 8, 0, imm) : imm \in {0, 1, 6, 35}}
          \cup {I("C_SLLI", "SLLI", 1, 1, 0, imm) : imm \in {0, 1, 6, 35}}
          \cup {I("C_ADDI4SPN", "ADDI", 8, 2, 0, 12), I("C_ADDI16SP", "ADDI", 2, 2, 0, -16)}

(* Memory and atomic operations. *)
MCode == {I("-", op, r[1], r[2], 0, imm) :
            op \in LoadOps, r \in {<<9, 1>>, <<1, 1>>, <<0, 1>>}, imm \in {-1, 0, 2}}
         \cup {I("-", op, 0, r[1], r[2], imm) :
            op \in StoreOps, r \in {<<1, 2>>, <<1, 1>>}, imm \in {-1, 0, 2}}
         \cup {I("-", op, r[1], r[2], r[3], 0) :
            op \in AmoOps, r \in Aliases \cup {<<1, 1, 0>>}}
         \cup {I("C_LW", "LW", 9, 8, 0, 4), I("C_LD", "LD", 9, 8, 0, 8),
               I("C_SW", "SW", 0, 8, 9, 4), I("C_SD", "SD", 0, 8, 9, 0),
               I("C_LWSP", "LW", 1, 2, 0, 4), I("C_LDSP", "LD", 1, 2, 0, 0),
               I("C_SWSP", "SW", 0, 2, 1, 4), I("C_SDSP", "SD", 0, 2, 1, 0),
               I("C_J", "JAL", 0, 0, 0, -4), I("C_J", "JAL", 0, 0, 0, 6),
               I("C_JAL", "JAL", 1, 0, 0, -4), I("-", "JAL", 1, 0, 0, -4),
               I("-", "JAL", 0, 0, 0, 6), I("-", "FENCE", 0, 0, 0, 0)}

(* Every way to change or to save the PC. *)
JumpCode ==
    {I("-", "JALR", 1, 1, 0, 3), I("-", "AUIPC", 9, 0, 0, 3), I("C_JR", "JALR", 0, 1, 0, 0),
     I("C_JALR", "JALR", 1, 1, 0, 0), I("C_BEQZ", "BEQ", 0, 8, 0, 6), I("C_BNEZ", "BNE", 0, 8, 0, 6)}
    \cup {I("-", "JAL", 1, 0, 0, imm) : imm \in {-16, 6}}
    \cup {I(c, "JAL", IF c = "C_J" THEN 0 ELSE 1, 0, 0, imm) : c \in {"C_J", "C_JAL"}, imm \in {-16, 6}}

(* Every bit of every immediate and of every register field. *)
FieldCode ==
    {I("-", op, 31, 15, 0, imm) : op \in {"ADDI", "JALR", "LW"}, imm \in SignedBits(0, 12)}
    \cup {I("-", "SW", 0, 15, 31, imm) : imm \in SignedBits(0, 12)}
    \cup {I("-", "BEQ", 0, 15, 31, imm) : imm \in SignedBits(1, 13)}
    \cup {I("-", "JAL", 31, 0, 0, imm) : imm \in SignedBits(1, 21)}
    \cup {I("-", op, 15, 0, 0, imm) : op \in UpperOps, imm \in Bits(0, 20)}
    \cup {I("-", "ADD", r[1], r[2], r[3], 0) : r \in {<<31, 1, 2>>, <<15, 8, 31>>, <<1, 31, 15>>}}
    \cup {I("C_J", "JAL", 0, 0, 0, imm) : imm \in SignedBits(1, 12)}
    \cup {I("C_BEQZ", "BEQ", 0, 15, 0, imm) : imm \in SignedBits(1, 9)}
    \cup {I("C_ADDI4SPN", "ADDI", 15, 2, 0, imm) : imm \in Bits(2, 10)}
    \cup {I("C_ADDI16SP", "ADDI", 2, 2, 0, imm) : imm \in SignedBits(4, 10)}
    \cup {I("C_LI", "ADDI", 31, 0, 0, imm) : imm \in SignedBits(0, 6)}
    \cup {I("C_LUI", "LUI", 31, 0, 0, imm) : imm \in SignedBits(0, 6)}
    \cup {I("C_SLLI", "SLLI", 31, 31, 0, imm) : imm \in Bits(0, 6)}
    \cup {I("C_LW", "LW", 15, 9, 0, imm) : imm \in Bits(2, 7)}
    \cup {I("C_SW", "SW", 0, 9, 15, imm) : imm \in Bits(2, 7)}
    \cup {I("C_LD", "LD", 15, 8, 0, imm) : imm \in Bits(3, 8)}
    \cup {I("C_SD", "SD", 0, 8, 15, imm) : imm \in Bits(3, 8)}
    \cup {I("C_LWSP", "LW", 31, 2, 0, imm) : imm \in Bits(2, 8)}
    \cup {I("C_LDSP", "LD", 31, 2, 0, imm) : imm \in Bits(3, 9)}
    \cup {I("C_SWSP", "SW", 0, 2, 31, imm) : imm \in Bits(2, 8)}
    \cup {I("C_SDSP", "SD", 0, 2, 31, imm) : imm \in Bits(3, 9)}

MCWorkloads ==
    {[harts |-> AllPairs, code |-> RCode \cup CRCode],
     [harts |-> HartsOf("RV32", Edges("RV32"), {2}) \cup HartsOf("RV64", Edges("RV64"), {2}),
      code |-> ICode \cup CICode],
     [harts |-> Samples, code |-> MCode],
     [harts |-> Few, code |-> FieldCode],
     [harts |-> HighPCs, code |-> JumpCode]}

(* The atomic operations alone, on RV32. *)
AmoWorkloads ==
    {[harts |-> {h \in Samples : h.t = "RV32"}, code |-> {i \in MCode : i.op \in AmoOps}]}
============================================================================
