-------------------------------- MODULE AExt --------------------------------
(***************************************************************************)
(* The instructions of the A extension that locks are built from, LR.W,    *)
(* SC.W and AMOSWAP.W (inc/A_extension.h), as operators on what they read  *)
(* and write: a register file x, the memory's words mem, and the addresses *)
(* reserved in TLB_A_Entries.                                              *)
(*                                                                         *)
(* A register has RegMod values (2^32 or 2^64) and a word of memory        *)
(* WordMod (2^32).                                                         *)
(***************************************************************************)
EXTENDS Integers

CONSTANTS WordMod, RegMod

ASSUME AExtAssumption ==
    /\ WordMod \in Nat /\ WordMod > 2
    /\ RegMod \in Nat /\ RegMod >= WordMod

(* static_cast<int32_t> of a word, as a register's value *)
SignExtend(data) ==
    IF 2 * data >= WordMod THEN data + (RegMod - WordMod) ELSE data

(* a register's value as std::uint32_t *)
Truncate(value) == value % WordMod

(* Registers::setValue: x0 stays 0. *)
setValue(x, reg, value) == IF reg = "x0" THEN x ELSE [x EXCEPT ![reg] = value]

(* The three pieces of state that the instructions below take and return. *)
State(x, mem, TLB_A_Entries) ==
    [x |-> x, mem |-> mem, TLB_A_Entries |-> TLB_A_Entries]

Exec_A_LR_NoReserve(h, rd, rs1) ==   \* Mutant: LR does not reserve.
    State(setValue(h.x, rd, SignExtend(h.mem[Truncate(h.x[rs1])])),
          h.mem, h.TLB_A_Entries)

Exec_A_LR(h, rd, rs1) ==
    LET mem_addr == Truncate(h.x[rs1])
    IN  State(setValue(h.x, rd, SignExtend(h.mem[mem_addr])),
              h.mem,
              h.TLB_A_Entries \cup {mem_addr})

(* Mutant: the reservation is not erased. *)
Exec_A_SC_KeepsReservation(h, rd, rs1, rs2) ==
    LET mem_addr == Truncate(h.x[rs1])
    IN  IF mem_addr \in h.TLB_A_Entries
        THEN State(setValue(h.x, rd, 0),
                   [h.mem EXCEPT ![mem_addr] = Truncate(h.x[rs2])],
                   h.TLB_A_Entries)
        ELSE State(setValue(h.x, rd, 1), h.mem, h.TLB_A_Entries)

(* A reservation is used up by the SC it lets through.  Nothing else ends  *)
(* it: neither an SC nor an LR of another address, nor a store or an AMO.  *)
Exec_A_SC(h, rd, rs1, rs2) ==
    LET mem_addr == Truncate(h.x[rs1])
    IN  IF mem_addr \in h.TLB_A_Entries
        THEN State(setValue(h.x, rd, 0),
                   [h.mem EXCEPT ![mem_addr] = Truncate(h.x[rs2])],
                   h.TLB_A_Entries \ {mem_addr})
        ELSE State(setValue(h.x, rd, 1), h.mem, h.TLB_A_Entries)

(* The register that supplies the new value is read after rd has been      *)
(* written, and is overwritten with the old value too.                     *)
Exec_A_AMOSWAP(h, rd, rs1, rs2) ==
    LET mem_addr == Truncate(h.x[rs1])
        data == h.mem[mem_addr]
        x1 == setValue(h.x, rd, SignExtend(data))
    IN  State(setValue(x1, rs2, SignExtend(data)),
              [h.mem EXCEPT ![mem_addr] = Truncate(x1[rs2])],
              h.TLB_A_Entries)
=============================================================================
