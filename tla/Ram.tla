-------------------------------- MODULE Ram --------------------------------
(***************************************************************************)
(* What the memory of the SoC promises whoever uses it: one array of       *)
(* bytes, filled once, in which a store changes the bytes it names and no  *)
(* other, and whose bytes every read shows as they are at that moment, be  *)
(* it a load, an instruction fetch, a request of gdb or the final dump.    *)
(***************************************************************************)
EXTENDS Naturals, Sequences

CONSTANTS
    SIZE,        \* bytes of the memory
    Byte         \* the values of a byte

VARIABLES
    ram,
    ready,       \* the memory is filled
    did          \* what the last step asked: the reads, with their answers,
                 \* and the store that came after them

ramVars == <<ram, ready, did>>

NoAccess == [reads |-> {}, stores |-> {}]

(* The bytes of an access that exist: it may begin inside the memory and   *)
(* end outside.                                                            *)
Covered(x) == {a \in 0 .. SIZE - 1 : a \in x.addr .. x.addr + Len(x.bytes) - 1}

Shows(x) == \A a \in Covered(x) : x.bytes[a - x.addr + 1] = ram[a]

After(stores) ==
    [a \in 0 .. SIZE - 1 |->
        IF \E x \in stores : a \in Covered(x)
        THEN LET x == CHOOSE x \in stores : a \in Covered(x)
             IN  x.bytes[a - x.addr + 1]
        ELSE ram[a]]

RamInit ==
    /\ ram \in [0 .. SIZE - 1 -> Byte]
    /\ ready = FALSE
    /\ did = NoAccess

Fill ==
    /\ ~ready
    /\ ram' \in [0 .. SIZE - 1 -> Byte]
    /\ ready' \in BOOLEAN
    /\ did' = did

Access ==
    /\ ready
    /\ \A x \in did'.reads : Shows(x)
    /\ ram' = After(did'.stores)
    /\ ready' = ready

RamSpec == RamInit /\ [][Fill \/ Access]_ramVars
=============================================================================
