------------------------------- MODULE IrqLine -------------------------------
(***************************************************************************)
(* What the timer and the hart's interrupt logic together promise a        *)
(* program that arms the timer again only when its last expiry has been    *)
(* taken: each arming leads to one expiry, each expiry to at most one      *)
(* entry of the handler, and nothing else enters it.                       *)
(***************************************************************************)
VARIABLES
    line,       \* the life of one arming of the timer
    entered,    \* the last instruction executed was followed by an entry
    halted      \* the simulation has been told to end

lineVars == <<line, entered, halted>>

LineInit == line = "idle" /\ entered = FALSE /\ halted = FALSE

(* An instruction that arms the timer. *)
ArmLine == line = "idle" /\ line' = "armed" /\ entered' = FALSE
           /\ UNCHANGED halted

(* The armed timer expires and requests the interrupt. *)
RaiseLine == line = "armed" /\ line' = "raised" /\ UNCHANGED <<entered, halted>>

(* An instruction after which the requested interrupt is taken. *)
EnterHandler == /\ line = "raised" /\ line' = "idle" /\ entered' = TRUE
                /\ halted' \in {halted, TRUE}

(* Any other instruction. *)
Instruction == /\ entered' = FALSE
               /\ halted' \in {halted, TRUE}
               /\ UNCHANGED line

(* The run ends on an error with an expiry that is never delivered. *)
Abandon == /\ line = "armed" /\ line' = "idle" /\ entered' = FALSE
           /\ halted' = TRUE

LineNext == ArmLine \/ RaiseLine \/ EnterHandler \/ Instruction \/ Abandon

LineSpec == LineInit /\ [][LineNext]_lineVars
=============================================================================
