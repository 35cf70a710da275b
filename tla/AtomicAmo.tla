------------------------------ MODULE AtomicAmo ------------------------------
(***************************************************************************)
(* What one LR, SC or AMO instruction promises of the guest state, as the *)
(* RISC-V A extension defines it for a single hart: one indivisible step  *)
(* that loads the word at the address in rs1, writes op(word, rs2) back   *)
(* and puts the (sign-extended) old word in rd.  LR only loads; SC stores *)
(* rs2 and, with no other hart to break the reservation, succeeds (rd is  *)
(* 0).  A W form operates on the low half of the cell and leaves its     *)
(* upper half alone.  x0 stays 0.                                         *)
(*                                                                         *)
(* The translated code of an A instruction is shown to implement this    *)
(* specification in AExtC (property AtomicRefined).                       *)
(***************************************************************************)
EXTENDS Words

CONSTANTS XRegs, X0, Cells

VARIABLES
  instr,  \* the instruction: [op, w, rd, rs1, rs2]
  x,      \* guest integer registers
  m,      \* guest memory: cell -> word
  done    \* has the instruction taken effect?

avars == <<instr, x, m, done>>

Target == x[instr.rs1]
Old    == m[Target]

(* The word written back to the cell rs1 addresses.                       *)
NewMem ==
  LET w == instr.w  b == Trunc(x[instr.rs2], w)
  IN  CASE instr.op = "LR" -> Old
        [] instr.op = "SC" -> Merge(Old, b, w)
        [] OTHER           -> Merge(Old, Alu(instr.op, Trunc(Old, w), b, Bits(w)), w)

(* The value rd receives.                                                 *)
NewRd == CASE instr.op = "SC" -> 0
           [] instr.w = "W"   -> SextW(Old)
           [] OTHER           -> Old

Init ==
  /\ instr.op \in {"LR", "SC", "SWAP", "ADD", "XOR", "AND", "OR",
                   "MIN", "MAX", "MINU", "MAXU"}
  /\ instr.w \in {"W", "D"}
  /\ {instr.rd, instr.rs1, instr.rs2} \subseteq XRegs
  /\ x \in [XRegs -> Word] /\ x[X0] = 0 /\ Target \in Cells
  /\ m \in [Cells -> Word]
  /\ done = FALSE

Execute ==
  /\ ~done
  /\ x' = IF instr.rd = X0 THEN x ELSE [x EXCEPT ![instr.rd] = NewRd]
  /\ m' = [m EXCEPT ![Target] = NewMem]
  /\ done' = TRUE
  /\ UNCHANGED instr

(* The instruction is executed once it has been reached.                  *)
Spec == Init /\ [][Execute]_avars /\ WF_avars(Execute)

=============================================================================
