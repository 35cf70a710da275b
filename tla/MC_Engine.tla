------------------------------ MODULE MC_Engine ------------------------------
(***************************************************************************)
(* Model of the engine for TLC.  The guest program is a loop body with an  *)
(* inlined call, a load, a backward branch and a return:                   *)
(*    0: addi x1, x1, 1                                                    *)
(*    4: jal  x2, +8          (target 12)                                  *)
(*    8: lb   x1, 0(x2)                                                    *)
(*   12: beq  x1, x2, -12     (target 0, fall-through 16)                  *)
(*   16: jalr x0, 0(x1)                                                    *)
(* Registers: x0, x1, x2 and pc (N_REG = 4); two host registers.           *)
(***************************************************************************)
EXTENDS Engine

CONSTANTS r8, r9, NoGp

Ins(m, d, s1, s2, i) == [mnem |-> m, rd |-> d, rs1 |-> s1, rs2 |-> s2, imm |-> i]

MC_Program ==
  (0  :> Ins("ADDI", 1, 1, 0, 1)) @@
  (4  :> Ins("JAL",  2, 0, 0, 8)) @@
  (8  :> Ins("LB",   1, 2, 0, 0)) @@
  (12 :> Ins("BEQ",  0, 1, 2, -12)) @@
  (16 :> Ins("JALR", 0, 1, 0, 0))

MC_HostRegs == <<r8, r9>>

=============================================================================
