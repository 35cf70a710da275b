------------------------------ MODULE MC_AExtC ------------------------------
(***************************************************************************)
(* AExtC for TLC.  Three guest registers, x0 among them, so that rd, rs1  *)
(* and rs2 can alias in every pattern and rd or rs2 can be x0.  4-bit     *)
(* registers with a 2-bit low half: cell 6 (0110) has the same low half   *)
(* as cell 2, so a truncated address reaches the wrong cell; value 14     *)
(* (1110) is negative as a word and as a half (sign extension and signed  *)
(* comparison), 1 is positive in both, and the upper half of 14 survives  *)
(* only if a 32-bit store merges.                                         *)
(***************************************************************************)
EXTENDS AExtC

CONSTANTS x0, x1, x2

MC_XRegs == {x0, x1, x2}
MC_Cells == {2, 6}
MC_Vals  == {1, 14}

AllMnemonics ==
  {"LRW", "SCW", "AMOSWAPW", "AMOADDW", "AMOXORW", "AMOANDW", "AMOORW",
   "AMOMINW", "AMOMAXW", "AMOMINUW", "AMOMAXUW",
   "LRD", "SCD", "AMOSWAPD", "AMOADDD", "AMOXORD", "AMOANDD", "AMOORD",
   "AMOMIND", "AMOMAXD", "AMOMINUD", "AMOMAXUD"}

=============================================================================
