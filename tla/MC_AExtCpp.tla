----------------------------- MODULE MC_AExtCpp -----------------------------
(***************************************************************************)
(* AExtCpp for TLC, with the registers, cells and values of MC_AExtC.     *)
(***************************************************************************)
EXTENDS AExtCpp, TLC

CONSTANTS x0, x1, x2

MC_XRegs == {x0, x1, x2}
MC_Cells == {2, 6}
MC_Vals  == {1, 14}

OnlyAMOSWAPD == {"AMOSWAPD"}
OnlyAMOADDD  == {"AMOADDD"}

(* rd is not x0: the store to reg[x0] is a fault of its own.              *)
NonZeroRdInstrs ==
  {[mnem |-> Name(p[1], p[2]), op |-> p[1], w |-> p[2],
    rd |-> d, rs1 |-> s1, rs2 |-> s2] :
     p \in Kinds, d \in XRegs \ {X0}, s1 \in XRegs \ {X0}, s2 \in XRegs}

RegSymmetry == Permutations({x1, x2})

=============================================================================
