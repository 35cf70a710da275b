\* AMOSWAP.D of translate_a_ext.cpp, registers unmapped, rd not x0.
CONSTANTS
  x0 = x0  x1 = x1  x2 = x2
  XRegs <- MC_XRegs
  X0 <- x0
  Cells <- MC_Cells
  Vals <- MC_Vals
  XLEN = 4
  WLEN = 2
  Junk = 5
  Mnemonics <- OnlyAMOSWAPD
  MapChoice = {FALSE}
  Instrs <- NonZeroRdInstrs
SYMMETRY RegSymmetry
SPECIFICATION Spec
INVARIANT
  FrameRespected
\* The model covers one instruction: a behaviour ends when its code has run.
CHECK_DEADLOCK FALSE
