\* AMOADD.D of translate_a_ext.cpp under every register mapping.
CONSTANTS
  x0 = x0  x1 = x1  x2 = x2
  XRegs <- MC_XRegs
  X0 <- x0
  Cells <- MC_Cells
  Vals <- MC_Vals
  XLEN = 4
  WLEN = 2
  Junk = 5
  Mnemonics <- OnlyAMOADDD
  MapChoice = {TRUE, FALSE}
SYMMETRY RegSymmetry
SPECIFICATION Spec
INVARIANT
  MappedRegistersNotInFile
\* The model covers one instruction: a behaviour ends when its code has run.
CHECK_DEADLOCK FALSE
