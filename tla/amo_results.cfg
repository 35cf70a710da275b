\* Every translator of translate_a_ext.c, under every mapping and aliasing
\* of rd, rs1 and rs2, x0 included.
CONSTANTS
  x0 = x0  x1 = x1  x2 = x2
  XRegs <- MC_XRegs
  X0 <- x0
  Cells <- MC_Cells
  Vals <- MC_Vals
  XLEN = 4
  WLEN = 2
  Junk = 5
  Mnemonics <- AllMnemonics
  MapChoice = {TRUE, FALSE}
SPECIFICATION FairSpec
INVARIANTS
  TypeOK
PROPERTY
  AtomicRefined
\* The model covers one instruction: a behaviour ends when its code has run.
CHECK_DEADLOCK FALSE
