\* FNMSUBS with rd, rs3 in different places: the result is not rs3 - rs1*rs2.
CONSTANTS
  f0 = f0  f1 = f1  f2 = f2  x1 = x1  x2 = x2
  NaN = NaN  Two63 = Two63  Huge = Huge  Garbage = Garbage
  XLEN = 8  WLEN = 4  PREC = 3
  FRegs <- MC_FRegs
  XRegs <- MC_XRegs
  Mnemonics <- OnlyFNMSUBS
  FVals <- NonZeroVals
SYMMETRY RegSymmetry
SPECIFICATION Spec
INVARIANT ResultCorrect
\* The model covers one instruction: a behaviour ends when its code has run.
CHECK_DEADLOCK FALSE
