\* The float -> integer conversions against the RISC-V definition, for every
\* finite float of the scaled-down format.
CONSTANTS
  f0 = f0  f1 = f1  f2 = f2  x1 = x1  x2 = x2
  NaN = NaN  Two63 = Two63  Huge = Huge  Garbage = Garbage
  XLEN = 8  WLEN = 4  PREC = 3
  FRegs <- MC_FRegs
  XRegs <- MC_XRegs
  Mnemonics <- FloatToIntMnemonics
  FVals <- SaturationVals
SYMMETRY RegSymmetry
SPECIFICATION Spec
INVARIANT ConversionsSaturate
\* The model covers one instruction: a behaviour ends when its code has run.
CHECK_DEADLOCK FALSE
