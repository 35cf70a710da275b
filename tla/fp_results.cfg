\* Every translator whose result the F extension specifies, except FNMSUBS
\* and FSUBS (see the violation runs) and FMINS/FMAXS (wrong on +0 and -0),
\* on -0, +1 and NaN.
CONSTANTS
  f0 = f0  f1 = f1  f2 = f2  x1 = x1  x2 = x2
  NaN = NaN  Two63 = Two63  Huge = Huge  Garbage = Garbage
  XLEN = 8  WLEN = 4  PREC = 3
  FRegs <- MC_FRegs
  XRegs <- MC_XRegs
  Mnemonics <- ResultMnemonics
  FVals <- MixedVals
SYMMETRY RegSymmetry
SPECIFICATION Spec
INVARIANTS
  TypeOK
  ResultCorrect
  FrameRespected
  ConversionsExact
\* The model covers one instruction: a behaviour ends when its code has run.
CHECK_DEADLOCK FALSE
