----------------------------- MODULE MC_FCodec -----------------------------
(***************************************************************************)
(* FCodec for TLC: three float registers (enough for rd, rs1, rs2, rs3 to  *)
(* be pairwise aliased or distinct in every pattern but four-distinct) and *)
(* two integer registers, one of which the instruction uses.               *)
(***************************************************************************)
EXTENDS FCodec, FConvert, TLC

CONSTANTS f0, f1, f2, x1, x2

MC_FRegs == {f0, f1, f2}
MC_XRegs == {x1, x2}

AllMnemonics ==
  {"FLW", "FSW", "FCLASSS", "FMADDS", "FMSUBS", "FNMSUBS", "FNMADDS", "FADDS", "FSUBS", "FMULS",
   "FDIVS", "FSQRTS", "FSGNJS", "FSGNJNS", "FSGNJXS", "FMINS", "FMAXS",
   "FCVTWS", "FCVTWUS", "FMVXW", "FEQS", "FLTS", "FLES", "FCVTSW",
   "FCVTSWU", "FMVWX", "FCVTLS", "FCVTLUS", "FCVTSL", "FCVTSLU"}

OnlyFNMSUBS == {"FNMSUBS"}
OnlyFSUBS == {"FSUBS"}
OnlyFMINS == {"FMINS"}
OnlyFCVTLUS == {"FCVTLUS"}
FloatToIntMnemonics == {"FCVTWS", "FCVTWUS", "FCVTLS", "FCVTLUS"}
(* Every translator but those with a known wrong result: FNMSUB.S and    *)
(* FSUB.S (the violation runs) and FMIN.S/FMAX.S (+0 against -0).         *)
ResultMnemonics == AllMnemonics \ {"FNMSUBS", "FSUBS", "FMINS", "FMAXS"}

(* Finite non-zero values of both signs and a NaN.                       *)
NonZeroVals == {Num(FALSE, 1), Num(TRUE, 2), Num(FALSE, NaN)}
(* A negative zero, a positive finite value and a NaN: signs differ, the  *)
(* zero tests of the emitted branches and the NaN tests all split.        *)
MixedVals == {Num(TRUE, 0), Num(FALSE, 1), Num(TRUE, NaN)}
(* Signed zeros, a finite value and a NaN.                                *)
ZeroVals == {Num(FALSE, 0), Num(TRUE, 0), Num(FALSE, 1), Num(TRUE, NaN)}
(* Signed zeros and a NaN: the operands on which FMIN/FMAX and the sign   *)
(* tests branch.                                                          *)
SignedZeroVals == {Num(FALSE, 0), Num(TRUE, 0), Num(TRUE, NaN)}
(* Values around the 2^63 bound of FCVT.LU.S.                             *)
WideVals == {Num(FALSE, 1), Num(FALSE, Huge)}
(* Finite values of both signs below 2^63 and one above it: every range  *)
(* a float -> integer conversion treats differently.                      *)
SaturationVals == {Num(TRUE, 2), Num(FALSE, 1), Num(FALSE, Huge)}

(* Register ids are interchangeable: no translator treats one specially.  *)
RegSymmetry == Permutations(MC_FRegs) \cup Permutations(MC_XRegs)

=============================================================================
