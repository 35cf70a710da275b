------------------------------ MODULE FConvert ------------------------------
(***************************************************************************)
(* Concrete arithmetic for the integer <-> float conversions of           *)
(* src/src/gen/instr/ext/translate_f_ext.c: the x86 instructions their    *)
(* code uses and the RISC-V definition of each conversion.  FCodec        *)
(* evaluates the result its run of the emitted code leaves in rd with     *)
(* these and compares it with the RISC-V result, for every input of a     *)
(* scaled-down machine: registers of XLEN bits with a "32-bit" half of    *)
(* WLEN bits, and single floats with PREC significant bits (64, 32 and 24 *)
(* in the real machine).  Rounding is round-to-nearest-even, the default of MXCSR and *)
(* of the RISC-V dynamic rounding mode.                                    *)
(*                                                                         *)
(* A float value f is kept as the integer 2f: one fractional bit keeps    *)
(* the halfway cases of rounding to an integer.  Finer fractions,         *)
(* infinities and NaN are not among the inputs.                           *)
(***************************************************************************)
EXTENDS Words

CONSTANT PREC   \* significant bits of a single-precision float

(* Number of bits of a natural number.                                    *)
RECURSIVE BitLen(_)
BitLen(n) == IF n = 0 THEN 0 ELSE 1 + BitLen(n \div 2)

(* n rounded to PREC significant bits, ties to even.                      *)
RoundToPrec(n) ==
  LET a    == IF n < 0 THEN -n ELSE n
      unit == 2^(IF BitLen(a) > PREC THEN BitLen(a) - PREC ELSE 0)
      q    == a \div unit
      r    == a % unit
      up   == 2 * r > unit \/ (2 * r = unit /\ q % 2 = 1)
      m    == (IF up THEN q + 1 ELSE q) * unit
  IN  IF n < 0 THEN -m ELSE m

(* The floats from -2^(XLEN+1) to 2^(XLEN+1), as 2f.                       *)
FloatVals == {v \in -2^(XLEN + 2) .. 2^(XLEN + 2) : RoundToPrec(v) = v}

(* A float (as 2f) rounded to an integer, ties to even.                   *)
RoundInt(f) ==
  IF f % 2 = 0 THEN f \div 2
  ELSE LET q == (f - 1) \div 2 IN IF q % 2 = 0 THEN q ELSE q + 1

Clamp(v, lo, hi) == IF v < lo THEN lo ELSE IF v > hi THEN hi ELSE v

-----------------------------------------------------------------------------
(* The x86 instructions the conversions use, on XLEN-bit register images. *)

(* CVTSI2SS from a signed integer.                                        *)
Cvtsi2ss(v) == RoundToPrec(2 * v)
(* CVTSS2SI into an n-bit register: out of range gives the "integer       *)
(* indefinite" 1 followed by zeros.                                       *)
Cvtss2si(f, n) ==
  LET r == RoundInt(f)
  IN  IF r \in -2^(n - 1) .. 2^(n - 1) - 1 THEN r % 2^n ELSE 2^(n - 1)
Addss(a, b) == RoundToPrec(a + b)
Subss(a, b) == RoundToPrec(a - b)
(* TEST r, r; JS: the sign bit of the register.                            *)
SignSet(v) == v >= 2^(XLEN - 1)
(* The constant C0 of translate_FCVTLUS, 0x5F000000: the float 2^63.      *)
C0 == 2 * 2^(XLEN - 1)

-----------------------------------------------------------------------------
(* The RISC-V definitions (unprivileged ISA, chapter F): the exact value  *)
(* rounded once; float -> integer saturates, and the 32-bit results are   *)
(* sign-extended to XLEN.                                                 *)

(* The result of conversion m of source v: a float (as 2f) from an XLEN-  *)
(* bit register image, or an XLEN-bit register image from a float.        *)
RefConv(m, v) ==
  CASE m = "FCVTSW"  -> RoundToPrec(2 * Signed(Lo(v), WLEN))
    [] m = "FCVTSWU" -> RoundToPrec(2 * Lo(v))
    [] m = "FCVTSL"  -> RoundToPrec(2 * Signed(v, XLEN))
    [] m = "FCVTSLU" -> RoundToPrec(2 * v)
    [] m = "FCVTWS"  -> SextW(Clamp(RoundInt(v), -2^(WLEN - 1), 2^(WLEN - 1) - 1) % 2^WLEN)
    [] m = "FCVTWUS" -> SextW(Clamp(RoundInt(v), 0, 2^WLEN - 1))
    [] m = "FCVTLS"  -> Clamp(RoundInt(v), -2^(XLEN - 1), 2^(XLEN - 1) - 1) % 2^XLEN
    [] m = "FCVTLUS" -> Clamp(RoundInt(v), 0, 2^XLEN - 1)

(* The float -> integer sources whose rounded value the destination type  *)
(* holds, so that RISC-V does not saturate.                               *)
Representable(m, f) ==
  CASE m = "FCVTWS"  -> RoundInt(f) \in -2^(WLEN - 1) .. 2^(WLEN - 1) - 1
    [] m = "FCVTWUS" -> RoundInt(f) \in 0 .. 2^WLEN - 1
    [] m = "FCVTLS"  -> RoundInt(f) \in -2^(XLEN - 1) .. 2^(XLEN - 1) - 1
    [] m = "FCVTLUS" -> RoundInt(f) \in 0 .. 2^XLEN - 1

=============================================================================
