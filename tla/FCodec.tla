------------------------------- MODULE FCodec -------------------------------
(***************************************************************************)
(* The single-precision floating-point codec                               *)
(* (src/src/gen/instr/ext/translate_f_ext.c): one translate_<MNEM>         *)
(* function per RISC-V F instruction, each emitting x86-64 SSE and integer *)
(* code through fe_enc64.  What it emits depends on which guest registers  *)
(* are mapped to host registers and on how rd, rs1, rs2 and rs3 alias, so  *)
(* the model lets one instruction be translated under every mapping and    *)
(* aliasing and then runs the emitted code on an abstract x86 machine.     *)
(*                                                                         *)
(* A float is abstracted to its sign bit and its magnitude: 0 (a zero), a  *)
(* small positive integer, NaN, Two63 (2^63, the constant of FCVT.LU.S) or *)
(* Huge (above 2^63).  Results of arithmetic are kept as symbolic terms;   *)
(* add and multiply are commutative, x - x of a finite x is +0 and any     *)
(* operation on a NaN gives NaN.  Rounding, infinities and the fused       *)
(* (single rounding) semantics of the multiply-add forms are not modelled. *)
(*                                                                         *)
(* FLW and FSW move a float between a guest register and guest memory at  *)
(* the address in an integer register; guest addresses are host addresses. *)
(* FCLASS.S is not implemented (critical_not_yet_implemented).            *)
(*                                                                         *)
(* The register-access helpers (getFpReg, getFpRegNoLoad, setFpReg, getRs1, *)
(* getRd, storeRd, doFpArithmCommutative) are not in the sources; they are *)
(* modelled from their use: a mapped guest register is used in place, an  *)
(* unmapped one is loaded into the temporary named by the caller.          *)
(***************************************************************************)
EXTENDS Integers, Sequences, FiniteSets, FConvert

CONSTANTS
  FRegs,      \* guest floating-point registers (model values)
  XRegs,      \* guest integer registers other than x0 (model values)
  Mnemonics,  \* the translate_<MNEM> functions explored
  FVals,      \* initial values of the guest float registers
  NaN, Two63, Huge, Garbage  \* magnitude tokens (model values)

VARIABLES
  instr,     \* the instruction being translated: [mnem, rd, rs1, rs2, rs3]
  fmapped,   \* float guest register -> mapped to a host xmm register?
  xmapped,   \* integer guest register -> mapped to a host register?
  code,      \* the x86 code emitted for instr
  hpc,       \* index of the next emitted instruction to run
  loc,       \* host location -> value (registers and the register file)
  flags,     \* EFLAGS bits the emitted code sets and tests
  phase,     \* "translate", "run", "done"
  finit,     \* ghost: initial value of each guest float register
  xinit,     \* ghost: initial value of each guest integer register
  minit      \* ghost: initial contents of guest memory

vars == <<instr, fmapped, xmapped, code, hpc, loc, flags, phase, finit, xinit,
          minit>>

-----------------------------------------------------------------------------
(* Values.  Every value is a record of one shape so that any two compare. *)

Num(neg, mag)  == [k |-> "num", neg |-> neg, mag |-> mag, op |-> "", args |-> {}]
IntLeaf(r, neg) == [k |-> "int", neg |-> neg, mag |-> r, op |-> "", args |-> {}]
Term(op, args) == [k |-> "term", neg |-> FALSE, mag |-> 0, op |-> op, args |-> args]
Un(op, x)      == Term(op, {<<"u", x>>})
Ord(op, x, y)  == Term(op, {<<"l", x>>, <<"r", y>>})
Comm(op, x, y) == Term(op, {<<"c", x>>, <<"c", y>>})

Zero   == Num(FALSE, 0)
NaNv   == Num(FALSE, NaN)
Stale  == Term("stale", {})       \* a temporary left over from earlier code

IsNaN(v)  == v.k = "num" /\ v.mag = NaN
IsZero(v) == v.k = "num" /\ v.mag = 0
(* Two results agree; all NaNs are one (payloads are not modelled).        *)
Same(x, y) == x = y \/ (IsNaN(x) /\ IsNaN(y))

(* The real value of a leaf, for comparisons.                             *)
Magnitude(m) == CASE m = Two63 -> 500 [] m = Huge -> 1000 [] OTHER -> m
RealOf(v) == IF v.neg THEN -Magnitude(v.mag) ELSE Magnitude(v.mag)

(* SSE arithmetic (ADDSS, SUBSS, MULSS, DIVSS, SQRTSS).                   *)
FArith(op, x, y) ==
  CASE IsNaN(x) \/ IsNaN(y)              -> NaNv
    [] op = "sub" /\ x = y               -> Zero
    [] op \in {"add", "mul"}             -> Comm(op, x, y)
    [] OTHER                             -> Ord(op, x, y)
FSqrt(x) == IF IsNaN(x) \/ (x.k = "num" /\ x.neg /\ ~IsZero(x)) THEN NaNv
            ELSE Un("sqrt", x)

(* MINSS / MAXSS dst, src: if either is NaN, or both are zeros of any     *)
(* sign, the source operand is returned.                                  *)
SseMinMax(op, d, s) ==
  CASE IsNaN(d) \/ IsNaN(s) \/ (IsZero(d) /\ IsZero(s)) -> s
    [] op = "min" -> IF RealOf(d) < RealOf(s) THEN d ELSE s
    [] OTHER      -> IF RealOf(d) > RealOf(s) THEN d ELSE s

(* (U)COMISS a, b: ZF, PF, CF as the SDM defines them; SF is cleared.     *)
Compare(a, b) ==
  CASE IsNaN(a) \/ IsNaN(b) -> [zf |-> TRUE,  pf |-> TRUE,  cf |-> TRUE,  sf |-> FALSE]
    [] RealOf(a) > RealOf(b) -> [zf |-> FALSE, pf |-> FALSE, cf |-> FALSE, sf |-> FALSE]
    [] RealOf(a) < RealOf(b) -> [zf |-> FALSE, pf |-> FALSE, cf |-> TRUE,  sf |-> FALSE]
    [] OTHER                 -> [zf |-> TRUE,  pf |-> FALSE, cf |-> FALSE, sf |-> FALSE]

(* 32-bit logic on a float's bit image, as sign bit and remaining bits.   *)
(* AND with ~SIGN_BIT_MASK keeps the magnitude, AND with SIGN_BIT_MASK    *)
(* keeps the sign; NOT and XOR scramble the magnitude bits.               *)
IsImage(v) == v.k = "num"
BitOp(op, x, y) ==
  CASE op = "and_nosign" /\ IsImage(x) -> Num(FALSE, x.mag)
    [] op = "and_sign" /\ IsImage(x)   -> Num(x.neg, 0)
    [] op = "not" /\ IsImage(x)        -> Num(~x.neg, Garbage)
    [] op = "xor" /\ IsImage(x) /\ IsImage(y) ->
         Num(x.neg # y.neg, IF x.mag = y.mag THEN 0 ELSE Garbage)
    [] op = "or" /\ IsImage(x) /\ IsImage(y) /\ (x.mag = 0 \/ y.mag = 0) ->
         Num(x.neg \/ y.neg, IF x.mag = 0 THEN y.mag ELSE x.mag)
    [] OTHER -> Ord(op, x, y)

-----------------------------------------------------------------------------
(* Host locations.                                                        *)

FIRST_FP_REG  == <<"tmp", "FIRST_FP_REG">>
SECOND_FP_REG == <<"tmp", "SECOND_FP_REG">>
FIRST_REG     == <<"tmp", "FIRST_REG">>
SECOND_REG    == <<"tmp", "SECOND_REG">>
Xmm(r)    == <<"xmm", r>>     \* the host register a mapped float register uses
FpSlot(r) == <<"fpmem", r>>   \* r_info->fp_base + 8 * r
Gp(r)     == <<"gp", r>>      \* the host register a mapped integer register uses
XSlot(r)  == <<"mem", r>>     \* r_info->base + 8 * r

(* The guest memory word at the address an integer register holds, and    *)
(* FE_MEM(l, 0, 0, imm): the word at the address in host location l.  The *)
(* offset imm is the same for every address and is left out.              *)
Cell(v)  == <<"cell", v>>
Deref(l) == <<"deref", l>>
Cells == {Cell(IntLeaf(r, FALSE)) : r \in XRegs}

Temps == {FIRST_FP_REG, SECOND_FP_REG, FIRST_REG, SECOND_REG}
Locs  == Temps \cup Cells \cup {Xmm(r) : r \in FRegs} \cup {FpSlot(r) : r \in FRegs}
               \cup {Gp(r) : r \in XRegs} \cup {XSlot(r) : r \in XRegs}

(* An emitted instruction: opcode, destination, source; a jump's source   *)
(* is the number of instructions it skips.                                *)
I(op, d, s) == [op |-> op, d |-> d, s |-> s]
If(c, s) == IF c THEN s ELSE <<>>

-----------------------------------------------------------------------------
(* Register access helpers (not in the sources; see the header).          *)

getFpReg(r, tmp)       == IF fmapped[r] THEN Xmm(r) ELSE tmp
loadFpReg(r, tmp)      == If(~fmapped[r], <<I("MOVSS", tmp, FpSlot(r))>>)
getFpRegNoLoad(r, tmp) == getFpReg(r, tmp)
setFpReg(r, h) ==
  IF fmapped[r] THEN If(h # Xmm(r), <<I("MOVSS", Xmm(r), h)>>)
  ELSE <<I("MOVSS", FpSlot(r), h)>>
getXReg(r, tmp)  == IF xmapped[r] THEN Gp(r) ELSE tmp
loadXReg(r, tmp) == If(~xmapped[r], <<I("MOV64", tmp, XSlot(r))>>)
storeRd(r, h) ==
  IF xmapped[r] THEN If(h # Gp(r), <<I("MOV64", Gp(r), h)>>)
  ELSE <<I("MOV64", XSlot(r), h)>>

(* dst := src1 op src2 for a commutative op, whichever operand dst is.    *)
doFpArithmCommutative(s1, s2, d, op) ==
  CASE d = s1 -> <<I(op, d, s2)>>
    [] d = s2 -> <<I(op, d, s1)>>
    [] OTHER  -> <<I("MOVSS", d, s1), I(op, d, s2)>>

-----------------------------------------------------------------------------
(* The translators (non-AVX build: AVX_SUPPORT is #undef'd).  F1, F2, R1  *)
(* and R2 below abbreviate the four temporaries.                          *)

F1 == FIRST_FP_REG
F2 == SECOND_FP_REG
R1 == FIRST_REG
R2 == SECOND_REG

(* FLW: MOVSS rd, [rs1 + imm], then rd is written back.                   *)
translate_FLW(i) ==
  LET base == getXReg(i.rs1, R1)  d == getFpRegNoLoad(i.rd, F1)
  IN  loadXReg(i.rs1, R1) \o <<I("MOVSS", d, Deref(base))>> \o setFpReg(i.rd, d)

(* FSW: MOVSS [rs1 + imm], rs2.                                            *)
translate_FSW(i) ==
  LET base == getXReg(i.rs1, R1)  s2 == getFpReg(i.rs2, F1)
  IN  loadXReg(i.rs1, R1) \o loadFpReg(i.rs2, F1) \o <<I("MOVSS", Deref(base), s2)>>

translate_FMADDS(i) ==
  LET s1 == getFpReg(i.rs1, F2)  s2 == getFpReg(i.rs2, F1)
      d  == getFpRegNoLoad(i.rd, F1)  s3 == getFpReg(i.rs3, d)
  IN  loadFpReg(i.rs1, F2) \o loadFpReg(i.rs2, F1)
        \o If(s1 # F2, <<I("MOVSS", F2, s1)>>) \o <<I("MULSS", F2, s2)>>
        \o loadFpReg(i.rs3, d) \o If(s3 # d, <<I("MOVSS", d, s3)>>)
        \o <<I("ADDSS", d, F2)>> \o setFpReg(i.rd, d)

(* Mutant: rs3 is not saved to FIRST_FP_REG when it lives in rd.         *)
translate_FMSUBSNoSave(i) ==
  LET s1 == getFpReg(i.rs1, F2)  s2 == getFpReg(i.rs2, F1)
      d  == getFpRegNoLoad(i.rd, F2)  s3 == getFpReg(i.rs3, F1)
  IN  loadFpReg(i.rs1, F2) \o loadFpReg(i.rs2, F1)
        \o If(s1 # F2, <<I("MOVSS", F2, s1)>>) \o <<I("MULSS", F2, s2)>>
        \o loadFpReg(i.rs3, F1) \o If(s1 # F1, <<I("MOVSS", d, F2)>>)
        \o <<I("SUBSS", d, s3)>> \o setFpReg(i.rd, d)

translate_FMSUBS(i) ==
  LET s1 == getFpReg(i.rs1, F2)  s2 == getFpReg(i.rs2, F1)
      d  == getFpRegNoLoad(i.rd, F2)  s3 == getFpReg(i.rs3, F1)
      s3saved == IF d = s3 THEN F1 ELSE s3
  IN  loadFpReg(i.rs1, F2) \o loadFpReg(i.rs2, F1)
        \o If(s1 # F2, <<I("MOVSS", F2, s1)>>) \o <<I("MULSS", F2, s2)>>
        \o loadFpReg(i.rs3, F1) \o If(d = s3, <<I("MOVSS", F1, s3)>>)
        \o If(s1 # F1, <<I("MOVSS", d, F2)>>)
        \o <<I("SUBSS", d, s3saved)>> \o setFpReg(i.rd, d)

(* "if src3 is not already in dest move it": the test is d = s3.          *)
translate_FNMSUBS(i) ==
  LET s1 == getFpReg(i.rs1, F2)  s2 == getFpReg(i.rs2, F1)
      d  == getFpRegNoLoad(i.rd, F1)  s3 == getFpReg(i.rs3, F1)
  IN  loadFpReg(i.rs1, F2) \o loadFpReg(i.rs2, F1)
        \o If(s1 # F2, <<I("MOVSS", F2, s1)>>) \o <<I("MULSS", F2, s2)>>
        \o loadFpReg(i.rs3, F1) \o If(d = s3, <<I("MOVSS", d, s3)>>)
        \o <<I("SUBSS", d, F2)>> \o setFpReg(i.rd, d)

translate_FNMADDS(i) ==
  LET s1 == getFpReg(i.rs1, F2)  s2 == getFpReg(i.rs2, F1)
      d  == getFpRegNoLoad(i.rd, F1)  s3 == getFpReg(i.rs3, F2)
      s3saved == IF d = s3 THEN F2 ELSE s3
  IN  loadFpReg(i.rs1, F2) \o loadFpReg(i.rs2, F1)
        \o If(s1 # F2, <<I("MOVSS", F2, s1)>>) \o <<I("MULSS", F2, s2)>>
        \o <<I("XORPS", F1, F1), I("SUBSS", F1, F2)>>
        \o loadFpReg(i.rs3, F2) \o If(d = s3, <<I("MOVSS", F2, s3)>>)
        \o If(d # F1, <<I("MOVSS", d, F1)>>)
        \o <<I("SUBSS", d, s3saved)>> \o setFpReg(i.rd, d)

(* Mutant: the operation is done in place on rs1, then moved to rd.      *)
CommutativeOpInPlace(i, op) ==
  LET s1 == getFpReg(i.rs1, F1)  s2 == getFpReg(i.rs2, F2)
      d  == getFpRegNoLoad(i.rd, F1)
  IN  loadFpReg(i.rs1, F1) \o loadFpReg(i.rs2, F2)
        \o <<I(op, s1, s2)>> \o If(d # s1, <<I("MOVSS", d, s1)>>)
        \o setFpReg(i.rd, d)

(* FADDS and FMULS.                                                       *)
CommutativeOp(i, op) ==
  LET s1 == getFpReg(i.rs1, F1)  s2 == getFpReg(i.rs2, F2)
      d  == getFpRegNoLoad(i.rd, F1)
  IN  loadFpReg(i.rs1, F1) \o loadFpReg(i.rs2, F2)
        \o doFpArithmCommutative(s1, s2, d, op) \o setFpReg(i.rd, d)
translate_FADDS(i) == CommutativeOp(i, "ADDSS")
translate_FMULS(i) == CommutativeOp(i, "MULSS")

(* FSUBS: rd = rs1 = rs2 is emitted as a zeroing XORPS.                    *)
translate_FSUBS(i) ==
  LET d  == getFpRegNoLoad(i.rd, F1)
      s2 == getFpReg(i.rs2, F2)  s2saved == IF s2 = d THEN F2 ELSE s2
      s1 == getFpReg(i.rs1, d)
  IN  IF i.rd = i.rs2 /\ i.rd = i.rs1
        THEN <<I("XORPS", d, d)>> \o setFpReg(i.rd, d)
        ELSE loadFpReg(i.rs2, F2) \o If(s2 = d, <<I("MOVSS", F2, s2)>>)
               \o loadFpReg(i.rs1, d) \o If(s1 # d, <<I("MOVSS", d, s1)>>)
               \o <<I("SUBSS", d, s2saved)>> \o setFpReg(i.rd, d)

translate_FDIVS(i) ==
  LET d  == getFpRegNoLoad(i.rd, F1)
      s2 == getFpReg(i.rs2, F2)  s2saved == IF d = s2 THEN F2 ELSE s2
      s1 == getFpReg(i.rs1, d)
  IN  loadFpReg(i.rs2, F2) \o If(d = s2, <<I("MOVSS", F2, s2)>>)
        \o loadFpReg(i.rs1, d) \o If(s1 # d, <<I("MOVSS", d, s1)>>)
        \o <<I("DIVSS", d, s2saved)>> \o setFpReg(i.rd, d)

translate_FSQRTS(i) ==
  LET s1 == getFpReg(i.rs1, F1)  d == getFpRegNoLoad(i.rd, F1)
  IN  loadFpReg(i.rs1, F1) \o <<I("SQRTSS", d, s1)>> \o setFpReg(i.rd, d)

(* Sign injection through the integer temporaries (MOVD, AND, NOT, XOR,   *)
(* OR, MOVD back).                                                        *)
SignMerge(d, signOps) ==
  <<I("AND32", R1, "nosign")>> \o signOps
    \o <<I("OR32", R1, R2), I("MOVD", d, R1)>>

translate_FSGNJS(i) ==
  LET d  == getFpRegNoLoad(i.rd, F1)  s1 == getFpReg(i.rs1, F1)
      s2 == getFpReg(i.rs2, F2)
  IN  loadFpReg(i.rs1, F1)
        \o (IF i.rs1 = i.rs2
              THEN If(s1 # d, <<I("MOVSS", d, s1)>>)
              ELSE loadFpReg(i.rs2, F2)
                     \o <<I("MOVD", R1, s1), I("MOVD", R2, s2)>>
                     \o SignMerge(d, <<I("AND32", R2, "sign")>>))
        \o setFpReg(i.rd, d)

translate_FSGNJNS(i) ==
  LET d  == getFpRegNoLoad(i.rd, F1)  s1 == getFpReg(i.rs1, F1)
      s2 == getFpReg(i.rs2, F2)
  IN  loadFpReg(i.rs1, F1) \o loadFpReg(i.rs2, F2)
        \o <<I("MOVD", R1, s1), I("MOVD", R2, s2)>>
        \o SignMerge(d, <<I("NOT32", R2, R2), I("AND32", R2, "sign")>>)
        \o setFpReg(i.rd, d)

translate_FSGNJXS(i) ==
  LET d  == getFpRegNoLoad(i.rd, F1)  s1 == getFpReg(i.rs1, F1)
      s2 == getFpReg(i.rs2, F2)
  IN  loadFpReg(i.rs1, F1) \o loadFpReg(i.rs2, F2)
        \o <<I("MOVD", R1, s1), I("MOVD", R2, s2), I("XOR32", R2, R1)>>
        \o SignMerge(d, <<I("AND32", R2, "sign")>>)
        \o setFpReg(i.rd, d)

(* FMINS / FMAXS: a NaN test with UCOMISS x, x and JP around MINSS/MAXSS. *)
(* The dummy jumps patched later through jmpBufNaN / jmpBufEnd are given  *)
(* their final skip counts.                                                *)
MinMax(i, op) ==
  LET s1 == getFpReg(i.rs1, F1)  s2 == getFpReg(i.rs2, F2)
      d  == getFpRegNoLoad(i.rd, F1)
      mv == If(s1 # d, <<I("MOVSS", d, s1)>>)
      body ==
        CASE s1 = s2 -> mv
          [] s2 = d  -> <<I("UCOMISS", s1, s1), I("JP", "", 1), I(op, d, s1)>>
          [] s1 = d  -> <<I("UCOMISS", s2, s2), I("JP", "", 1), I(op, d, s2)>>
          [] OTHER   -> <<I("UCOMISS", s2, s2), I("JP", "", 3)>> \o mv
                          \o <<I(op, d, s2), I("JMP", "", 1), I("MOVSS", d, s1)>>
  IN  loadFpReg(i.rs1, F1) \o loadFpReg(i.rs2, F2) \o body \o setFpReg(i.rd, d)
translate_FMINS(i) == MinMax(i, "MINSS")
translate_FMAXS(i) == MinMax(i, "MAXSS")

(* Float -> integer register: load the source, emit body, write rd.      *)
FpToX(i, src, body) ==
  loadFpReg(src, F1) \o body \o storeRd(i.rd, getXReg(i.rd, R1))

translate_FCVTWS(i) ==
  LET s == getFpReg(i.rs2, F1)  d == getXReg(i.rd, R1)
  IN  FpToX(i, i.rs2, <<I("CVTSS2SI32", d, s), I("MOVSX", d, d)>>)
translate_FCVTWUS(i) ==
  LET s == getFpReg(i.rs2, F1)  d == getXReg(i.rd, R1)
  IN  FpToX(i, i.rs2, <<I("CVTSS2SI64", d, s), I("MOV32", d, d)>>)
translate_FMVXW(i) ==
  LET s == getFpReg(i.rs1, F1)  d == getXReg(i.rd, R1)
  IN  FpToX(i, i.rs1, <<I("MOVD", d, s), I("MOVSX", d, d)>>)
translate_FCVTLS(i) ==
  LET s == getFpReg(i.rs2, F1)  d == getXReg(i.rd, R1)
  IN  FpToX(i, i.rs2, <<I("CVTSS2SI64", d, s)>>)

(* Mutant: the jump over the 2^63 path patched one instruction too far.  *)
translate_FCVTLUSJumpPastEnd(i) ==
  LET s == getFpReg(i.rs2, F1)  d == getXReg(i.rd, R1)
  IN  FpToX(i, i.rs2,
        <<I("MOV32I", R2, "C0"), I("MOVD", F2, R2),
          I("COMISS", s, F2), I("JNC", "", 2),
          I("CVTSS2SI64", d, s), I("JMP", "", 4),
          I("SUBSS", s, F2), I("CVTSS2SI64", d, s), I("BTC63", d, d)>>)

(* FCVT.LU.S: values at or above 2^63 are reduced by 2^63 with SUBSS on   *)
(* the source register itself, converted, and bit 63 flipped.             *)
translate_FCVTLUS(i) ==
  LET s == getFpReg(i.rs2, F1)  d == getXReg(i.rd, R1)
  IN  FpToX(i, i.rs2,
        <<I("MOV32I", R2, "C0"), I("MOVD", F2, R2),
          I("COMISS", s, F2), I("JNC", "", 2),
          I("CVTSS2SI64", d, s), I("JMP", "", 3),
          I("SUBSS", s, F2), I("CVTSS2SI64", d, s), I("BTC63", d, d)>>)

(* FEQS, FLTS, FLES: XOR rd, COMISS, SETcc (and CMOVNZ for FEQS).         *)
Compare3(i, body) ==
  loadFpReg(i.rs1, F1) \o loadFpReg(i.rs2, F2)
    \o <<I("XOR64", getXReg(i.rd, R1), getXReg(i.rd, R1))>> \o body
    \o storeRd(i.rd, getXReg(i.rd, R1))
translate_FEQS(i) ==
  LET s1 == getFpReg(i.rs1, F1)  s2 == getFpReg(i.rs2, F2)  d == getXReg(i.rd, R1)
  IN  Compare3(i, <<I("COMISS", s1, s2), I("MOV64I", R2, "zero"),
                    I("SETNP", d, d), I("CMOVNZ", d, R2)>>)
translate_FLTS(i) ==
  LET s1 == getFpReg(i.rs1, F1)  s2 == getFpReg(i.rs2, F2)  d == getXReg(i.rd, R1)
  IN  Compare3(i, <<I("COMISS", s2, s1), I("SETA", d, d)>>)
translate_FLES(i) ==
  LET s1 == getFpReg(i.rs1, F1)  s2 == getFpReg(i.rs2, F2)  d == getXReg(i.rd, R1)
  IN  Compare3(i, <<I("COMISS", s2, s1), I("SETNC", d, d)>>)

(* FCLASS.S emits nothing: critical_not_yet_implemented ends translation. *)
translate_FCLASSS(i) == <<>>
NotYetImplemented == {"FCLASSS"}

(* Integer register -> float register: load rs1, emit body, write rd.    *)
XToFp(i, body) ==
  loadXReg(i.rs1, R1) \o body \o setFpReg(i.rd, getFpRegNoLoad(i.rd, F1))

translate_FCVTSW(i) ==
  LET s == getXReg(i.rs1, R1)  d == getFpRegNoLoad(i.rd, F1)
  IN  XToFp(i, <<I("XORPS", d, d), I("CVTSI2SS32", d, s)>>)
(* FCVT.S.WU converting all of rs1, without the zero-extending MOV32.     *)
translate_FCVTSWUNoZext(i) ==
  LET s == getXReg(i.rs1, R1)  d == getFpRegNoLoad(i.rd, F1)
  IN  XToFp(i, <<I("XORPS", d, d), I("CVTSI2SS64", d, s)>>)
translate_FCVTSWU(i) ==
  LET s == getXReg(i.rs1, R1)  d == getFpRegNoLoad(i.rd, F1)
  IN  XToFp(i, <<I("MOV32", R1, s), I("XORPS", d, d), I("CVTSI2SS64", d, R1)>>)
translate_FMVWX(i) ==
  LET s == getXReg(i.rs1, R1)  d == getFpRegNoLoad(i.rd, F1)
  IN  XToFp(i, <<I("MOVD", d, s)>>)
translate_FCVTSL(i) ==
  LET s == getXReg(i.rs1, R1)  d == getFpRegNoLoad(i.rd, F1)
  IN  XToFp(i, <<I("XORPS", d, d), I("CVTSI2SS64", d, s)>>)

(* FCVT.S.LU: a negative (>= 2^63 unsigned) source is halved with its low *)
(* bit kept, converted and doubled.                                       *)
translate_FCVTSLU(i) ==
  LET s == getXReg(i.rs1, R1)  d == getFpRegNoLoad(i.rd, F1)
      tail == If(s # R1, <<I("MOV64", R1, s)>>)
                \o <<I("MOV64", R2, s), I("AND32", R1, "one"),
                     I("XORPS", F1, F1), I("SHR64", R2, R2),
                     I("OR64", R2, R1), I("CVTSI2SS64", d, R2),
                     I("ADDSS", d, d)>>
  IN  XToFp(i, <<I("XORPS", d, d), I("TEST64", s, s), I("JS", "", 2),
                 I("CVTSI2SS64", d, s), I("JMP", "", Len(tail))>> \o tail)

(* translate_<MNEM> by mnemonic.                                          *)
Codec(i) ==
  CASE i.mnem = "FLW"     -> translate_FLW(i)
    [] i.mnem = "FSW"     -> translate_FSW(i)
    [] i.mnem = "FCLASSS" -> translate_FCLASSS(i)
    [] i.mnem = "FMADDS"  -> translate_FMADDS(i)
    [] i.mnem = "FMSUBS"  -> translate_FMSUBS(i)
    [] i.mnem = "FNMSUBS" -> translate_FNMSUBS(i)
    [] i.mnem = "FNMADDS" -> translate_FNMADDS(i)
    [] i.mnem = "FADDS"   -> translate_FADDS(i)
    [] i.mnem = "FSUBS"   -> translate_FSUBS(i)
    [] i.mnem = "FMULS"   -> translate_FMULS(i)
    [] i.mnem = "FDIVS"   -> translate_FDIVS(i)
    [] i.mnem = "FSQRTS"  -> translate_FSQRTS(i)
    [] i.mnem = "FSGNJS"  -> translate_FSGNJS(i)
    [] i.mnem = "FSGNJNS" -> translate_FSGNJNS(i)
    [] i.mnem = "FSGNJXS" -> translate_FSGNJXS(i)
    [] i.mnem = "FMINS"   -> translate_FMINS(i)
    [] i.mnem = "FMAXS"   -> translate_FMAXS(i)
    [] i.mnem = "FCVTWS"  -> translate_FCVTWS(i)
    [] i.mnem = "FCVTWUS" -> translate_FCVTWUS(i)
    [] i.mnem = "FMVXW"   -> translate_FMVXW(i)
    [] i.mnem = "FEQS"    -> translate_FEQS(i)
    [] i.mnem = "FLTS"    -> translate_FLTS(i)
    [] i.mnem = "FLES"    -> translate_FLES(i)
    [] i.mnem = "FCVTSW"  -> translate_FCVTSW(i)
    [] i.mnem = "FCVTSWU" -> translate_FCVTSWU(i)
    [] i.mnem = "FMVWX"   -> translate_FMVWX(i)
    [] i.mnem = "FCVTLS"  -> translate_FCVTLS(i)
    [] i.mnem = "FCVTLUS" -> translate_FCVTLUS(i)
    [] i.mnem = "FCVTSL"  -> translate_FCVTSL(i)
    [] i.mnem = "FCVTSLU" -> translate_FCVTSLU(i)

-----------------------------------------------------------------------------
(* The emitted code, run on an abstract x86-64.                           *)

Imm(t) == CASE t = "C0" -> Num(FALSE, Two63)   \* 1593835520 = 2^63 as float
            [] OTHER    -> Zero

(* CVTSS2SI of a NaN or an out-of-range value is the integer indefinite.  *)
CvtToInt(w, v) ==
  IF IsNaN(v) \/ (v.k = "num" /\ Magnitude(v.mag) >= 500)
    THEN Term(w, {})                        \* 0x80000000...
    ELSE Un(w, v)

(* SETcc writes the low byte only; after XOR rd, rd that is the result.   *)
SetLow(old, b) == IF old = Zero THEN Num(FALSE, IF b THEN 1 ELSE 0)
                  ELSE Ord("setlow", old, Num(FALSE, IF b THEN 1 ELSE 0))

FpOp   == [ADDSS |-> "add", SUBSS |-> "sub", MULSS |-> "mul", DIVSS |-> "div"]
BitOps == [AND32 |-> "", OR32 |-> "or", OR64 |-> "or", XOR32 |-> "xor",
           NOT32 |-> "not"]
DataOps == {"MOVSS", "MOVD", "MOV64", "MOV32", "MOV32I", "MOV64I", "XORPS",
            "XOR64", "SQRTSS", "MINSS", "MAXSS", "SHR64", "CVTSS2SI32",
            "CVTSS2SI64", "CVTSI2SS32", "CVTSI2SS64", "MOVSX", "BTC63",
            "SETNP", "SETA", "SETNC", "CMOVNZ"}
            \cup DOMAIN FpOp \cup DOMAIN BitOps
JumpOps == {"JP", "JNC", "JS", "JMP"}
FlagOps == {"COMISS", "UCOMISS", "TEST64"}

(* The location an operand names: a memory operand names the cell at the *)
(* address its register holds when the instruction runs.                  *)
Target(o) == IF o[1] = "deref" THEN Cell(loc[o[2]]) ELSE o

(* The value an emitted data instruction writes to its destination.       *)
Written(ins) ==
  LET dv == loc[ins.d]
      sv == CASE ins.op \in {"MOV32I", "MOV64I", "AND32"} -> Zero
              [] ins.op = "MOVSS"                       -> loc[Target(ins.s)]
              [] OTHER                                  -> loc[ins.s]
  IN  CASE ins.op \in {"MOVSS", "MOVD", "MOV64"} -> sv
        [] ins.op \in {"MOV32I", "MOV64I"}      -> Imm(ins.s)
        [] ins.op = "MOV32"                     -> Un("zext32", sv)
        [] ins.op \in {"XORPS", "XOR64"}        -> Zero
        [] ins.op \in DOMAIN FpOp               -> FArith(FpOp[ins.op], dv, sv)
        [] ins.op = "SQRTSS"                    -> FSqrt(sv)
        [] ins.op = "MINSS"                     -> SseMinMax("min", dv, sv)
        [] ins.op = "MAXSS"                     -> SseMinMax("max", dv, sv)
        [] ins.op = "AND32" /\ ins.s = "nosign" -> BitOp("and_nosign", dv, dv)
        [] ins.op = "AND32" /\ ins.s = "sign"   -> BitOp("and_sign", dv, dv)
        [] ins.op = "AND32"                     -> Un("and1", dv)
        [] ins.op \in DOMAIN BitOps             -> BitOp(BitOps[ins.op], dv, sv)
        [] ins.op = "SHR64"                     -> Un("shr1", dv)
        [] ins.op = "CVTSS2SI32"                -> CvtToInt("cvt32", sv)
        [] ins.op = "CVTSS2SI64"                -> CvtToInt("cvt64", sv)
        [] ins.op = "CVTSI2SS32"                -> Un("i2f32", sv)
        [] ins.op = "CVTSI2SS64"                -> Un("i2f64", sv)
        [] ins.op = "MOVSX"                     -> Un("sext32", dv)
        [] ins.op = "BTC63"                     -> Un("btc63", dv)
        [] ins.op = "SETNP"                     -> SetLow(dv, ~flags.pf)
        [] ins.op = "SETA"                      -> SetLow(dv, ~flags.cf /\ ~flags.zf)
        [] ins.op = "SETNC"                     -> SetLow(dv, ~flags.cf)
        [] ins.op = "CMOVNZ"                    -> IF flags.zf THEN dv ELSE sv

Taken(ins) ==
  CASE ins.op = "JP"  -> flags.pf
    [] ins.op = "JNC" -> ~flags.cf
    [] ins.op = "JS"  -> flags.sf
    [] ins.op = "JMP" -> TRUE

FlagsAfter(ins) ==
  IF ins.op = "TEST64"
    THEN [zf |-> FALSE, pf |-> flags.pf, cf |-> FALSE, sf |-> loc[ins.d].neg]
    ELSE Compare(loc[ins.d], loc[ins.s])

-----------------------------------------------------------------------------
(* Actions.                                                               *)

R4Mnem   == {"FMADDS", "FMSUBS", "FNMSUBS", "FNMADDS"}
FpToXMnem == {"FCVTWS", "FCVTWUS", "FMVXW", "FCVTLS", "FCVTLUS",
              "FEQS", "FLTS", "FLES"}
XToFpMnem == {"FCVTSW", "FCVTSWU", "FMVWX", "FCVTSL", "FCVTSLU"}
MemMnem   == {"FLW", "FSW"}

(* The decoded instructions: register fields range over the register file *)
(* each format names; a field a format does not use repeats another.     *)
Instrs ==
  UNION {
    CASE m \in FpToXMnem \cup {"FCLASSS"} ->
           [mnem : {m}, rd : XRegs, rs1 : FRegs, rs2 : FRegs, rs3 : FRegs]
      [] m \in XToFpMnem ->
           {[mnem |-> m, rd |-> d, rs1 |-> s, rs2 |-> s, rs3 |-> s] :
              d \in FRegs, s \in XRegs}
      [] m = "FLW" ->
           {[mnem |-> m, rd |-> d, rs1 |-> s, rs2 |-> d, rs3 |-> d] :
              d \in FRegs, s \in XRegs}
      [] m = "FSW" ->
           {[mnem |-> m, rd |-> s2, rs1 |-> s, rs2 |-> s2, rs3 |-> s2] :
              s \in XRegs, s2 \in FRegs}
      [] m \in R4Mnem ->
           [mnem : {m}, rd : FRegs, rs1 : FRegs, rs2 : FRegs, rs3 : FRegs]
      [] OTHER ->
           {[mnem |-> m, rd |-> d, rs1 |-> s1, rs2 |-> s2, rs3 |-> s1] :
              d \in FRegs, s1 \in FRegs, s2 \in FRegs}
    : m \in Mnemonics}

(* The sign of an integer register is observed only by the int -> float  *)
(* conversions; elsewhere one sign stands for both.                       *)
XSigns == IF instr.mnem \in XToFpMnem THEN BOOLEAN ELSE {FALSE}

(* Where a guest register lives while the block runs.                     *)
FHome(r) == IF fmapped[r] THEN Xmm(r) ELSE FpSlot(r)
XHome(r) == IF xmapped[r] THEN Gp(r) ELSE XSlot(r)

Init ==
  /\ instr \in Instrs
  /\ fmapped \in [FRegs -> BOOLEAN]
  /\ xmapped \in [XRegs -> BOOLEAN]
  /\ finit \in [FRegs -> FVals]
  /\ xinit \in {[r \in XRegs |-> IntLeaf(r, b[r])] : b \in [XRegs -> XSigns]}
  \* memory is read or written only by FLW and FSW
  /\ minit \in IF instr.mnem \in MemMnem THEN [Cells -> FVals]
                                        ELSE {[c \in Cells |-> Zero]}
  /\ loc = [l \in Locs |->
              CASE \E r \in FRegs : l = FHome(r) ->
                     finit[CHOOSE r \in FRegs : l = FHome(r)]
                [] \E r \in XRegs : l = XHome(r) ->
                     xinit[CHOOSE r \in XRegs : l = XHome(r)]
                [] l \in Cells -> minit[l]
                [] OTHER -> Stale]
  /\ flags = [zf |-> FALSE, pf |-> FALSE, cf |-> FALSE, sf |-> FALSE]
  /\ code = <<>>
  /\ hpc = 1
  /\ phase = "translate"

(* translate_<MNEM>(instr, r_info).                                       *)
Translate ==
  /\ phase = "translate"
  /\ code' = Codec(instr)
  /\ phase' = IF instr.mnem \in NotYetImplemented THEN "unsupported" ELSE "run"
  /\ UNCHANGED <<instr, fmapped, xmapped, hpc, loc, flags, finit, xinit, minit>>

Running == phase = "run" /\ hpc <= Len(code)

(* A memory operand whose address register holds no guest address faults. *)
Faults(ins) ==
  ins.op = "MOVSS" /\ \E o \in {ins.d, ins.s} : o[1] = "deref" /\ Target(o) \notin Cells

ExecData ==
  /\ Running /\ code[hpc].op \in DataOps
  /\ IF Faults(code[hpc])
       THEN phase' = "fault" /\ UNCHANGED <<loc, hpc>>
       ELSE /\ loc' = [loc EXCEPT ![Target(code[hpc].d)] = Written(code[hpc])]
            /\ hpc' = hpc + 1
            /\ UNCHANGED phase
  /\ UNCHANGED <<instr, fmapped, xmapped, code, flags, finit, xinit, minit>>

ExecFlags ==
  /\ Running /\ code[hpc].op \in FlagOps
  /\ flags' = FlagsAfter(code[hpc])
  /\ hpc' = hpc + 1
  /\ UNCHANGED <<instr, fmapped, xmapped, code, loc, phase, finit, xinit, minit>>

ExecJump ==
  /\ Running /\ code[hpc].op \in JumpOps
  /\ hpc' = hpc + 1 + (IF Taken(code[hpc]) THEN code[hpc].s ELSE 0)
  /\ UNCHANGED <<instr, fmapped, xmapped, code, loc, flags, phase, finit, xinit, minit>>

(* The code of the instruction has run; the next instruction's follows.   *)
Finish ==
  /\ phase = "run" /\ hpc > Len(code)
  /\ phase' = "done"
  /\ UNCHANGED <<instr, fmapped, xmapped, code, hpc, loc, flags, finit, xinit, minit>>

Next == Translate \/ ExecData \/ ExecFlags \/ ExecJump \/ Finish

Spec == Init /\ [][Next]_vars

-----------------------------------------------------------------------------
(* What the RISC-V F extension says each instruction computes, over the   *)
(* same abstract floats.  Negation is 0 - x (signed zeros of products are *)
(* not modelled).  FMIN/FMAX: a single NaN operand is ignored, and -0 is  *)
(* less than +0.                                                          *)

RiscvMinMax(op, a, b) ==
  CASE IsNaN(a) /\ IsNaN(b)   -> NaNv
    [] IsNaN(a)               -> b
    [] IsNaN(b)               -> a
    [] IsZero(a) /\ IsZero(b) -> Num(IF op = "min" THEN a.neg \/ b.neg
                                     ELSE a.neg /\ b.neg, 0)
    [] op = "min"             -> IF RealOf(a) < RealOf(b) THEN a ELSE b
    [] OTHER                  -> IF RealOf(a) > RealOf(b) THEN a ELSE b

Bit(b) == Num(FALSE, IF b THEN 1 ELSE 0)
Ordered(a, b) == ~IsNaN(a) /\ ~IsNaN(b)

RefResult(i) ==
  LET a == finit[i.rs1]  b == finit[i.rs2]  c == finit[i.rs3]
      prod == FArith("mul", a, b)
  IN  CASE i.mnem = "FMADDS"  -> FArith("add", prod, c)
        [] i.mnem = "FMSUBS"  -> FArith("sub", prod, c)
        [] i.mnem = "FNMSUBS" -> FArith("sub", c, prod)
        [] i.mnem = "FNMADDS" -> FArith("sub", FArith("sub", Zero, prod), c)
        [] i.mnem = "FADDS"   -> FArith("add", a, b)
        [] i.mnem = "FSUBS"   -> FArith("sub", a, b)
        [] i.mnem = "FMULS"   -> FArith("mul", a, b)
        [] i.mnem = "FDIVS"   -> FArith("div", a, b)
        [] i.mnem = "FSQRTS"  -> FSqrt(a)
        [] i.mnem = "FSGNJS"  -> Num(b.neg, a.mag)
        [] i.mnem = "FSGNJNS" -> Num(~b.neg, a.mag)
        [] i.mnem = "FSGNJXS" -> Num(a.neg # b.neg, a.mag)
        [] i.mnem = "FMINS"   -> RiscvMinMax("min", a, b)
        [] i.mnem = "FMAXS"   -> RiscvMinMax("max", a, b)
        [] i.mnem = "FEQS"    -> Bit(Ordered(a, b) /\ RealOf(a) = RealOf(b))
        [] i.mnem = "FLTS"    -> Bit(Ordered(a, b) /\ RealOf(a) < RealOf(b))
        [] i.mnem = "FLES"    -> Bit(Ordered(a, b) /\ RealOf(a) <= RealOf(b))
        [] i.mnem = "FMVXW"   -> Un("sext32", a)
        [] i.mnem = "FLW"     -> minit[Cell(xinit[i.rs1])]

(* The instructions whose result is compared with RefResult; the integer  *)
(* conversions and moves are checked for their register traffic only.    *)
Specified == {"FMADDS", "FMSUBS", "FNMSUBS", "FNMADDS", "FADDS", "FSUBS",
              "FMULS", "FDIVS", "FSQRTS", "FSGNJS", "FSGNJNS", "FSGNJXS",
              "FMINS", "FMAXS", "FEQS", "FLTS", "FLES", "FMVXW", "FLW"}

GuestF(r) == loc[FHome(r)]
GuestX(r) == loc[XHome(r)]
WritesX   == instr.mnem \in FpToXMnem
WritesF   == instr.mnem \notin FpToXMnem \cup {"FSW"}
(* The guest memory word FLW or FSW addresses.                            *)
MemAddr   == Cell(xinit[instr.rs1])

(* The guest register rd after the emitted code has run.                  *)
RdValue == IF WritesX THEN GuestX(instr.rd) ELSE GuestF(instr.rd)

-----------------------------------------------------------------------------
(* The arithmetic of the conversions, on concrete values (FConvert).      *)

ConvMnem == {"FCVTSW", "FCVTSWU", "FCVTSL", "FCVTSLU",
             "FCVTWS", "FCVTWUS", "FCVTLS", "FCVTLUS"}
(* The source the translators read: rs1 of an integer -> float, rs2 of a  *)
(* float -> integer conversion (hazard translate_f_ext.c:640).            *)
ConvSource == IF instr.mnem \in XToFpMnem THEN xinit[instr.rs1] ELSE finit[instr.rs2]

(* The concrete sources an abstract one stands for.  The code branches on *)
(* an integer source's sign (TEST; JS) and on a float source's order      *)
(* against 2^63 (COMISS), which the abstraction fixes; a NaN has none.    *)
Concrete(v) ==
  IF v.k = "int" THEN {x \in Word : SignSet(x) = v.neg}
  ELSE LET mags == CASE v.mag = 0     -> {0}
                     [] v.mag = NaN   -> {}
                     [] v.mag = Two63 -> {C0}
                     [] v.mag = Huge  -> {f \in FloatVals : f > C0}
                     [] OTHER         -> {f \in FloatVals : 0 < f /\ f < C0}
       IN  {IF v.neg THEN -f ELSE f : f \in mags}

(* The concrete value of a term of the run when the source leaf src has  *)
(* value c: the x86 semantics of the instructions the conversions emit.  *)
RECURSIVE Eval(_, _, _)
Eval(t, src, c) ==
  LET E(u)    == Eval(u, src, c)
      one     == (CHOOSE a \in t.args : TRUE)[2]
      side(s) == (CHOOSE a \in t.args : a[1] = s)[2]
      other   == (CHOOSE a \in t.args : t.args = {a} \/ a[2] # one)[2]
  IN  CASE t = src                          -> c
        [] t = Zero                         -> 0
        [] t = Imm("C0")                    -> C0
        [] t = Term("cvt32", {})            -> 2^(WLEN - 1)   \* indefinite
        [] t = Term("cvt64", {})            -> 2^(XLEN - 1)
        [] t.op = "i2f32"  -> Cvtsi2ss(Signed(Lo(E(one)), WLEN))
        [] t.op = "i2f64"  -> Cvtsi2ss(Signed(E(one), XLEN))
        [] t.op = "cvt32"  -> Cvtss2si(E(one), WLEN)
        [] t.op = "cvt64"  -> Cvtss2si(E(one), XLEN)
        [] t.op = "zext32" -> Lo(E(one))
        [] t.op = "sext32" -> SextW(E(one))
        [] t.op = "btc63"  -> E(one) ^^ (2^(XLEN - 1))
        [] t.op = "and1"   -> E(one) & 1
        [] t.op = "shr1"   -> shiftR(E(one), 1)
        [] t.op = "or"     -> E(side("l")) | E(side("r"))
        [] t.op = "sub"    -> Subss(E(side("l")), E(side("r")))
        [] t.op = "add"    -> Addss(E(one), E(other))

TypeOK ==
  /\ instr \in Instrs
  /\ fmapped \in [FRegs -> BOOLEAN] /\ xmapped \in [XRegs -> BOOLEAN]
  /\ phase \in {"translate", "run", "done", "fault", "unsupported"}
  /\ \A k \in DOMAIN code : code[k].op \in DataOps \cup FlagOps \cup JumpOps
  /\ hpc \in 1 .. Len(code) + 1
  /\ DOMAIN loc = Locs
  /\ flags \in [zf : BOOLEAN, pf : BOOLEAN, cf : BOOLEAN, sf : BOOLEAN]

(* The code emitted for an instruction computes what the F extension      *)
(* specifies, whichever of rd, rs1, rs2, rs3 alias and whichever are      *)
(* mapped: a temporary or a mapped register must not be overwritten       *)
(* before it is read.  FSW leaves rs2 in the word rs1 addresses, and no   *)
(* memory access faults.                                                  *)
ResultCorrect ==
  phase \in {"done", "fault"} =>
    /\ phase = "done"
    /\ instr.mnem \in Specified => Same(RdValue, RefResult(instr))
    /\ instr.mnem = "FSW" => Same(loc[MemAddr], finit[instr.rs2])

(* The emitted code writes no guest register but rd (FSW none): every    *)
(* other float and integer register, in its host register or in the      *)
(* register file, keeps its value, and no memory word but the one FSW    *)
(* stores to changes.  Translators use FIRST/SECOND_(FP_)REG as scratch and *)
(* must never operate in place on a mapped source register.               *)
FrameRespected ==
  phase = "done" =>
    /\ \A r \in FRegs : (r = instr.rd /\ WritesF) \/ GuestF(r) = finit[r]
    /\ \A r \in XRegs : (r = instr.rd /\ WritesX) \/ GuestX(r) = xinit[r]
    /\ \A c \in Cells : (instr.mnem = "FSW" /\ c = MemAddr) \/ loc[c] = minit[c]

(* The conversions compute the RISC-V result: the value the emitted code  *)
(* leaves in rd, evaluated for every concrete source the abstract one     *)
(* stands for, is the source rounded once to the nearest float (FCVT.S.W, *)
(* .WU, .L, .LU; FCVT.S.LU halves a source with the top bit set and must  *)
(* keep the lost bit so as not to round twice), or, for FCVT.W.S, .L.S    *)
(* and .LU.S of a value the destination type holds, the value rounded to  *)
(* an integer (FCVT.LU.S from 2^63 on by subtracting 2^63 and flipping   *)
(* bit 63 back).  FCVT.WU.S is left to ConversionsSaturate.               *)
ConversionsExact ==
  phase = "done" /\ instr.mnem \in ConvMnem \ {"FCVTWUS"} =>
    \A c \in Concrete(ConvSource) :
      (instr.mnem \in FpToXMnem => Representable(instr.mnem, c))
        => Eval(RdValue, ConvSource, c) = RefConv(instr.mnem, c)

(* The float -> integer conversions give the RISC-V result for every     *)
(* finite source: out-of-range values saturate at the bounds of the type  *)
(* (the comments of translate_FCVTWS and translate_FCVTWUS say the value  *)
(* is clipped or clamped) and FCVT.WU.S sign-extends its 32-bit result.   *)
ConversionsSaturate ==
  phase = "done" /\ instr.mnem \in ConvMnem \cap FpToXMnem =>
    \A c \in Concrete(ConvSource) :
      Eval(RdValue, ConvSource, c) = RefConv(instr.mnem, c)

=============================================================================
