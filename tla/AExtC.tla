------------------------------- MODULE AExtC -------------------------------
(***************************************************************************)
(* The A-extension codec of src/src/gen/instr/ext/translate_a_ext.c: one  *)
(* translate_<MNEM> per instruction, using the register allocator's       *)
(* helpers and the host stack pointer as scratch (SCRATCH_REG = FE_SP).   *)
(*                                                                         *)
(* The helpers (getRs1, getRs2, getRs2Into, getRd, saveScratchReg,        *)
(* loadScratchReg, invalidateReplacement) are not in the sources; they    *)
(* are modelled from their use.  A mapped guest register is used in its  *)
(* host register.  An unmapped one is given a replacement register,       *)
(* loaded from the register file when it is a source, shared by every     *)
(* operand naming that guest register, and written back to the register   *)
(* file when it is rd.  getRs2Into loads rs2 into the register named.     *)
(* SECOND_REG never caches a guest register, so invalidateReplacement     *)
(* has nothing to drop.                                                   *)
(***************************************************************************)
EXTENDS AmoMachine

-----------------------------------------------------------------------------
(* Register helpers (not in the sources; see the header).                 *)

RegOf(r) == IF mapped[r] THEN Gp(r) ELSE Rep(r)
loadReplacement(r) == If(~mapped[r], <<I("MOV", "D", Rep(r), Slot(r))>>)

getRs1(i) == RegOf(i.rs1)
getRs2(i) == RegOf(i.rs2)
getRd(i)  == RegOf(i.rd)
(* The loads getRs1 and getRs2 emit; one replacement serves rs1 = rs2.    *)
loadSources(i) == loadReplacement(i.rs1) \o If(i.rs2 # i.rs1, loadReplacement(i.rs2))
getRs2Into(i, h) == <<I("MOV", "D", h, Home(i.rs2))>>
saveScratchReg(h) == <<I("MOV", "D", SAVED, h)>>
loadScratchReg(h) == <<I("MOV", "D", h, SAVED)>>
(* The replacement of an unmapped rd reaches the register file; x0 never. *)
writeBackRd(i) == If(~mapped[i.rd] /\ i.rd # X0, <<I("MOV", "D", Slot(i.rd), Rep(i.rd))>>)

-----------------------------------------------------------------------------
(* The translators.                                                       *)

(* rd := the old word, sign-extended from 32 bits for the W forms.        *)
setRdFromScratch(i) ==
  If(i.rd # X0, <<IF i.w = "W" THEN I("MOVSX", "D", getRd(i), SCRATCH_REG)
                                ELSE I("MOV", "D", getRd(i), SCRATCH_REG)>>)

(* AMOSWAP, AMOADD, AMOXOR, AMOAND, AMOOR: the old word to the scratch    *)
(* register, op [rs1], rs2 in place (a plain store for SWAP), then rd.    *)
AmoInPlace(i, op) ==
  loadSources(i) \o saveScratchReg(SCRATCH_REG)
    \o <<I("MOV", i.w, SCRATCH_REG, Deref(getRs1(i))),
         I(op, i.w, Deref(getRs1(i)), getRs2(i))>>
    \o setRdFromScratch(i) \o loadScratchReg(SCRATCH_REG) \o writeBackRd(i)

(* Faulty variant: FIRST_REG, which the codec does not reserve, as the    *)
(* second scratch register.                                              *)
AmoMinMaxFirstReg(i, cmov) ==
  LET tmp == <<"h", "FIRST_REG">> IN
  loadReplacement(i.rs1) \o getRs2Into(i, tmp)
    \o saveScratchReg(SCRATCH_REG)
    \o <<I("MOV", i.w, SCRATCH_REG, Deref(getRs1(i))),
         I("CMP", i.w, SCRATCH_REG, tmp), I(cmov, i.w, tmp, SCRATCH_REG),
         I("MOV", i.w, Deref(getRs1(i)), tmp)>>
    \o setRdFromScratch(i) \o loadScratchReg(SCRATCH_REG) \o writeBackRd(i)

(* AMOMIN, AMOMAX, AMOMINU, AMOMAXU: rs2 into SECOND_REG, replaced by the *)
(* old word when cmov's condition holds of (old, rs2), then stored.       *)
AmoMinMax(i, cmov) ==
  loadReplacement(i.rs1) \o getRs2Into(i, SECOND_REG)
    \o saveScratchReg(SCRATCH_REG)
    \o <<I("MOV", i.w, SCRATCH_REG, Deref(getRs1(i))),
         I("CMP", i.w, SCRATCH_REG, SECOND_REG),
         I(cmov, i.w, SECOND_REG, SCRATCH_REG),
         I("MOV", i.w, Deref(getRs1(i)), SECOND_REG)>>
    \o setRdFromScratch(i) \o loadScratchReg(SCRATCH_REG) \o writeBackRd(i)

(* LR: a load into rd (MOVSX r64, m32 for LR.W); no reservation is kept.  *)
LoadReserved(i) ==
  loadReplacement(i.rs1)
    \o <<IF i.w = "W" THEN I("MOVSX", "D", getRd(i), Deref(getRs1(i)))
                      ELSE I("MOV", "D", getRd(i), Deref(getRs1(i)))>>
    \o writeBackRd(i)

(* SC: the store, then rd := 0 as if it always succeeded.                 *)
StoreConditional(i) ==
  loadSources(i)
    \o <<I("MOV", i.w, Deref(getRs1(i)), getRs2(i)),
         I("MOV", "D", getRd(i), Imm(0))>>
    \o writeBackRd(i)

translate_LRW(i)      == LoadReserved(i)
translate_SCW(i)      == StoreConditional(i)
translate_AMOSWAPW(i) == AmoInPlace(i, "MOV")
translate_AMOADDW(i)  == AmoInPlace(i, "ADD")
translate_AMOXORW(i)  == AmoInPlace(i, "XOR")
translate_AMOANDW(i)  == AmoInPlace(i, "AND")
translate_AMOORW(i)   == AmoInPlace(i, "OR")
translate_AMOMINW(i)  == AmoMinMax(i, "CMOVL")
translate_AMOMAXW(i)  == AmoMinMax(i, "CMOVG")
(* Faulty variant: the signed condition for the unsigned minimum.         *)
translate_AMOMINUWSigned(i) == AmoMinMax(i, "CMOVL")
translate_AMOMINUW(i) == AmoMinMax(i, "CMOVB")
translate_AMOMAXUW(i) == AmoMinMax(i, "CMOVA")
translate_LRD(i)      == LoadReserved(i)
translate_SCD(i)      == StoreConditional(i)
translate_AMOSWAPD(i) == AmoInPlace(i, "MOV")
translate_AMOADDD(i)  == AmoInPlace(i, "ADD")
translate_AMOXORD(i)  == AmoInPlace(i, "XOR")
translate_AMOANDD(i)  == AmoInPlace(i, "AND")
translate_AMOORD(i)   == AmoInPlace(i, "OR")
translate_AMOMIND(i)  == AmoMinMax(i, "CMOVL")
translate_AMOMAXD(i)  == AmoMinMax(i, "CMOVG")
translate_AMOMINUD(i) == AmoMinMax(i, "CMOVB")
translate_AMOMAXUD(i) == AmoMinMax(i, "CMOVA")

Codec(i) ==
  CASE i.mnem = "LRW"      -> translate_LRW(i)
    [] i.mnem = "SCW"      -> translate_SCW(i)
    [] i.mnem = "AMOSWAPW" -> translate_AMOSWAPW(i)
    [] i.mnem = "AMOADDW"  -> translate_AMOADDW(i)
    [] i.mnem = "AMOXORW"  -> translate_AMOXORW(i)
    [] i.mnem = "AMOANDW"  -> translate_AMOANDW(i)
    [] i.mnem = "AMOORW"   -> translate_AMOORW(i)
    [] i.mnem = "AMOMINW"  -> translate_AMOMINW(i)
    [] i.mnem = "AMOMAXW"  -> translate_AMOMAXW(i)
    [] i.mnem = "AMOMINUW" -> translate_AMOMINUW(i)
    [] i.mnem = "AMOMAXUW" -> translate_AMOMAXUW(i)
    [] i.mnem = "LRD"      -> translate_LRD(i)
    [] i.mnem = "SCD"      -> translate_SCD(i)
    [] i.mnem = "AMOSWAPD" -> translate_AMOSWAPD(i)
    [] i.mnem = "AMOADDD"  -> translate_AMOADDD(i)
    [] i.mnem = "AMOXORD"  -> translate_AMOXORD(i)
    [] i.mnem = "AMOANDD"  -> translate_AMOANDD(i)
    [] i.mnem = "AMOORD"   -> translate_AMOORD(i)
    [] i.mnem = "AMOMIND"  -> translate_AMOMIND(i)
    [] i.mnem = "AMOMAXD"  -> translate_AMOMAXD(i)
    [] i.mnem = "AMOMINUD" -> translate_AMOMINUD(i)
    [] i.mnem = "AMOMAXUD" -> translate_AMOMAXUD(i)

-----------------------------------------------------------------------------

(* translate_<MNEM>(instr, r_info): every A instruction is implemented.   *)
Translate ==
  /\ phase = "translate"
  /\ code' = Codec(instr)
  /\ phase' = "run"
  /\ UNCHANGED <<instr, mapped, hpc, loc, mem, flags, xinit, minit>>

Next == Translate \/ ExecData \/ ExecCompare \/ Finish

Spec == Init /\ [][Next]_vars

(* translate_<MNEM> returns and the host runs the emitted code straight   *)
(* through: one thread that never waits, so an enabled step is taken.     *)
FairSpec == Spec /\ WF_vars(Next)

=============================================================================
