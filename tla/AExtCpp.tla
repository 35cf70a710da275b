------------------------------ MODULE AExtCpp ------------------------------
(***************************************************************************)
(* The A-extension codec of src/src/gen/instr/translate_a_ext.cpp (marked *)
(* "Experimental and not tested").  Every operand is addressed in the     *)
(* register file, r_info.base + 8 * reg, whatever the register mapping;   *)
(* DX holds the address, AX and CX the data.  LR, SC and the MIN/MAX      *)
(* forms call critical_not_yet_implemented.                               *)
(***************************************************************************)
EXTENDS AmoMachine

(* The instructions whose translator only reports that it is missing.     *)
NotYetImplemented == {"LR", "SC", "MIN", "MAX", "MINU", "MAXU"}

(* AMOADD.W, AMOXOR.W, AMOAND.W, AMOOR.W: the address is loaded with a    *)
(* 32-bit MOV; rd's slot receives the sign-extended old word and is then  *)
(* read back as the first operand of op.                                  *)
AmoW(i, op) ==
  <<I("MOV", "W", DX, Slot(i.rs1)), I("MOV", "W", AX, Deref(DX)),
    I("MOVSX", "D", CX, AX), I("MOV", "D", Slot(i.rd), CX),
    I("MOV", "W", AX, Slot(i.rs2)), I(op, "W", AX, Slot(i.rd)),
    I("MOV", "W", Deref(DX), AX)>>

(* AMOADD.D ... AMOOR.D: the same in 64 bits, without sign extension.     *)
AmoD(i, op) ==
  <<I("MOV", "D", DX, Slot(i.rs1)), I("MOV", "D", AX, Deref(DX)),
    I("MOV", "D", Slot(i.rd), AX), I("MOV", "D", AX, Slot(i.rs2)),
    I(op, "D", AX, Slot(i.rd)), I("MOV", "D", Deref(DX), AX)>>

translate_AMOSWAPW(i) ==
  <<I("MOV", "W", DX, Slot(i.rs1)), I("MOV", "W", AX, Deref(DX)),
    I("MOVSX", "D", CX, AX), I("MOV", "D", Slot(i.rd), CX),
    I("MOV", "W", AX, Slot(i.rs2)), I("MOV", "W", Slot(i.rs2), CX),
    I("MOV", "W", Deref(DX), AX)>>

translate_AMOSWAPD(i) ==
  <<I("MOV", "D", DX, Slot(i.rs1)), I("MOV", "D", CX, Deref(DX)),
    I("MOV", "D", Slot(i.rd), CX), I("MOV", "D", AX, Slot(i.rs2)),
    I("MOV", "D", Slot(i.rs2), CX), I("MOV", "D", Deref(DX), AX)>>

translate_AMOADDW(i) == AmoW(i, "ADD")
translate_AMOXORW(i) == AmoW(i, "XOR")
translate_AMOANDW(i) == AmoW(i, "AND")
translate_AMOORW(i)  == AmoW(i, "OR")
translate_AMOADDD(i) == AmoD(i, "ADD")
translate_AMOXORD(i) == AmoD(i, "XOR")
translate_AMOANDD(i) == AmoD(i, "AND")
translate_AMOORD(i)  == AmoD(i, "OR")

Codec(i) ==
  CASE i.mnem = "AMOSWAPW" -> translate_AMOSWAPW(i)
    [] i.mnem = "AMOADDW"  -> translate_AMOADDW(i)
    [] i.mnem = "AMOXORW"  -> translate_AMOXORW(i)
    [] i.mnem = "AMOANDW"  -> translate_AMOANDW(i)
    [] i.mnem = "AMOORW"   -> translate_AMOORW(i)
    [] i.mnem = "AMOSWAPD" -> translate_AMOSWAPD(i)
    [] i.mnem = "AMOADDD"  -> translate_AMOADDD(i)
    [] i.mnem = "AMOXORD"  -> translate_AMOXORD(i)
    [] i.mnem = "AMOANDD"  -> translate_AMOANDD(i)
    [] i.mnem = "AMOORD"   -> translate_AMOORD(i)
    [] OTHER               -> <<>>

(* translate_<MNEM>(instr, r_info); critical_not_yet_implemented ends     *)
(* translation of the block (spec: unsupported instruction, fatal).       *)
Translate ==
  /\ phase = "translate"
  /\ code' = Codec(instr)
  /\ phase' = IF instr.op \in NotYetImplemented THEN "unsupported" ELSE "run"
  /\ UNCHANGED <<instr, mapped, hpc, loc, mem, flags, xinit, minit>>

Next == Translate \/ ExecData \/ ExecCompare \/ Finish

Spec == Init /\ [][Next]_vars

=============================================================================
