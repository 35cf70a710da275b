----------------------------- MODULE AmoMachine -----------------------------
(***************************************************************************)
(* What the A-extension codecs translate one instruction into, and how    *)
(* that code runs.  The codec lives in two versions:                      *)
(*   src/src/gen/instr/translate_a_ext.cpp      (module AExtCpp)          *)
(*   src/src/gen/instr/ext/translate_a_ext.c    (module AExtC)            *)
(* Both emit x86-64 integer code through fe_enc64 for LR, SC and the nine *)
(* AMOs in their 32-bit (W) and 64-bit (D) forms.  This module holds what *)
(* they share: the guest and host state, the abstract x86 machine that    *)
(* runs the emitted code, and the refinement mapping to AtomicAmo, what   *)
(* the RISC-V A extension says the instruction does.  Words are scaled    *)
(* down from 64 and 32 bits (module Words).                               *)
(***************************************************************************)
EXTENDS Integers, Sequences, Words

CONSTANTS
  XRegs,       \* guest integer registers, x0 included (model values)
  X0,          \* the hard-wired zero register
  Cells,       \* addresses of the memory cells the guest may access
  Vals,        \* initial contents of memory and of guest registers
  Junk,        \* what a host register or stale register-file slot holds
  Mnemonics,   \* the translate_<MNEM> functions explored
  MapChoice    \* whether guest registers may be / may not be mapped

ASSUME Cells \subseteq 1 .. 2^XLEN - 1 /\ WLEN < XLEN

VARIABLES
  instr,   \* the instruction: [mnem, op, w, rd, rs1, rs2]
  mapped,  \* guest register -> held in a host register while the block runs?
  code,    \* the x86 code emitted for instr
  hpc,     \* index of the next emitted instruction to run
  loc,     \* host location -> value (host registers and the register file)
  mem,     \* guest memory: cell -> value
  flags,   \* the EFLAGS conditions CMOVcc tests
  phase,   \* "translate", "run", "done", "fault" or "unsupported"
  xinit,   \* ghost: guest registers before the instruction
  minit    \* ghost: memory before the instruction

vars == <<instr, mapped, code, hpc, loc, mem, flags, phase, xinit, minit>>

-----------------------------------------------------------------------------
(* Host locations and emitted instructions.                               *)

AX == <<"h", "AX">>
CX == <<"h", "CX">>
DX == <<"h", "DX">>
SCRATCH_REG == <<"h", "SP">>          \* FE_SP in translate_a_ext.c
SECOND_REG  == <<"h", "SECOND_REG">>
SAVED       == <<"file", "scratch">>   \* where saveScratchReg keeps it
Gp(r)   == <<"gp", r>>     \* the host register of a mapped guest register
Rep(r)  == <<"rep", r>>    \* the replacement register of an unmapped one
Slot(r) == <<"file", r>>   \* r_info.base + 8 * r
Deref(l) == <<"deref", l>> \* FE_MEM(l, 0, 0, 0)
Imm(n)   == <<"imm", n>>

FileLocs == {Slot(r) : r \in XRegs} \cup {SAVED}
Locs == {AX, CX, DX, SCRATCH_REG, SECOND_REG} \cup FileLocs
          \cup {Gp(r) : r \in XRegs \ {X0}} \cup {Rep(r) : r \in XRegs}
Operands == Locs \cup {Deref(l) : l \in Locs} \cup {Imm(0)}
IsDeref(o) == o[1] = "deref"

(* op, operand width ("W" 32-bit, "D" 64-bit), destination, source.       *)
I(op, w, d, s) == [op |-> op, w |-> w, d |-> d, s |-> s]
If(c, s) == IF c THEN s ELSE <<>>

MoveOps  == {"MOV", "MOVSX"}
AluOps   == {"ADD", "XOR", "AND", "OR"}
CmovOps  == {"CMOVL", "CMOVG", "CMOVB", "CMOVA"}
DataOps  == MoveOps \cup AluOps \cup CmovOps
Ops      == DataOps \cup {"CMP"}

-----------------------------------------------------------------------------
(* The decoded instructions.                                              *)

AmoKinds == {"SWAP", "ADD", "XOR", "AND", "OR", "MIN", "MAX", "MINU", "MAXU"}
Name(k, w) == IF k \in {"LR", "SC"} THEN k \o w ELSE "AMO" \o k \o w
Kinds == {<<k, w>> \in (AmoKinds \cup {"LR", "SC"}) \X {"W", "D"} :
            Name(k, w) \in Mnemonics}

(* rs1 holds the address; a null rs1 (x0) is a guest fault, not explored. *)
Instrs ==
  {[mnem |-> Name(p[1], p[2]), op |-> p[1], w |-> p[2],
    rd |-> d, rs1 |-> s1, rs2 |-> s2] :
     p \in Kinds, d \in XRegs, s1 \in XRegs \ {X0}, s2 \in XRegs}

(* Where a guest register lives while the block runs.                     *)
Home(r) == IF mapped[r] THEN Gp(r) ELSE Slot(r)
GuestX(r) == loc[Home(r)]

Init ==
  /\ instr \in Instrs
  /\ mapped \in {m \in [XRegs -> BOOLEAN] :
                   ~m[X0] /\ \A r \in XRegs \ {X0} : m[r] \in MapChoice}
  /\ xinit \in {[r \in XRegs |-> IF r = X0 THEN 0 ELSE g[r]] :
                  g \in [XRegs -> Vals \cup Cells]}
  /\ xinit[instr.rs1] \in Cells
  /\ minit \in [Cells -> Vals]
  /\ mem = minit
  /\ loc = [l \in Locs |->
              IF \E r \in XRegs : l = Home(r)
                THEN xinit[CHOOSE r \in XRegs : l = Home(r)]
                ELSE Junk]
  /\ flags = [lt |-> FALSE, gt |-> FALSE, b |-> FALSE, a |-> FALSE]
  /\ code = <<>>
  /\ hpc = 1
  /\ phase = "translate"

-----------------------------------------------------------------------------
(* The emitted code, run on an abstract x86-64.                           *)

Running == phase = "run" /\ hpc <= Len(code)

(* The whole value an operand names, and its low w bits.                  *)
Full(o) == CASE IsDeref(o)     -> mem[loc[o[2]]]
             [] o[1] = "imm"   -> o[2]
             [] OTHER          -> loc[o]
Read(o, w) == Trunc(Full(o), w)

(* An access through a register that holds no guest cell's address.       *)
Faults(ins) == \E o \in {ins.d, ins.s} : IsDeref(o) /\ loc[o[2]] \notin Cells

Holds(op) == CASE op = "CMOVL" -> flags.lt
               [] op = "CMOVG" -> flags.gt
               [] op = "CMOVB" -> flags.b
               [] op = "CMOVA" -> flags.a

(* The value a data instruction writes.  MOVSX r64, r/m32 reads the low   *)
(* half of its source; a 32-bit CMOVcc writes its destination (zero-      *)
(* extended) whether or not the condition holds.                          *)
Result(ins) ==
  LET dv == Read(ins.d, ins.w)  sv == Read(ins.s, ins.w)
  IN  CASE ins.op = "MOV"      -> sv
        [] ins.op = "MOVSX"    -> SextW(Read(ins.s, "W"))
        [] ins.op \in AluOps   -> Alu(ins.op, dv, sv, Bits(ins.w))
        [] ins.op \in CmovOps  -> IF Holds(ins.op) THEN sv ELSE dv

(* A 32-bit write to a register zero-extends; to memory (a guest cell, a  *)
(* register-file slot) it leaves the upper half alone.                    *)
Store(ins, v) ==
  IF IsDeref(ins.d)
    THEN /\ mem' = [mem EXCEPT ![loc[ins.d[2]]] = Merge(@, v, ins.w)]
         /\ UNCHANGED loc
    ELSE /\ loc' = [loc EXCEPT ![ins.d] = IF ins.d \in FileLocs
                                            THEN Merge(@, v, ins.w) ELSE v]
         /\ UNCHANGED mem

ExecData ==
  /\ Running /\ code[hpc].op \in DataOps
  /\ IF Faults(code[hpc])
       THEN phase' = "fault" /\ UNCHANGED <<hpc, loc, mem>>
       ELSE Store(code[hpc], Result(code[hpc])) /\ hpc' = hpc + 1
              /\ UNCHANGED phase
  /\ UNCHANGED <<instr, mapped, code, flags, xinit, minit>>

ExecCompare ==
  /\ Running /\ code[hpc].op = "CMP"
  /\ LET a == Read(code[hpc].d, code[hpc].w)
         b == Read(code[hpc].s, code[hpc].w)
         n == Bits(code[hpc].w)
     IN  flags' = [lt |-> Signed(a, n) < Signed(b, n),
                   gt |-> Signed(a, n) > Signed(b, n), b |-> a < b, a |-> a > b]
  /\ hpc' = hpc + 1
  /\ UNCHANGED <<instr, mapped, code, loc, mem, phase, xinit, minit>>

(* The code of the instruction has run; the next instruction's follows.   *)
Finish ==
  /\ phase = "run" /\ hpc > Len(code)
  /\ phase' = "done"
  /\ UNCHANGED <<instr, mapped, code, hpc, loc, mem, flags, xinit, minit>>

-----------------------------------------------------------------------------
(* The refinement mapping to AtomicAmo.  Until its code has run, the      *)
(* instruction has not taken effect and the guest state is the one it     *)
(* started from; once it has, the guest registers are where the block    *)
(* keeps them (host register or register-file slot) and memory is mem.   *)

Addr == xinit[instr.rs1]

Atomic == INSTANCE AtomicAmo
            WITH x    <- IF phase = "done" THEN [r \in XRegs |-> GuestX(r)]
                                           ELSE xinit,
                 m    <- IF phase = "done" THEN mem ELSE minit,
                 done <- phase = "done"

TypeOK ==
  /\ instr \in Instrs
  /\ mapped \in [XRegs -> BOOLEAN]
  /\ phase \in {"translate", "run", "done", "fault", "unsupported"}
  /\ \A k \in DOMAIN code : /\ code[k].op \in Ops /\ code[k].w \in {"W", "D"}
                            /\ {code[k].d, code[k].s} \subseteq Operands
  /\ hpc \in 1 .. Len(code) + 1
  /\ loc \in [Locs -> Word] /\ mem \in [Cells -> Word]
  /\ flags \in [lt : BOOLEAN, gt : BOOLEAN, b : BOOLEAN, a : BOOLEAN]

(* The translated code implements the instruction: run to its end on    *)
(* the host, it has the effect AtomicAmo specifies on the guest registers *)
(* and memory, whichever of rd, rs1, rs2 alias or are mapped to host      *)
(* registers.  Each operand must be read before the code overwrites it,   *)
(* through the full 64-bit address, and the code must not fault.         *)
AtomicRefined == Atomic!Spec

(* The code changes no guest register but rd (and never x0), no memory   *)
(* cell but the one addressed, and gives the host the scratch register   *)
(* (the stack pointer in translate_a_ext.c) back as it found it.         *)
FrameRespected ==
  phase = "done" =>
    /\ \A r \in XRegs : (r = instr.rd /\ r # X0) \/ GuestX(r) = xinit[r]
    /\ \A c \in Cells \ {Addr} : mem[c] = minit[c]
    /\ loc[SCRATCH_REG] = Junk

(* A guest register the allocator mapped to a host register lives there   *)
(* for the whole block: emitted code must never read or write its stale   *)
(* register-file slot (spec 4.3).                                         *)
MappedRegistersNotInFile ==
  \A k \in DOMAIN code : \A r \in XRegs :
    mapped[r] => {code[k].d, code[k].s} \cap {Slot(r), Deref(Slot(r))} = {}

=============================================================================
