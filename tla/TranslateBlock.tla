--------------------------- MODULE TranslateBlock ---------------------------
(***************************************************************************)
(* One call of translate_block (src/src/translate.cpp): the parse loop     *)
(* that forms a guest basic block and counts register usage, the register  *)
(* allocator that ranks guest registers and hands out host registers, the  *)
(* emitter (load prologue, per-instruction translation, store epilogue)    *)
(* and finalize_block, which mmaps an executable region and copies the     *)
(* code into it.                                                           *)
(*                                                                         *)
(* Guest addresses are byte addresses; an instruction is 4 bytes.  The     *)
(* decoded fields of each instruction are given by the constant Program.   *)
(* The local arrays reg_count and mapped of translate_block are not        *)
(* initialised by the code, so their initial contents are chosen          *)
(* nondeterministically (UninitCount, BOOLEAN).  register_map is an array  *)
(* of asmjit::x86::Gp, whose default constructor yields "no register"      *)
(* (NoReg).                                                                *)
(***************************************************************************)
EXTENDS Integers, Sequences, FiniteSets, TLC

CONSTANTS
  Program,          \* guest memory: address -> [mnem, rd, rs1, rs2, imm]
  N_REG,            \* register slots x0 .. x31, pc of the register file
  x86_64_registers, \* the host register pool of the allocator (a sequence)
  NoReg,            \* a default-constructed asmjit::x86::Gp
  UninitCount,      \* values an uninitialised uint32_t reg_count slot holds
  MaxRegions,       \* regions mmap grants before the address space is gone
  MmapCanFail,      \* whether mmap may fail before MaxRegions is reached
  MaxBlockLen       \* bound on the block length the model explores

Addr == DOMAIN Program
x0   == 0
pc   == N_REG - 1
Regs == 0 .. pc

ASSUME /\ N_REG >= Len(x86_64_registers)
       /\ NoReg \notin {x86_64_registers[k] : k \in DOMAIN x86_64_registers}
       /\ UninitCount \subseteq Nat /\ MmapCanFail \in BOOLEAN

VARIABLES
  tb_pc,        \* where the running translate_block call is
  risc_addr,    \* the address being decoded
  block_cache,  \* std::vector<t_risc_instr> of the block
  reg_count,    \* usage histogram uint32_t reg_count[N_REG]
  indices,      \* registers ranked by usage (std::stable_sort result)
  mapped,       \* bool mapped[N_REG]
  register_map, \* asmjit::x86::Gp register_map[N_REG]
  code,         \* the CodeHolder's .text section being assembled
  result,       \* the t_cache_loc returned by finalize_block
  mem           \* executable regions handed out by mmap, in order

tbVars == <<tb_pc, risc_addr, block_cache, reg_count, indices, mapped,
            register_map, code, result, mem>>

NoAddr == -1
Iota   == [k \in 1 .. N_REG |-> k - 1]   \* std::iota(indices, 0)

-----------------------------------------------------------------------------
(* Instruction classes and operands, as parse_instruction reports them.   *)

BranchMnem == {"BEQ", "BNE", "BLT", "BGE", "BLTU", "BGEU"}

OpType(m) == CASE m \in BranchMnem     -> "BRANCH"
               [] m \in {"JAL", "JALR"} -> "JUMP"
               [] OTHER                 -> "OTHER"

(* Register fields an instruction reads or writes, by encoding format.    *)
UsedRegs(i) ==
  CASE i.mnem \in BranchMnem                        -> <<i.rs1, i.rs2>>
    [] i.mnem \in {"JAL", "LUI", "AUIPC"}           -> <<i.rd>>
    [] i.mnem \in {"ADD", "SUB", "AND", "OR", "XOR"} -> <<i.rd, i.rs1, i.rs2>>
    [] OTHER                                        -> <<i.rd, i.rs1>>

(* parse_instruction: decode at addr and add each non-x0 operand to the   *)
(* usage histogram.                                                       *)
Decode(a) == [addr |-> a, mnem |-> Program[a].mnem, rd |-> Program[a].rd,
              rs1 |-> Program[a].rs1, rs2 |-> Program[a].rs2,
              imm |-> Program[a].imm]

CountUsage(count, i) ==
  [r \in Regs |-> IF r = x0 THEN count[r]
                  ELSE count[r] + Len(SelectSeq(UsedRegs(i), LAMBDA o : o = r))]

-----------------------------------------------------------------------------
(* The parse loop of translate_block.                                     *)

(* Faulty variant: JALR not treated as a block end.                       *)
TerminatesBranchOnly(i) == OpType(i.mnem) = "BRANCH"

(* A conditional branch or JALR ends the block (goto PARSE_DONE).         *)
Terminates(i) == OpType(i.mnem) = "BRANCH" \/ i.mnem = "JALR"

(* JAL rd, off is replaced in block_cache by AUIPC rd, 4 (link only).     *)
JalOnlyLink(i) == [addr |-> i.addr, mnem |-> "AUIPC", rd |-> i.rd,
                   rs1 |-> x0, rs2 |-> x0, imm |-> 4]

Stored(i) == IF i.mnem = "JAL" THEN JalOnlyLink(i) ELSE i

(* Faulty variant: a 2-byte (compressed) instruction step.               *)
NextAddrHalfStep(i) == CASE i.mnem = "JAL"          -> i.addr + Stored(i).imm
                        [] OpType(i.mnem) = "JUMP" -> i.addr
                        [] OTHER                   -> i.addr + 2

(* The next address: JAL adds block_cache.back().imm, read after the      *)
(* rewrite; the "should not get here" arm of the JUMP switch leaves       *)
(* risc_addr as it is; everything else falls through to risc_addr + 4.   *)
NextAddr(i) == CASE i.mnem = "JAL"          -> i.addr + Stored(i).imm
                 [] OpType(i.mnem) = "JUMP" -> i.addr
                 [] OTHER                   -> i.addr + 4

-----------------------------------------------------------------------------
(* Code emission.                                                         *)

(* Mnemonics for which translate_risc_instr calls a translator; every     *)
(* other case of its switch is an empty "break".                          *)
Translated == {"LUI", "JAL", "JALR", "ADDI", "SLLI", "ADDIW"} \cup BranchMnem

GuestOp(i) == [op |-> "guest", addr |-> i.addr, mnem |-> i.mnem, imm |-> i.imm]
MoveOp(kind, r) == [op |-> kind, reg |-> r, host |-> register_map[r]]

MappedInOrder == SelectSeq(Iota, LAMBDA r : mapped[r])

(* load_risc_registers / save_risc_registers: x0 .. pc, if mapped[i].     *)
LoadRiscRegisters == [k \in DOMAIN MappedInOrder |-> MoveOp("load", MappedInOrder[k])]
SaveRiscRegisters == [k \in DOMAIN MappedInOrder |-> MoveOp("store", MappedInOrder[k])]

TranslateInstrs(blk) ==
  LET emitting == SelectSeq(blk, LAMBDA i : i.mnem \in Translated)
  IN  [k \in DOMAIN emitting |-> GuestOp(emitting[k])]

-----------------------------------------------------------------------------
(* Actions.                                                               *)

(* Entry of translate_block: a fresh block_cache, an uninitialised        *)
(* reg_count.                                                             *)
Start(a) ==
  /\ tb_pc = "idle"
  /\ tb_pc' = "parse"
  /\ risc_addr' = a
  /\ block_cache' = <<>>
  /\ reg_count' \in [Regs -> UninitCount]
  /\ UNCHANGED <<indices, mapped, register_map, code, result, mem>>

(* One iteration of the parse loop: push the instruction, decode and      *)
(* count it, then stop, follow a JAL or step to the next address.         *)
ParseInstr ==
  /\ tb_pc = "parse"
  /\ Len(block_cache) < MaxBlockLen
  /\ LET i == Decode(risc_addr) IN
       /\ block_cache' = Append(block_cache, Stored(i))
       /\ reg_count' = CountUsage(reg_count, i)
       /\ IF Terminates(i)
            THEN tb_pc' = "alloc" /\ UNCHANGED risc_addr
            ELSE risc_addr' = NextAddr(i) /\ UNCHANGED tb_pc
  /\ UNCHANGED <<indices, mapped, register_map, code, result, mem>>

(* Ranking by std::stable_sort on iota with reg_count[a] > reg_count[b]:  *)
(* equal counts keep ascending register order.                           *)
RankedBefore(a, b) ==
  \/ reg_count[a] > reg_count[b]
  \/ reg_count[a] = reg_count[b] /\ a < b

(* Slot k of the loop visits indices[k] and may give it host register k. *)
AllocCandidate(r) == r # x0 /\ reg_count[r] > 2

AllocateRegisters ==
  /\ tb_pc = "alloc"
  /\ LET ranked  == SortSeq(Iota, RankedBefore)
         slots   == DOMAIN x86_64_registers
         visited == {ranked[k] : k \in slots}
         slotOf(r) == CHOOSE k \in slots : ranked[k] = r
     IN  /\ indices' = ranked
         /\ \E garbage \in [Regs \ visited -> BOOLEAN] :
              mapped' = [r \in Regs |-> IF r \in visited THEN AllocCandidate(r)
                                        ELSE garbage[r]]
         /\ register_map' = [r \in Regs |->
                               IF r \in visited /\ AllocCandidate(r)
                                 THEN x86_64_registers[slotOf(r)] ELSE NoReg]
  /\ tb_pc' = "emit"
  /\ UNCHANGED <<risc_addr, block_cache, reg_count, code, result, mem>>

(* init_block, load_risc_registers, translate each instruction,           *)
(* save_risc_registers (translate_block lines 461-476).                   *)
EmitBlock ==
  /\ tb_pc = "emit"
  /\ UNCHANGED <<mapped, register_map>>
  /\ code' = LoadRiscRegisters \o TranslateInstrs(block_cache) \o SaveRiscRegisters
  /\ tb_pc' = "final"
  /\ UNCHANGED <<risc_addr, block_cache, reg_count, indices, result, mem>>

(* finalize_block: emit ret, then mmap a region.  mmap reports failure as *)
(* MAP_FAILED, which passes the "!ptr" test; relocateToBase and memcpy    *)
(* then write to that address and the process faults.  A region records   *)
(* the guest part of the code; the register moves do not change control  *)
(* flow.  The locals of translate_block die when it returns.              *)
FinalizeBlock ==
  /\ tb_pc = "final"
  /\ \/ /\ Len(mem) < MaxRegions
        /\ mem' = Append(mem, SelectSeq(code, LAMBDA o : o.op = "guest"))
        /\ result' = Len(mem) + 1
        /\ tb_pc' = "done"
        /\ block_cache' = <<>>
        /\ reg_count' = [r \in Regs |-> 0]
        /\ indices' = Iota
        /\ mapped' = [r \in Regs |-> FALSE]
        /\ register_map' = [r \in Regs |-> NoReg]
        /\ code' = <<>>
        /\ risc_addr' = NoAddr
     \/ /\ MmapCanFail \/ Len(mem) = MaxRegions
        /\ tb_pc' = "segfault"
        /\ UNCHANGED <<risc_addr, block_cache, reg_count, indices, mapped,
                       register_map, code, result, mem>>

-----------------------------------------------------------------------------
(* Invariants.                                                            *)

Mnems == {Program[a].mnem : a \in Addr} \cup {"AUIPC"}
Instr == [addr : Addr, mnem : Mnems, rd : Regs, rs1 : Regs, rs2 : Regs,
          imm : Int]
HostRegs == {x86_64_registers[k] : k \in DOMAIN x86_64_registers}

TypeOK ==
  /\ tb_pc \in {"idle", "parse", "alloc", "emit", "final", "done", "segfault"}
  /\ risc_addr \in Addr \cup {NoAddr}
  /\ block_cache \in Seq(Instr)
  /\ reg_count \in [Regs -> Nat]
  /\ indices \in [1 .. N_REG -> Regs]
  /\ mapped \in [Regs -> BOOLEAN]
  /\ register_map \in [Regs -> HostRegs \cup {NoReg}]
  /\ result \in 0 .. MaxRegions
  /\ Len(mem) <= MaxRegions

Allocated == tb_pc \in {"emit", "final"}

(* The parse loop is a while(true) over a finite program: it ends because *)
(* no guest address is appended to one block twice.  Every control path   *)
(* of the loop body (branch, JAL, JALR, fall-through) must advance or     *)
(* stop.                                                                  *)
ParseVisitsEachAddressOnce ==
  \A j, k \in DOMAIN block_cache :
    j # k => block_cache[j].addr # block_cache[k].addr

(* Specification 4.1: a direct JAL is inlined, decoding continues at the  *)
(* address computed from its original offset.                             *)
JalInlinedAtTarget ==
  \A k \in 1 .. Len(block_cache) - 1 :
    LET a == block_cache[k].addr IN
    Program[a].mnem = "JAL" => block_cache[k + 1].addr = a + Program[a].imm

(* Specification 4.3 / 7: every instruction of the block is translated by *)
(* the codec, or the translation of the block fails.                      *)
EveryInstructionTranslated ==
  tb_pc = "final" =>
    \A k \in DOMAIN block_cache :
      \E j \in DOMAIN code : code[j].op = "guest" /\ code[j].addr = block_cache[k].addr

(* Specification 3 / 4.2: the mapping read by the prologue and epilogue   *)
(* never maps x0, and maps every mapped register to its own host register. *)
MappingWellFormed ==
  Allocated =>
    \A r \in Regs : mapped[r] =>
      /\ r # x0
      /\ register_map[r] # NoReg
      /\ \A s \in Regs \ {r} : mapped[s] => register_map[s] # register_map[r]

(* Specification 4.4 / 7: a failed mmap is reported as a failed           *)
(* translation, never executed past.                                      *)
AllocationFailureReported == tb_pc # "segfault"

-----------------------------------------------------------------------------

TBInit ==
  /\ tb_pc = "idle"
  /\ risc_addr = NoAddr
  /\ block_cache = <<>>
  /\ reg_count = [r \in Regs |-> 0]
  /\ indices = Iota
  /\ mapped = [r \in Regs |-> FALSE]
  /\ register_map = [r \in Regs |-> NoReg]
  /\ code = <<>>
  /\ result = 0
  /\ mem = <<>>

TBStep == ParseInstr \/ AllocateRegisters \/ EmitBlock \/ FinalizeBlock

=============================================================================
