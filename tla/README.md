# TLA+ models of the ria-jit block translator

ria-jit is a dynamic binary translator. It takes RISC-V (RV64) guest code and turns it into x86-64 host code.
This directory holds TLA+ modules of the parts of the code under `src/` whose
control and data flow a model checker can explore. It also holds the TLC
configurations that check them.

## The system and how its parts interact

| Part | Source | What it does |
|---|---|---|
| Dispatcher / code cache | not in `src/` (specification) | Looks the guest pc up in the code cache. On a miss it calls `translate_block` and inserts the result. On a hit it calls the cached block, which returns with the next guest pc. |
| `translate_block` | `src/src/translate.cpp:309-485` | Has four steps. (1) A parse loop decodes instructions from `risc_addr` until a conditional branch or a JALR. A JAL is rewritten to a link-only AUIPC and decoding follows the jump. (2) Guest registers are ranked by usage count. The first 8 ranked registers get `r8..r15` when they are used more than twice. (3) The block is emitted: register loads, one translator call per instruction, register stores. (4) `finalize_block` runs. |
| `translate_risc_instr` | `translate.cpp:135-296` | Dispatches on the mnemonic. Only LUI, JAL, JALR, the six branches, ADDI, SLLI and ADDIW reach a translator. Every other case is an empty `break`. |
| `finalize_block` | `translate.cpp:62-92` | Emits `ret`, then mmaps an RWX region, relocates the code and copies it into the region. |
| `load/save_risc_registers` | `translate.cpp:493-507` | For every slot x0..pc with `mapped[i]`, moves between the register file and `register_map[i]`. |
| Return-address stack | `src/src/cache/return_stack.h` | Declarations only. Nothing in `src/` implements or calls the push, pop or jump emitters. |
| F extension codec | `src/src/gen/instr/ext/translate_f_ext.c` | One `translate_<MNEM>` per single-precision instruction. Each asks `getFpReg`/`getFpRegNoLoad` where rd, rs1, rs2, rs3 live (a mapped host XMM register, or a scratch register loaded from the register file), emits SSE code through the scratch registers `FIRST/SECOND_FP_REG` and `FIRST/SECOND_REG`, and writes rd back with `setFpReg`/`setRd`. FLW and FSW move a float between a float register and guest memory at the address in an integer register. FCLASS.S is not implemented. |
| A extension codec | `src/src/gen/instr/ext/translate_a_ext.c`, `src/src/gen/instr/translate_a_ext.cpp` | Two versions that emit x86 for LR, SC and the AMOs, W and D. The `.c` version asks the register helpers where rd, rs1 and rs2 live and borrows the host stack pointer as a scratch register, saving and restoring it. The `.cpp` version ("experimental") addresses every operand in the register file and leaves LR, SC and the MIN/MAX forms to `critical_not_yet_implemented`. |
| Options, ELF loader, CSRs | `env/opt.c`, `loadElf.h`, `core/translate_csr.h` | Command-line parsing and declarations. |

The dispatcher calls `translate_block`. `translate_block` calls `parse_instruction` (not in `src/`), `translate_risc_instr` and `finalize_block`. The translator is single threaded. The only interleaving is the alternation between the dispatcher and one translation at a time, so concurrency hazards do not apply. The hazards are these:

- uninitialised locals;
- read-after-overwrite ordering;
- unchecked failures;
- numeric edges of the float conversions.

## Modules

- **`TranslateBlock.tla`** models one `translate_block` call as a sequence of steps.
  - The step variable is `tb_pc`: idle, parse, alloc, emit, final, then done or segfault.
  - The state mirrors the locals `risc_addr`, `block_cache`, `reg_count`, `indices`, `mapped` and `register_map`. It adds the assembled `code`, the returned `result`, and `mem`, the sequence of mmapped regions.
  - Actions:
    - `Start` is the entry. `reg_count` is uninitialised there, so it takes any value from `UninitCount`.
    - `ParseInstr` is one iteration of the `while(true)` loop, with all its arms. It includes the JAL rewrite and the increment at line 365, which reads the offset after the rewrite.
    - `AllocateRegisters` covers lines 413-450. `std::stable_sort` is `SortSeq` with a comparator that breaks ties by register number. Slots the loop does not visit keep nondeterministic `mapped` values, because the array is uninitialised. Their `register_map` entry is the default `Gp` (`NoReg`).
    - `EmitBlock` covers the prologue, the translator calls and the epilogue.
    - `FinalizeBlock` has a success disjunct and a failure disjunct. The failure disjunct covers a failed mmap: it is missed by `!ptr` and leads to a segfault.
  - A region holds the guest instructions a translator was called for. The host instruction bytes are abstracted away.
  - `parse_instruction` is not in `src/`. Its optype and operand counting are modelled from the specification (`OpType`, `UsedRegs`, `CountUsage`).
- **`Engine.tla`** (EXTENDS TranslateBlock) adds the dispatcher:
  - `guest_pc`;
  - `cache`, a function from guest block address to region index;
  - `Dispatch` (a miss starts a translation);
  - `Insert`;
  - `Execute` (a hit moves `guest_pc` to one of the block's exits).

- **`MC_Engine.tla`** instantiates the modules with a 5-instruction program:

  ```
  addi x1,x1,1; jal x2,+8; lb x1,0(x2); beq x1,x2,-12; jalr x0,0(x1)
  ```

  It uses 4 register slots (x0, x1, x2, pc) and two host registers, `r8` and `r9`, as model values.

- **`FCodec.tla`** models one call of an F translator and the run of the code it emits.
  - Constants: the guest float and integer registers (`FRegs`, `XRegs`), the mnemonics to check and the initial float values (`FVals`).
  - State: the decoded `instr`, which guest registers are mapped (`fmapped`, `xmapped`), the emitted `code`, and an abstract x86 machine: `loc` maps every host location (XMM registers, the register file slots, the four scratch registers, and the guest memory words at the addresses the integer registers hold) to a value, plus the `flags` and the host pc `hpc`.
  - Values are abstract floats: a sign and a magnitude (0, small finite numbers, `NaN`, `Two63`, `Huge` at or above 2^63) or a symbolic term built by an operation. Addition and multiplication are commutative on terms, `x - x` is 0 unless x is NaN, and NaN propagates. The x86 semantics needed are `MINSS`/`MAXSS` (the source on NaN or equal zeros), `UCOMISS`/`COMISS` flags, `CVTSS2SI` (the indefinite integer on NaN or overflow) and the 32-bit logic of the sign-injection code.
  - Each translator is a sequence-valued operator translated line by line from its non-AVX branch (`AVX_SUPPORT` is `#undef`'d). The register helpers (`getFpReg`, `setFpReg`, `getRs1`, `setRd`, `doFpArithmCommutative`) are not in `src/` and are modelled from the specification.
  - FLW and FSW use a memory operand, whose cell is found from the value of its address register when the instruction runs. An address register that holds no guest address (a stale scratch register) makes the access fault (`phase = "fault"`). The FLW/FSW immediate offset is the same for every address and is left out. Initial memory contents vary only for FLW and FSW, the only instructions that access memory.
  - Actions: `Translate` (the translator call; FCLASS.S ends in `unsupported`), then one of `ExecData`, `ExecFlags`, `ExecJump` per emitted instruction, and `Finish`. Patched dummy jumps carry their final skip counts.
  - `RefResult` is the F extension's definition of each result over the same abstract floats.
  - The conversions are also checked on concrete numbers. `Concrete` maps an abstract source value to the set of concrete values it stands for. `Eval` (RECURSIVE) interprets the symbolic term that the run left in rd on one such value, using the x86 arithmetic of `FConvert`. Every conversion translator is therefore checked against the RISC-V result for every number of the scaled format, not only for its abstract class.
- **`FConvert.tla`** (EXTENDS Words) holds concrete conversion arithmetic on a scaled machine (XLEN = 8, WLEN = 4, PREC = 3 significant bits). A float f is kept as the integer 2f, so halfway cases are kept.
  - `RoundToPrec` rounds to nearest-even at PREC bits, using a RECURSIVE `BitLen`.
  - The x86 instructions: `Cvtsi2ss`, `Cvtss2si` (the integer indefinite when out of range), `Addss`, `Subss` and the sign test.
  - `RefConv` is the RISC-V definition of the eight conversions: exact value rounded once, saturation of float → integer, sign extension of 32-bit results.
  - It models instruction-set semantics, not repository code, so it has no `map` entries.
- **`Words.tla`** has the integer words that both A codecs, the A extension and `FConvert` and the A extension use: truncation, sign extension of the low half, the merge of a W store and the AMO operations.
- **`AtomicAmo.tla`** is the abstract specification: the A extension's single atomic step on the guest registers `x` and memory `m`. It loads the word at rs1, writes op(word, rs2) back and puts the old word in rd. A W form touches only the low half, and x0 stays 0. A weak-fairness condition makes the step happen.
- **`AmoMachine.tla`** is the machine shared by both A codecs: the decoded `instr` (mnemonic, W or D, rd, rs1, rs2), which guest registers are `mapped`, the emitted `code`, and an x86 machine with host pc `hpc`, locations `loc` (host registers, replacement registers, register-file slots, the saved stack pointer) and memory `mem`. Words are concrete XLEN-bit integers with a WLEN-bit low half: a W load sign-extends (MOVSX), a W store replaces only the low half, a 32-bit register write clears the upper half, and CMOVL/CMOVG/CMOVB/CMOVA test the signed and unsigned order of the last CMP. A dereferenced address that is not a memory cell is a fault. `Atomic` instantiates `AtomicAmo` with the refinement mapping. Until the code has run, the guest state is the initial one (`xinit`, `minit`). After it has run, each register is read from where the block keeps it (its host register or its register-file slot), and memory is `mem`.
  - Actions: `Translate` (one translator call), then `ExecData` or `ExecCompare` per emitted instruction, and `Finish`.
- **`AExtC.tla`** has the 22 translators of `translate_a_ext.c`, one operator each, over shared sequence operators for the in-place AMOs (`AmoInPlace`), the MIN/MAX forms (`AmoMinMax`), LR and SC. The helpers (`getRs1`, `getRs2`, `getRs2Into`, `getRd`, `saveScratchReg`, `loadScratchReg`) are not in `src/` and are modelled by their contract. A mapped register is used in its host register. An unmapped one gets a replacement register that is loaded from its slot if it is a source, is shared by all operands naming it, and is written back if it is rd (never for x0). `SECOND_REG` never caches a guest register.
- **`AExtCpp.tla`** has the 10 implemented translators of `translate_a_ext.cpp`, instruction by instruction. The other 12 lead to the `unsupported` phase.
- **`MC_AExtC.tla`, `MC_AExtCpp.tla`** use x0, x1 and x2 as model values. The violation runs use symmetry over x1 and x2. With three registers, rd, rs1 and rs2 can alias in every pattern, and rd or rs2 can be x0.
- **`MC_FCodec.tla`** instantiates it with three float registers and two integer registers as model values, with symmetry over each set. Three registers give every aliasing pattern of rd, rs1, rs2 and rs3 except four distinct ones, and every combination of mapped and unmapped operands.

## Runs

| Run | Expect | What it shows |
|---|---|---|
| `engine` (engine.cfg) | pass | See the property list below. Any `finalize_block` may hit a failed mmap. The process then dies on the segfault, which is the only final state (`CHECK_DEADLOCK FALSE`). |
| `v_jal_target` | violation | After an inlined JAL, decoding continues at JAL+4, not at the target (`translate.cpp:365`). |
| `v_silent_drop` | violation | A block with a load or an inlined JAL (now AUIPC) is finalized without code for it (`translate.cpp:142`, `168`). |
| `v_uninit_mapped` | violation | Uninitialised `mapped[]` entries make the prologue move x0 or pc through a default register (`translate.cpp:424`). |
| `v_mmap_fail` | violation | A failed mmap is executed past (`translate.cpp:75`). |
| `fp_results` | pass | `ResultCorrect`, `FrameRespected` and `ConversionsExact` for every translator except FNMSUB.S, FSUB.S, FMIN.S and FMAX.S, on -0, +1 and NaN: rd gets the RISC-V result and no other guest register changes, for every aliasing and mapping. FLW and FSW are included, with every mapping of the address and data registers. About 790 000 states, 65 seconds. Most of the time goes into generating initial states. |
| `v_fnmsub` | violation | FNMSUB.S moves rs3 into rd only when it is already there (`translate_f_ext.c:210`). With rd and rs3 in different locations the product is subtracted from the old rd. |
| `v_fcvtlus` | violation | FCVT.LU.S subtracts 2^63 in place in the host register of a mapped rs2 (`:878`), changing a guest register that is not rd. |
| `v_fcvt_saturate` | violation | The float → integer conversions do not saturate (`translate_f_ext.c:643`). FCVT.L.S of a value at or above 2^63 gives the x86 integer indefinite (the most negative value) where RISC-V gives the largest one. FCVT.W.S behaves the same way, although its comment says "clipped". FCVT.LU.S and FCVT.WU.S wrap negative values. FCVT.WU.S also zero-extends its result (`:663`). |
| `amo_results` | pass | All 22 translators of `translate_a_ext.c` refine `AtomicAmo`. This is checked for every aliasing and mapping of rd, rs1 and rs2, with rs1 holding either cell and every other register holding any value. About 470 000 states, 25 seconds. Properties below. |
| `v_amoswap_rs2` | violation | AMOSWAP in `translate_a_ext.cpp` also stores the old word into rs2 (`:55`, `:240`). With rs2 = x0, x0 becomes nonzero. |
| `v_amo_mapped` | violation | `translate_a_ext.cpp` reads and writes the register-file slot of registers that `translate_block` keeps in host registers (`:256`), so it computes from stale values and its rd is overwritten by the epilogue. |

The `engine` run checks these properties:

- `EngineTypeOK`: the type invariant.
- `ParseVisitsEachAddressOnce`: the parse loop terminates. No address is appended to one block twice, for every arm of the loop (BRANCH and JALR end the block, JAL is inlined, everything else falls through).

The engine has no other passing property. Its allocation ranking, cache coherence and region bookkeeping either restate the code's own comparator and decoder or are broken by the bugs the violation runs show (a cached block is not the block at its key because of `translate.cpp:365`). The dispatcher is modelled from the specification, so a property of it would check the specification, not the code.

The A codec run `amo_results` checks:

- `AtomicRefined` (the refinement, under `FairSpec`): the translator and its code implement `AtomicAmo!Spec`. The code runs to its end without faulting, and then rd holds the old memory word (sign-extended for W), or 0 for SC. The cell at rs1 holds the operation's result, and no other register or cell has changed. A dereference that faults leaves the abstract step forever enabled but never taken, so it breaks the fairness condition.
- `TypeOK`: the type invariant of the machine.

The `.cpp` violation runs use two more properties of `AmoMachine`:
- `FrameRespected` (`v_amoswap_rs2`): no other guest register changes, x0 stays 0, and no other cell changes.
- `MappedRegistersNotInFile` (`v_amo_mapped`): no emitted instruction reads or writes the register-file slot of a mapped register.

Neither is checked on the `.c` codec. There the frame is implied by `AtomicRefined`, and the slot rule holds by the shape of the helper contract.

The F codec runs check:

- `ResultCorrect`: the emitted code runs without a faulting memory access. Afterwards rd holds what the F extension specifies (NaNs compared as equal), and for FSW the addressed memory word holds rs2. This catches a scratch or mapped register overwritten before it is read.
- `FrameRespected`: every guest register other than rd (FSW: every register), float or integer, in its host register or its register-file slot, keeps its value. No memory word changes except the one FSW stores to.
- `ConversionsExact`: for each conversion except FCVT.WU.S, and for every concrete source number that the abstract source stands for, the value `Eval` computes for rd equals the RISC-V result. For float → integer this is required only where the result is representable.
  - It catches a lost sticky bit in the halving of FCVT.S.LU (`:937`).
  - It catches a conversion from rs1 without the 32-bit zero-extending move (`:806`).
  - It does not reach the 2^63 branch of FCVT.LU.S (`:869`). That needs a source at or above 2^63, which `fp_results` cannot hold: with rs2 mapped, FCVT.LU.S then breaks `FrameRespected` (`v_fcvtlus`).
  - FCVT.WU.S is left out because it breaks the property even in range, as shown by `v_fcvt_saturate`.
- `ConversionsSaturate` (the `v_fcvt_saturate` run only) is the same check without the representability condition.

Every property of a passing run is paired with a mutant in `PROJECT.json`: a plausible bug in the mapped code, such as a 2-byte step, JALR not ending the block, a jump patched one instruction too far, a missing save of rs3, an in-place operation on a source, a missing zero-extension, or a signed compare for an unsigned AMO. TLC must find the property violated under that mutant.

## Bounds

- **Program.** The program has a JAL, a load, a backward branch and a JALR, which exercises every arm of the parse loop. `MaxBlockLen = 6` exceeds the longest block (4), so the guard never cuts a real block.
- **Registers.** `N_REG = 4` with two host registers means the ranking loop visits only half of the slots. This is the case where uninitialised `mapped[]` matters.
- **Uninitialised counts.** `UninitCount = {0, 3}` distinguishes zeroed memory from garbage above the threshold. With garbage, a register the block never uses can take a host register from a used one (hazard `translate.cpp:320`). The prologue and epilogue move whatever is mapped, so this costs performance, not correctness, and no property states it.
- **Regions.** `MaxRegions = 5` covers every block the program can form.
- **A codec words.** XLEN = 4 and WLEN = 2 stand for 64 and 32 bits. The behaviour that matters happens at the same bit positions: sign extension of the low half, merging a W store, and truncating an address to the low half. The cells are 2 and 6, and 6 (0110) has the same low half as 2, so a truncated address reaches the wrong cell. The values are 1 and 14. 14 (1110) is negative both as a word and as a half, and 1 is positive in both, so signed and unsigned order differ. The upper half of 14 survives only if a W store merges. Every register holds a value or a cell, and rs1 always holds a cell, so every dereference has a target.

- **F codec values.** `fp_results` uses -0, +1 and NaN. The signs differ, so sign injection and the ordered compares split, and the NaN tests of FMIN/FMAX and the conversions take both branches. +0 and -0 together make FMIN/FMAX return the wrong zero, and a NaN makes FSUB.S rd, rs, rs wrong (hazards `translate_f_ext.c:546` and `:314`), so `fp_results` leaves FMIN.S, FMAX.S and FSUB.S out, as well as FNMSUB.S (`v_fnmsub`). With `Mnemonics <- OnlyFMINS, FVals <- SignedZeroVals` or `Mnemonics <- OnlyFSUBS`, TLC finds `ResultCorrect` violated. No run of the project keeps those configurations, so both hazards are listed without a property. Integer registers are symbolic leaves with a sign. The sign is varied only for the int-to-float conversions, the only code that branches on it. `Huge` appears only in `v_fcvtlus`, because every value at or above 2^63 takes the same branch. The result and frame of these four translators are therefore not checked by a passing run.
- **Conversion numbers.** XLEN = 8, WLEN = 4 and PREC = 3 keep the shape of 64/32/24. Integers above 2^PREC round, both halves have sign bits, and the float range ends at 2^(XLEN+1), beyond the integer ranges, so every saturation case exists. `Concrete` expands a positive leaf to every float strictly between 0 and 2^63 (a scaled 2^(XLEN-1)), to 2^63 itself, or to every float above it. It expands an integer leaf to every word with that sign bit. The passing run's float sources for float → integer are -0 and every float strictly between 0 and 2^63. Negative non-zero sources and sources at or above 2^63 appear only in the violation runs.

## Fairness

The `amo_results` run assumes weak fairness of the whole next-state relation (`FairSpec`) for the refinement. The translator and the emitted code run on one thread that waits on nothing, so as long as a step is enabled, one is taken. No fairness between actors is needed. All other properties are invariants. `amo_results` uses no symmetry, because symmetry reduction is not sound for liveness checking. The F and A codec models cover a single instruction, so its runs end when the emitted code has run (`CHECK_DEADLOCK FALSE`). Parse-loop termination is stated as a safety property: no address is decoded twice into one block, so a block over a finite program is finite.

## Not modelled

- **Host instruction bytes and the asmjit internals.** These are abstracted away.
- **Code sizes and asmjit.** These are not modelled. `finalize_block` maps asmjit's worst-case size before relocation and copies the relocated `.text` buffer, which is no larger. `init_block` re-initialises the global `CodeHolder` for every block without a reset (hazard `translate.cpp:52`). The model assumes each block starts from empty code, because asmjit is not in the repository.
- **`opt.c`.** It turns the command line into logging and mode flags. No code under `src/` reads those flags or the parse result, so no modelled behaviour depends on them. Two things about it are listed as hazards without a property:
  - `-v` undoes a `-r` or `-m` given before it (`opt.c:31`).
  - `file_index` is the file's argv position only for the `-f FILE` form and when glibc's getopt does not permute argv (`opt.c:55`). Modelling this needs glibc getopt and the caller, and neither is in the repository.
- **`common.h`.** It holds only type definitions and macros (`ALIGN_UP`, `BAD_ADDR`, …). It has no state and no operation.
- **The ELF loader, CSRs and the return stack.** Only their declarations are in `src/`. No translator in `src/` emits a return-stack push or pop, so the ring buffer has no behaviour in this code to model.
- **Floating-point rounding except in the conversions, exception flags and the AVX branches.** Arithmetic values are symbolic. Only the conversions are evaluated on concrete scaled numbers. The build has AVX off.
- **Which encoding field holds a conversion's source.** The decoder is not in `src/`. The translators read rs2 for float → integer and rs1 for integer → float, and the model follows them (hazard `translate_f_ext.c:640`). Which field the decoder fills cannot be checked here.
- **Atomicity of the AMOs against other harts.** The translator runs one guest thread. The emitted read-modify-write has no LOCK prefix, and a reservation for LR/SC is never kept. That only matters with a second thread, which the system does not run.
- **A signal delivered while the A codec borrows the stack pointer.** This is listed as a hazard (`translate_a_ext.c:82`).
