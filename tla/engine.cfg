\* The guest loop of MC_Engine; mmap may fail on any finalize_block.
CONSTANTS
  r8 = r8
  r9 = r9
  NoGp = NoGp
  Program <- MC_Program
  N_REG = 4
  x86_64_registers <- MC_HostRegs
  NoReg <- NoGp
  UninitCount = {0, 3}
  MaxRegions = 5
  MmapCanFail = TRUE
  MaxBlockLen = 6
  EntryAddr = 0
SPECIFICATION Spec
INVARIANTS
  EngineTypeOK
  ParseVisitsEachAddressOnce
\* The process dies on the segfault that follows a failed mmap: a final
\* state.
CHECK_DEADLOCK FALSE
