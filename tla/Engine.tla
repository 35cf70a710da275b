------------------------------- MODULE Engine -------------------------------
(***************************************************************************)
(* The dispatcher loop around translate_block: look the guest pc up in the *)
(* code cache, translate and insert on a miss, run the cached block on a   *)
(* hit.  The main loop and the cache are not in the sources; this module   *)
(* follows the dispatcher contract of the specification                    *)
(* (lookup_or_translate, no eviction, translation failure halts).          *)
(* A block runs to its single exit: a conditional branch leaves to its     *)
(* target or its fall-through, JALR to any address.                        *)
(***************************************************************************)
EXTENDS TranslateBlock

CONSTANT EntryAddr   \* the entry address the loader hands over

VARIABLES guest_pc,  \* the guest program counter between blocks
          cache      \* code cache: guest block address -> region

vars == <<tbVars, guest_pc, cache>>

ASSUME EntryAddr \in Addr

(* The exits of the block held in a region: its last guest instruction.   *)
Exits(region) ==
  LET last == region[Len(region)] IN
  IF OpType(last.mnem) = "BRANCH"
    THEN {last.addr + 4, last.addr + last.imm} \cap Addr
    ELSE Addr

(* lookup_or_translate on a miss: call translate_block(guest_pc).         *)
Dispatch ==
  /\ guest_pc \notin DOMAIN cache
  /\ Start(guest_pc)
  /\ UNCHANGED <<guest_pc, cache>>

(* translate_block returned a location: record it for guest_pc.           *)
Insert ==
  /\ tb_pc = "done"
  /\ cache' = cache @@ (guest_pc :> result)
  /\ tb_pc' = "idle"
  /\ result' = 0
  /\ UNCHANGED <<risc_addr, block_cache, reg_count, indices, mapped,
                 register_map, code, mem, guest_pc>>

(* A hit: call the cached block; it returns with the next guest pc.       *)
Execute ==
  /\ tb_pc = "idle"
  /\ guest_pc \in DOMAIN cache
  /\ \E next \in Exits(mem[cache[guest_pc]]) : guest_pc' = next
  /\ UNCHANGED <<tbVars, cache>>

Translate == TBStep /\ UNCHANGED <<guest_pc, cache>>

Init ==
  /\ TBInit
  /\ guest_pc = EntryAddr
  /\ cache = <<>>

Next == Dispatch \/ Translate \/ Insert \/ Execute

Spec == Init /\ [][Next]_vars

-----------------------------------------------------------------------------
(* Type invariant: translate_block's locals, the guest pc and the cache,  *)
(* whose entries name regions that mmap handed out.                       *)
EngineTypeOK ==
  /\ TypeOK
  /\ guest_pc \in Addr
  /\ DOMAIN cache \subseteq Addr
  /\ \A a \in DOMAIN cache : cache[a] \in 1 .. MaxRegions

=============================================================================
