-------------------------------- MODULE Words --------------------------------
(***************************************************************************)
(* Integer words of the guest (RV64) and the host (x86-64) as the A codec *)
(* models use them.  A register is XLEN bits and the "32-bit" half is the *)
(* low WLEN bits, scaled down from 64 and 32 so that TLC can enumerate    *)
(* them; sign extension, truncation and the merge of a 32-bit store into  *)
(* a 64-bit cell keep their meaning at the smaller widths.                *)
(***************************************************************************)
EXTENDS Integers, Bitwise

CONSTANTS XLEN, WLEN   \* bits of a register and of its 32-bit half

Word == 0 .. 2^XLEN - 1
Bits(w) == IF w = "W" THEN WLEN ELSE XLEN
Trunc(v, w) == v % 2^Bits(w)
Lo(v) == Trunc(v, "W")
SextW(v) == IF Lo(v) >= 2^(WLEN - 1) THEN Lo(v) + 2^XLEN - 2^WLEN ELSE Lo(v)
Signed(v, n) == IF v >= 2^(n - 1) THEN v - 2^n ELSE v
(* A W-wide store into a wider cell replaces its low half only.           *)
Merge(old, v, w) == IF w = "W" THEN old - Lo(old) + v ELSE v

(* The operation of an AMO on n-bit operands: memory value a, rs2 value b. *)
Alu(op, a, b, n) ==
  CASE op = "SWAP" -> b
    [] op = "ADD"  -> (a + b) % 2^n
    [] op = "XOR"  -> a ^^ b
    [] op = "AND"  -> a & b
    [] op = "OR"   -> a | b
    [] op = "MIN"  -> IF Signed(a, n) <= Signed(b, n) THEN a ELSE b
    [] op = "MAX"  -> IF Signed(a, n) >= Signed(b, n) THEN a ELSE b
    [] op = "MINU" -> IF a <= b THEN a ELSE b
    [] op = "MAXU" -> IF a >= b THEN a ELSE b

=============================================================================
