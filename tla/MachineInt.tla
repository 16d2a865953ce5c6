----------------------------- MODULE MachineInt -----------------------------
(***************************************************************************)
(* Fixed-width Rust integers as the engine uses them: i64 for guest        *)
(* pointers, lengths and the span size, u64 for gas points, usize for      *)
(* memory offsets.  On the 64-bit targets the engine is built for, all     *)
(* three are Width bits wide; the model checks them with a small Width so  *)
(* that wrap-around and sign reinterpretation really happen.               *)
(***************************************************************************)
EXTENDS Integers

CONSTANT Width   \* bit width of i64, u64 and usize (64 in the real build)

ASSUME WidthAssumption == Width \in Nat /\ Width >= 2

\* 2^Width, the number of distinct values of a machine word.
WordSize == 2 ^ Width

\* The half of the word the signed types reach.
HalfWord == WordSize \div 2

\* What the proofs use of 2^Width (the provers do not reason about powers).
ASSUME WordAssumption ==
    /\ WordSize \in Nat
    /\ HalfWord \in Nat \ {0}
    /\ WordSize = 2 * HalfWord

\* Values of i64 and of u64 / usize.
I64 == -HalfWord .. HalfWord - 1
U64 == 0 .. WordSize - 1

\* Two's-complement wrap of a mathematical integer into i64 (what `+` on
\* i64 yields in a release build, where overflow checks are off).
WrapI64(x) == ((x + HalfWord) % WordSize) - HalfWord

\* `x as usize` for an i64 x: the same bits read as unsigned.
AsUsize(x) == x % WordSize

\* TRUE when the mathematical sum of two i64 values does not fit an i64:
\* a debug build panics there, a release build wraps.
AddOverflowsI64(x, y) == x + y \notin I64

\* u64::saturating_sub and u64::saturating_add.
SaturatingSub(x, y) == IF x >= y THEN x - y ELSE 0
SaturatingAdd(x, y) == IF x + y <= WordSize - 1 THEN x + y ELSE WordSize - 1
=============================================================================
