----------------------------- MODULE MCVMLogic ------------------------------
(* A 5-bit u64 (0..31): totals of up to 60 overflow it.  The limits: none, *)
(* a middle one, the largest below u64::MAX, and u64::MAX itself.          *)
EXTENDS VMLogic

MCWidth == 5
MCLimits == {0, 12, 30, 31}
MCAmounts == {0, 1, 2, 15}
MCMaxConsumed == 60
=============================================================================
