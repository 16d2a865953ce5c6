----------------------------- MODULE MCHostCall -----------------------------
(* A 4-bit machine word: i64 is -8..7, usize 0..15, so a pointer near the  *)
(* top of i64 overflows when the span is added and a negative pointer      *)
(* reads as a huge usize.  A 4-byte memory, a 2-byte span, a 5-point       *)
(* budget that a few blocks and do_gas calls exhaust.                      *)
EXTENDS HostCall

MCWidth == 4
MCSpanSize == 2
MCMemBytes == 4
MCGasLimit == 5
MCGasQuantum == 2
MCBlockCosts == {1, 2}
MCBytes == {0, 1}
MCIds == {1}
MCEnvErrors == {"UnavailableData"}
MCMaxCalls == 2
=============================================================================
