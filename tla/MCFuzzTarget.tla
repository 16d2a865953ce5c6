---------------------------- MODULE MCFuzzTarget ----------------------------
(* The fuzz target on a 4-bit machine: i64 is -8..7, u64::MAX is 15.      *)
EXTENDS FuzzTarget

MCWidth == 4
MCSpanSize == 2
MCMemBytes == 4
MCGasLimit == 15        \* u64::MAX
MCGasQuantum == 2
MCBlockCosts == {1}
MCBytes == {0, 1}
MCIds == {1}
MCEnvErrors == {}       \* no MockQuerier method fails
MCMaxCalls == 1         \* each prepare makes one call
\* Zero, one, the largest positive i64, i64::MIN, -1 and u64::MAX - 1.
MCFuzzValues == {0, 1, 7, 8, 14, 15}
=============================================================================
