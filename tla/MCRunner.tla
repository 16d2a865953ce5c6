------------------------------ MODULE MCRunner ------------------------------
(* The runner on the instance of MCHostCall, with one byte value.         *)
EXTENDS Runner

MCWidth == 4
MCSpanSize == 2
MCMemBytes == 4
MCGasLimit == 5
MCGasQuantum == 2
MCBlockCosts == {1, 2}
MCBytes == {0}  \* memory contents do not matter to the runner's properties
MCIds == {1}
MCEnvErrors == {"UnavailableData"}
MCMaxCalls == 2
=============================================================================
