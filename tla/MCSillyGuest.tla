---------------------------- MODULE MCSillyGuest ----------------------------
(* The silly guest on a 4-bit machine with a 2-byte span and 4 bytes of   *)
(* memory, enough for its two payloads and the answer buffer.             *)
EXTENDS SillyGuest

MCWidth == 4
MCSpanSize == 2
MCMemBytes == 4
MCGasQuantum == 2
MCBytes == {0, 1}
MCIds == {1, 2}
MCMaxCalls == 4         \* execute makes four imports
\* Five points: execute's five unit blocks fit exactly, a 2-point block
\* can exhaust them.
MCGasLimit == 5
MCBlockCosts == {1, 2}
MCEnvErrors == {"UnavailableData"}
\* Scenario 6: execute's five unit blocks use the budget exactly; answers
\* of up to three bytes of three values.
MCScenarioGasLimit == 5
MCScenarioBytes == {0, 1, 2}
MCScenarioWidth == 5     \* memory plus span stays below i64::MAX
MCScenarioSpanSize == 3
MCScenarioMemBytes == 5  \* the second payload's span check reaches 2 + 3
MCScenarioBlockCosts == {1}
MCScenarioEnvErrors == {}
=============================================================================
