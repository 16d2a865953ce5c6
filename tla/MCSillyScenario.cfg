\* Scenario 6 of the specification: a recording Env that never fails.
CONSTANTS
    Width <- MCScenarioWidth
    SpanSize <- MCScenarioSpanSize
    MemBytes <- MCScenarioMemBytes
    MemExported = TRUE
    GasQuantum <- MCGasQuantum
    Bytes <- MCScenarioBytes
    Ids <- MCIds
    MaxCalls <- MCMaxCalls
    OverflowChecks = FALSE
    GasLimit <- MCScenarioGasLimit
    BlockCosts <- MCScenarioBlockCosts
    EnvErrors <- MCScenarioEnvErrors
SPECIFICATION SSpec
PROPERTY SillyScenario6
CHECK_DEADLOCK FALSE
