\* The fuzz target's crash oracle on a debug build.
CONSTANTS
    Width <- MCWidth
    SpanSize <- MCSpanSize
    MemBytes <- MCMemBytes
    MemExported = TRUE
    GasLimit <- MCGasLimit
    GasQuantum <- MCGasQuantum
    BlockCosts <- MCBlockCosts
    Bytes <- MCBytes
    Ids <- MCIds
    EnvErrors <- MCEnvErrors
    MaxCalls <- MCMaxCalls
    FuzzValues <- MCFuzzValues
    EnvData <- MockData
\* cargo fuzz builds with debug assertions, so overflow checks are on.
    OverflowChecks = TRUE
SPECIFICATION FSpec
INVARIANT FuzzNeverCrashes
CHECK_DEADLOCK FALSE
