\* The fuzz target against MockQuerier: which fuzz inputs crash run.
CONSTANTS
    Width <- MCWidth
    SpanSize <- MCSpanSize
    MemBytes <- MCMemBytes
    MemExported = TRUE
    GasLimit <- MCGasLimit
    GasQuantum <- MCGasQuantum
    BlockCosts <- MCBlockCosts
    Bytes <- MCBytes
    Ids <- MCIds
    EnvErrors <- MCEnvErrors
    MaxCalls <- MCMaxCalls
    FuzzValues <- MCFuzzValues
    EnvData <- MockData
\* cargo fuzz builds with debug assertions, so overflow checks are on.
    OverflowChecks = TRUE
SPECIFICATION FSpec
INVARIANT FuzzCrashOnlyOnBadPointer
\* run returns once.
CHECK_DEADLOCK FALSE
