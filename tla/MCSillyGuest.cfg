\* Both entries, an Env that may fail, a budget that may run out.
CONSTANTS
    Width <- MCWidth
    SpanSize <- MCSpanSize
    MemBytes <- MCMemBytes
    MemExported = TRUE
    GasQuantum <- MCGasQuantum
    Bytes <- MCBytes
    Ids <- MCIds
    MaxCalls <- MCMaxCalls
    OverflowChecks = FALSE
    GasLimit <- MCGasLimit
    BlockCosts <- MCBlockCosts
    EnvErrors <- MCEnvErrors
SPECIFICATION SSpec
INVARIANT SillyAsksInOrder
INVARIANT SillyOkMeansComplete
\* run returns once.
CHECK_DEADLOCK FALSE
