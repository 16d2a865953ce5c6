\* The entry call of a release build against the invocation contract.
CONSTANTS
    Width <- MCWidth
    SpanSize <- MCSpanSize
    MemBytes <- MCMemBytes
    MemExported = TRUE
    GasLimit <- MCGasLimit
    GasQuantum <- MCGasQuantum
    BlockCosts <- MCBlockCosts
    Bytes <- MCBytes
    Ids <- MCIds
    EnvErrors <- MCEnvErrors
    OverflowChecks = FALSE
    MaxCalls <- MCMaxCalls
SPECIFICATION Spec
PROPERTY ImplementsInvocation
CHECK_DEADLOCK FALSE
