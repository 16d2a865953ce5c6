\* An instance that exports no memory, release build.
CONSTANTS
    Width <- MCWidth
    SpanSize <- MCSpanSize
    MemBytes <- MCMemBytes
    MemExported = FALSE
    GasLimit <- MCGasLimit
    GasQuantum <- MCGasQuantum
    BlockCosts <- MCBlockCosts
    Bytes <- MCBytes
    Ids <- MCIds
    EnvErrors <- MCEnvErrors
    OverflowChecks = FALSE
    MaxCalls <- MCMaxCalls
SPECIFICATION Spec
PROPERTY NoMemoryIsBadMemorySection
\* The invocation ends when the guest returns or traps.
CHECK_DEADLOCK FALSE
