\* A release build: can some i64 argument make an import closure panic?
CONSTANTS
    Width <- MCWidth
    SpanSize <- MCSpanSize
    MemBytes <- MCMemBytes
    MemExported = TRUE
    GasLimit <- MCGasLimit
    GasQuantum <- MCGasQuantum
    BlockCosts <- MCBlockCosts
    Bytes <- MCBytes
    Ids <- MCIds
    EnvErrors <- MCEnvErrors
    OverflowChecks = FALSE
    MaxCalls <- MCMaxCalls
SPECIFICATION Spec
INVARIANT HostNeverPanics
\* The invocation ends when the guest returns or traps.
CHECK_DEADLOCK FALSE
