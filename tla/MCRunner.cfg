\* Any module, with or without a start function or entry, release build.
CONSTANTS
    Width <- MCWidth
    SpanSize <- MCSpanSize
    MemBytes <- MCMemBytes
    MemExported = TRUE
    GasLimit <- MCGasLimit
    GasQuantum <- MCGasQuantum
    BlockCosts <- MCBlockCosts
    Bytes <- MCBytes
    Ids <- MCIds
    EnvErrors <- MCEnvErrors
    OverflowChecks = FALSE
    MaxCalls <- MCMaxCalls
SPECIFICATION RSpec
INVARIANT RTypeOK
INVARIANT ReportedGasIsCharged
\* run returns once.
CHECK_DEADLOCK FALSE
