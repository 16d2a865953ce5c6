\* The entry call of a release build (overflow wraps), memory exported.
CONSTANTS
    Width <- MCWidth
    SpanSize <- MCSpanSize
    MemBytes <- MCMemBytes
    MemExported = TRUE
    GasLimit <- MCGasLimit
    GasQuantum <- MCGasQuantum
    BlockCosts <- MCBlockCosts
    Bytes <- MCBytes
    Ids <- MCIds
    EnvErrors <- MCEnvErrors
    OverflowChecks = FALSE
    MaxCalls <- MCMaxCalls
SPECIFICATION Spec
INVARIANT TypeOK
INVARIANT GasConserved
INVARIANT PanicOnlyOnNegativeArgs
PROPERTY OutOfRangeIsMemoryOutOfBound
PROPERTY EnvReceivesGuestSpan
\* The invocation ends when the guest returns or traps.
CHECK_DEADLOCK FALSE
