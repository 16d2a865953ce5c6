\* consume_gas for limits up to u64::MAX.
CONSTANTS
    Width <- MCWidth
    Limits <- MCLimits
    Amounts <- MCAmounts
    MaxConsumed <- MCMaxConsumed
SPECIFICATION LSpec
INVARIANT LTypeOK
INVARIANT OverrunReported
\* Callers stop once MaxConsumed is reached.
CHECK_DEADLOCK FALSE
