\* execute in a release build (the oracle script is built for wasm32 in
\* release mode, where += wraps), against the average the unit test expects.
CONSTANTS
    Width <- MCWidth
    Stamps <- MCStamps
    MaxReports <- MCMaxReports
    OverflowChecks = FALSE
SPECIFICATION PSpec
INVARIANT AverageWithinRange
