\* execute in a build with overflow checks, for every list of reports.
CONSTANTS
    Width <- MCWidth
    Stamps <- MCStamps
    MaxReports <- MCMaxReports
    OverflowChecks = TRUE
SPECIFICATION PSpec
INVARIANT AverageMatchesReference
INVARIANT ExecutePanicsOnlyWhenUndefined
