SPECIFICATION Spec
CONSTANTS
    x1 = x1
    x2 = x2
    Days = {1, 2}
    Policies <- TwoPolicies
    Expenses = {x1, x2}
    Invoice <- TwoInvoices
    Allowance <- TwoAllowances
    Shares = {2, 5}
    MaxAllocated = 9
    LegacyAmount = 1
    Fees = {0, 1}
INVARIANTS TypeOK LegacyIsKept PayoutIsFunded UnresolvedIsLast
PROPERTIES TakesExactlySurplus MarginIsKept
