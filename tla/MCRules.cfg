SPECIFICATION Inputs
CONSTANTS
    BasketShare = 8
    BuybackShare = 1
    OperationsShare = 1
    Whole = 10
    BasketSize = 3
    Members = 2
    Threshold = 2
    Excluded = {3}
    MaxAccounts = 3
    MaxOwners = 3
    MaxAmount = 4
    MaxQuantity = 5
    MaxFunding = 15
    MaxCost = 2
    MaxRows = 4
    MaxMints = 3
    MaxPools = 2
    MaxValue = 2
CHECK_DEADLOCK FALSE
INVARIANTS AllocationIsClosest BudgetIsExact SelectionIsFair
