SPECIFICATION FairSpec
CONSTANTS
    viewer = viewer
    buyer = buyer
    planner = planner
    Callers = {viewer, buyer, planner}
    UseOf <- MCUseOf
    b1 = b1
    Budgets = {b1, b2}
    BudgetsOf <- MCBudgetsOf
    CacheTime = 2
    MaxBackoff = 3
    MaxDataAge = 1
    MaxTime = 2
    MaxVersion = 1
    Nothing = Nothing
INVARIANTS CommitIsCurrent SwapsRouteTheirOwnAmount
PROPERTIES ReadyIsFresh EveryReadIsAnswered
