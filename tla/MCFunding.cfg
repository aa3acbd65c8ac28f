SPECIFICATION Spec
CONSTANTS
    e1 = e1
    e2 = e2
    a1 = a1
    BasketShare = 2
    BuybackShare = 1
    OperationsShare = 1
    Whole = 4
    BasketSize = 1
    Receipts = {1, 2}
    Amount <- FeeAmounts
    Slot <- FeeSlots
    Rounds <- TwoRounds
    Assets <- OneAsset
    Owners = {1}
    Snapshots <- OneHolder
    Fundings = {5, 9}
    CostForecast = 3
    Outputs = {1}
    Charges = {0, 1}
    MinReserve = 0
    MaxDay = 12
    MaxRecipients = 1
SYMMETRY Symmetry
INVARIANTS RevenueIsUnassigned ReceiptsConserved AllowanceOutlivesIntents DepositsAreAccounted
PROPERTIES OldestReceiptsFirst
