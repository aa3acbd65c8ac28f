SPECIFICATION Spec
CONSTANTS
    e1 = e1
    e2 = e2
    a1 = a1
    BasketShare = 2
    BuybackShare = 1
    OperationsShare = 1
    Whole = 4
    BasketSize = 1
    Receipts = {1, 2}
    Amount <- ClaimAmounts
    Slot <- ClaimSlots
    Rounds <- TwoRounds
    Assets <- OneAsset
    Owners = {1, 2}
    Snapshots <- TwoSnapshots
    Fundings = {7}
    CostForecast = 1
    Outputs = {1, 2, 4}
    Charges = {1}
    MinReserve = 0
    MaxDay = 14
    MaxRecipients = 2
SYMMETRY Symmetry
INVARIANTS ClaimsAreBacked
PROPERTIES KeepsPromise
