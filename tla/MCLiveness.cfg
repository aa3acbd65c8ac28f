SPECIFICATION LiveSpec
CONSTANTS
    i1 = i1
    i2 = i2
    Workers = {w1, w2}
    Intents <- TwoIntents
    Rank0 <- TwoRanks
    Sigs = {s1}
    Rents = {0}
    Charges = {1}
    FeeCap = 1
    Allowance = 2
    Floor = 0
    MaxExpenses = 0
    MaxDisturbances = 1
    Manual = Manual
    NoWorker = NoWorker
    NoIntent = NoIntent
    NoSig = NoSig
PROPERTIES NoJobStarves OutcomeIsRecorded
