SPECIFICATION Spec
CONSTANTS
    i1 = i1
    i2 = i2
    Sigs = {s1}
    Workers = {w1}
    Intents <- MCIntents
    Rents = {0}
    Rank0 <- MCRank0
    Charges = {1}
    FeeCap = 1
    Allowance = 2
    Floor = 0
    MaxExpenses = 0
    Manual = Manual
    NoWorker = NoWorker
    NoIntent = NoIntent
    NoSig = NoSig
SYMMETRY Symmetry
PROPERTIES NoNewAttemptWhilePaused
