SPECIFICATION Spec
CONSTANTS
    i1 = i1
    i2 = i2
    Sigs = {s1, s2}
    Workers = {w1, w2}
    Intents <- MCIntents
    Rents = {1}
    Rank0 <- MCRank0
    Charges = {1, 2}
    FeeCap = 1
    Allowance = 4
    Floor = 1
    MaxExpenses = 1
    Manual = Manual
    NoWorker = NoWorker
    NoIntent = NoIntent
    NoSig = NoSig
SYMMETRY Symmetry
CONSTRAINT PausedAtRest
INVARIANTS AtMostOnePayment DebitMatchesChain InflightFunded SignatureAttributedOnce
PROPERTIES ImplementsLane ReviewEndsByOutcome StaleWritesNothing
