SPECIFICATION FairSpec
CONSTANTS
    w1 = w1
    fee = fee
    buy = buy
    bill = bill
    ata = ata
    aux = aux
    t1 = t1
    t2 = t2
    t3 = t3
    t4 = t4
    Workers = {w1}
    Arrivals = {fee}
    Own = {buy}
    Expenses = {bill}
    Transfers = {t1, t2, t3, t4}
    In <- TheIn
    To <- TheTo
    TokenAccounts = {ata, aux}
    Canonical = ata
    Amount <- TheAmount
    Debit <- TheDebit
    MaxDebit <- TheMaxDebit
    FailFee <- TheFailFee
    Opening <- TheOpening
    HistoryBound = 3
CHECK_DEADLOCK FALSE
INVARIANTS NothingSkipped BooksAddUp
PROPERTIES IncidentsAreReal EveryArrivalIsBooked
