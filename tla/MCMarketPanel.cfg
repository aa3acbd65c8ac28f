SPECIFICATION FairSpec
CONSTANTS
    Queries = {blank, typed}
    Blank = blank
    blank = blank
    typed = typed
    Pages <- MCPages
    Screens <- MCScreens
    MaxCached = 1
    MaxFlight = 2
    MaxObservation = 2
INVARIANTS ListsAreWhole BusyIsAwaited
PROPERTIES ListIsRetained OlderIsAnnounced
