SPECIFICATION FairSpec
CONSTANTS
    small = small
    medium = medium
    large = large
    Requests = {r1, r2}
    Images = {small, medium, large}
    Size <- MCSize
    Catalogues <- MCCatalogues
    MaxBytes = 3
    MaxEntries = 2
    MaxConcurrent = 1
INVARIANTS CacheIsAccounted
PROPERTIES ServedWhileListed RequestsAreAnswered
