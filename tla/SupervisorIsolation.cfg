\* A source that comes before another raises what nothing catches.
SPECIFICATION FairSpec
CONSTANTS
    ebay = ebay
    reddit = reddit
    leboncoin = leboncoin
    Order <- AllSources
    Outcomes <- OneRaises
    Intervals = {1, 2}
    Backoff <- FourSteps
    BackoffJitter = {0}
    PostInterval = 3
    EmptyCycles = 2
    MinPrior = 1
    MaxElapsed = 2
    MaxKills = 0
PROPERTIES
    OthersAreTried
