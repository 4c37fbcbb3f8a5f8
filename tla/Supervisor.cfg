\* An unreliable source and a reliable one, one kill.
SPECIFICATION FairSpec
CONSTANTS
    ebay = ebay
    reddit = reddit
    leboncoin = leboncoin
    Order <- TwoSources
    Outcomes <- OneUnreliable
    Intervals = {1, 2}
    Backoff <- FourSteps
    BackoffJitter = {0}
    PostInterval = 3
    EmptyCycles = 2
    MinPrior = 1
    MaxElapsed = 2
    MaxKills = 1
INVARIANTS
    TypeOK
    EveryRunHasARow
    BreakerHasItsRow
PROPERTIES
    EverySourceIsTried
    SilenceIsReported
