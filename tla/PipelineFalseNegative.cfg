\* A price drop after the prefilter ruled the text out.
SPECIFICATION Spec
CONSTANTS
    NoRow = NoRow
    a1 = a1
    a2 = a2
    module32 = module32
    lot128 = lot128
    unit128 = unit128
    vague = vague
    Procs = {loop}
    Ads = {a1}
    AdInfo <- TwoPlain
    Texts = {vague}
    TextsOf <- PlainTexts
    Prices = {70, 40}
    Wording <- MCWording
    LlmSpec <- MCLlmSpec
    BatchSize = 1
    Index <- NoIndex
    Observation = TRUE
    LlmEnabled = TRUE
    MinDropPct = 10
    DailyCap = 2
    DayTicks = 1
    MuteTicks = 1
    MaxClock = 1
    MaxFetches = 3
    MaxBatch = 1
    MaxFaults = 1
    HardCeiling = 200
    PlausibilityFloor = 50
    MinTotalGb = 8
    MinDiscountPct = 0
    ShippingEstimate = 12
    RatePct <- Rates
    GateTicks = 1
    BidIncrement = 5
    FpBucket = 10
    PerGbScale = 100
    MinConfidence = 800
    AcceptGb = {8, 16, 32, 64}
    RejectGb = {4}
    AcceptSpeeds = {2133, 2400}
INVARIANTS
    NoFalseNegative
CHECK_DEADLOCK FALSE
