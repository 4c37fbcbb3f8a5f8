\* An auction first seen before its window opens.
SPECIFICATION Spec
CONSTANTS
    NoRow = NoRow
    a1 = a1
    a2 = a2
    module32 = module32
    lot128 = lot128
    unit128 = unit128
    vague = vague
    Procs = {loop}
    Ads = {a1}
    AdInfo <- OneAuction
    Texts = {module32}
    TextsOf <- PlainTexts
    Prices = {30}
    Wording <- MCWording
    LlmSpec <- MCLlmSpec
    BatchSize = 1
    Index <- NoIndex
    Observation = TRUE
    LlmEnabled = FALSE
    MinDropPct = 10
    DailyCap = 2
    DayTicks = 1
    MuteTicks = 1
    MaxClock = 3
    MaxFetches = 3
    MaxBatch = 1
    MaxFaults = 0
    HardCeiling = 200
    PlausibilityFloor = 50
    MinTotalGb = 8
    MinDiscountPct = 0
    ShippingEstimate = 12
    RatePct <- Rates
    GateTicks = 1
    BidIncrement = 5
    FpBucket = 10
    PerGbScale = 100
    MinConfidence = 800
    AcceptGb = {8, 16, 32, 64}
    RejectGb = {4}
    AcceptSpeeds = {2133, 2400}
PROPERTIES
    WindowEvaluated
CHECK_DEADLOCK FALSE
