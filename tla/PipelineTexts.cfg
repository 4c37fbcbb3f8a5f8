\* Ambiguous texts with the LLM enabled, texts that a seller by the module and one of a lot
\* share, a currency without a rate, an ad that cannot be alerted on.
SPECIFICATION FairSpec
CONSTANTS
    NoRow = NoRow
    a1 = a1
    a2 = a2
    module32 = module32
    lot128 = lot128
    unit128 = unit128
    vague = vague
    Procs = {loop}
    Ads = {a1, a2, a3, a4}
    AdInfo <- Sellers
    Texts = {vague, unit128, lot128}
    TextsOf <- SharedTexts
    Prices = {240, 60}
    Wording <- MCWording
    LlmSpec <- MCLlmSpec
    BatchSize = 1
    Index <- NoIndex
    Observation = TRUE
    LlmEnabled = TRUE
    MinDropPct = 10
    DailyCap = 2
    DayTicks = 1
    MuteTicks = 0
    MaxClock = 0
    MaxFetches = 2
    MaxBatch = 2
    MaxFaults = 1
    HardCeiling = 200
    PlausibilityFloor = 50
    MinTotalGb = 8
    MinDiscountPct = 0
    ShippingEstimate = 12
    RatePct <- Rates
    GateTicks = 1
    BidIncrement = 5
    FpBucket = 10
    PerGbScale = 100
    MinConfidence = 800
    AcceptGb = {8, 16, 32, 64}
    RejectGb = {4}
    AcceptSpeeds = {2133, 2400}
    a3 = a3
    a4 = a4
    LotOf <- MCLotOf
PROPERTIES
    LlmVerdictKept
    BatchIsHandled
    HonestAlertsAreBargains
CHECK_DEADLOCK FALSE
