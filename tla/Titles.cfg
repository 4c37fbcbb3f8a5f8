\* Fourteen lots in any five phrases that are true of them.
SPECIFICATION Spec
CONSTANTS
    Lots <- MCLots
    Prices = {50, 63, 65, 130, 257}
    Currency = "EUR"
    MaxPhrases = 5
    LlmEnabled = TRUE
    MinConfidence = 800
    AcceptGb = {8, 16, 32, 64}
    RejectGb = {4}
    AcceptSpeeds = {2133, 2400, 2666, 2933, 3200}
    HardCeiling = 20000
    PlausibilityFloor = 5000
    MinTotalGb = 8
    MinDiscountPct = 0
    ShippingEstimate = 12
    RatePct <- Rates
    GateTicks = 1
    BidIncrement = 5
    FpBucket = 10
    PerGbScale = 10000
INVARIANTS
    BoundAdmissible
    NeverOverread
    HardRejectIsReal
    NoDealRuledOut
