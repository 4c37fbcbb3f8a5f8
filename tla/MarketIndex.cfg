\* One ad is enough to see what the index is made of.
SPECIFICATION Spec
CONSTANTS
    NoRow = NoRow
    a1 = a1
    a2 = a2
    Ads = {a1}
    Listings <- MCListings
    MinDropPct = 10
    Specs <- MCSpecs
    Buckets = {2, 4}
    SampleBucket = 2
    MinSample = 2
    Window = 0
    MaxRefresh = 1
    HardCeiling = 20
    PlausibilityFloor = 5
    MinTotalGb = 2
    MinDiscountPct = 0
    ShippingEstimate = 4
    RatePct <- Rates
    GateTicks = 2
    BidIncrement = 3
    FpBucket = 10
    PerGbScale = 1
INVARIANTS
    IndexIsOfEurPerGb
CHECK_DEADLOCK FALSE
