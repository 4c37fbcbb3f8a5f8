\* Two ads, two buckets: the index and the verdicts given with it.
SPECIFICATION Spec
CONSTANTS
    NoRow = NoRow
    a1 = a1
    a2 = a2
    Ads = {a1, a2}
    Listings <- MCListings
    MinDropPct = 10
    Specs <- MCSpecs
    Buckets = {2, 4}
    SampleBucket = 2
    MinSample = 2
    Window = 0
    MaxRefresh = 1
    HardCeiling = 20
    PlausibilityFloor = 5
    MinTotalGb = 2
    MinDiscountPct = 0
    ShippingEstimate = 4
    RatePct <- Rates
    GateTicks = 2
    BidIncrement = 3
    FpBucket = 10
    PerGbScale = 1
SYMMETRY AdSymmetry
INVARIANTS
    DealUnderCeiling
    UnitAndLotAgree
    MaxBidIsUseful
PROPERTIES
    QuartilesOrdered
    CheaperStaysADeal
CHECK_DEADLOCK FALSE
