-------------------------------- MODULE Market --------------------------------
(***************************************************************************)
(* The market index (decide/market.py) and the verdicts given with it      *)
(* (decide/thresholds.py): offers come, change price and age, the index is *)
(* recomputed and persisted, and a verdict reads the last one persisted.   *)
(*                                                                         *)
(* An offer is a stored listing with the spec cached for its text.         *)
(***************************************************************************)
EXTENDS Deals, FiniteSets

CONSTANTS
    NoRow,          \* no offer, no row
    Ads,            \* (source, external_id)
    Listings,       \* what an ad may be seen as
    MinDropPct,     \* spam.re_alert_min_drop_pct
    Specs,          \* what its text may be worth
    Buckets,        \* market_index.capacity_buckets
    SampleBucket,   \* the bucket whose sample decides the observation mode
    MinSample,      \* market_index.min_sample_size
    Window,         \* market_index.window_days
    MaxRefresh      \* bound: recomputations of the index

VARIABLES
    offers,     \* tables listings and spec_cache: ad -> NoRow or an offer
    stats,      \* table market_stats: bucket -> its last row, or NoRow
    refreshes   \* clock of market_stats.computed_at

marketVars == << offers, stats, refreshes >>

ASSUME MarketAssumption ==
    /\ Buckets \subseteq Nat /\ SampleBucket \in Buckets
    /\ IsFiniteSet(Ads) /\ IsFiniteSet(Buckets)
    /\ MinSample \in Nat /\ Window \in Nat /\ MaxRefresh \in Nat
    /\ Listings \subseteq RawListing /\ Specs \subseteq MemorySpec
    /\ NoRow \notin [listing : RawListing, spec : MemorySpec, age : Nat]
    /\ MinDropPct \in Nat \ {0}

-----------------------------------------------------------------------------
(* The k-th smallest of the values of S, from 0.                           *)
OrderStatistic(S, val, k) ==
    CHOOSE v \in {val[a] : a \in S} :
        /\ Cardinality({a \in S : val[a] < v}) <= k
        /\ k < Cardinality({a \in S : val[a] <= v})

(* Mutant: the interpolation starts from the upper neighbour.              *)
PercentileFromAbove(S, val, quarters) ==
    LET n == Cardinality(S)
        rank == quarters * (n - 1)
        hi == IF rank \div 4 + 1 > n - 1 THEN n - 1 ELSE rank \div 4 + 1
        high == OrderStatistic(S, val, hi)
    IN  HalfEven(4 * high + (OrderStatistic(S, val, rank \div 4) - high) * (rank % 4), 4)

(* Linear interpolation at a quarter of the range, then quantized.         *)
Percentile(S, val, quarters) ==
    LET n == Cardinality(S)
        rank == quarters * (n - 1)
        lo == rank \div 4
        hi == IF lo + 1 > n - 1 THEN n - 1 ELSE lo + 1
        low == OrderStatistic(S, val, lo)
    IN  HalfEven(4 * low + (OrderStatistic(S, val, hi) - low) * (rank % 4), 4)

(* The qualified offers of a bucket posted within the window.              *)
SampleOf(b) ==
    {a \in Ads : /\ offers[a] # NoRow
                 /\ offers[a].spec.reject = "none"
                 /\ offers[a].spec.total > 0
                 /\ offers[a].spec.cap = b
                 /\ offers[a].age <= Window}

(* A sample's price per gigabyte takes the columns as they are.            *)
SamplePerGb ==
    [a \in Ads |->
        IF offers[a] = NoRow \/ offers[a].spec.total <= 0 THEN 0
        ELSE EurPerGb(TotalCost(offers[a].listing.price, offers[a].listing.shipping),
                      offers[a].spec.total)]

StatsRow(b) ==
    [ at |-> refreshes + 1, n |-> Cardinality(SampleOf(b)),
      p25 |-> Percentile(SampleOf(b), SamplePerGb, 1),
      p50 |-> Percentile(SampleOf(b), SamplePerGb, 2),
      p75 |-> Percentile(SampleOf(b), SamplePerGb, 3) ]

Persisted == {b \in Buckets : stats[b] # NoRow}

(* The rows of the last computed_at; a bucket without a sample has none.   *)
LatestIndex ==
    LET last == {b \in Persisted : \A c \in Persisted : stats[c].at <= stats[b].at}
    IN  [b \in last |-> stats[b].p50]

(* The last row of the bucket, however old.                                *)
LatestSampleSize(b) == IF stats[b] = NoRow THEN 0 ELSE stats[b].n

(* in_observation_mode, once the configured date is past.                  *)
InObservationMode == LatestSampleSize(SampleBucket) < MinSample

VerdictOn(a) ==
    EvaluateDetailed(offers[a].listing, offers[a].spec, LatestIndex, InObservationMode)

-----------------------------------------------------------------------------
Init ==
    /\ offers = [a \in Ads |-> NoRow]
    /\ stats = [b \in Buckets |-> NoRow]
    /\ refreshes = 0

Observe(a) ==
    /\ offers[a] = NoRow
    /\ \E l \in Listings, s \in Specs :
           offers' = [offers EXCEPT ![a] = [listing |-> l, spec |-> s, age |-> 0]]
    /\ UNCHANGED << stats, refreshes >>

(* The ad seen again, cheaper by the threshold: the columns the upsert     *)
(* updates are the price, the shipping, the bid and the text.  Anything    *)
(* else it is seen as leaves the row alone.                                *)
Reprice(a) ==
    /\ offers[a] # NoRow
    /\ LET old == offers[a].listing
       IN  \E l \in Listings, s \in Specs :
               /\ old.price > 0 /\ DropReaches(old.price, l.price, MinDropPct)
               /\ l = [old EXCEPT !.price = l.price, !.shipping = l.shipping, !.bid = l.bid]
               /\ offers' = [offers EXCEPT ![a].listing = l, ![a].spec = s]
    /\ UNCHANGED << stats, refreshes >>

(* Another spec is stored for its text: the price basis getItem resolved,  *)
(* or what the LLM made of it.                                             *)
Respec(a) ==
    /\ offers[a] # NoRow
    /\ \E s \in Specs : offers' = [offers EXCEPT ![a].spec = s]
    /\ UNCHANGED << stats, refreshes >>

(* posted_at does not move: an offer only gets older.                      *)
Age(a) ==
    /\ offers[a] # NoRow /\ offers[a].age <= Window
    /\ offers' = [offers EXCEPT ![a].age = @ + 1]
    /\ UNCHANGED << stats, refreshes >>

Refresh ==
    /\ refreshes < MaxRefresh
    /\ stats' = [b \in Buckets |-> IF SampleOf(b) = {} THEN stats[b] ELSE StatsRow(b)]
    /\ refreshes' = refreshes + 1
    /\ UNCHANGED offers

Next == Refresh \/ \E a \in Ads : Observe(a) \/ Reprice(a) \/ Respec(a) \/ Age(a)

Spec == Init /\ [][Next]_marketVars

-----------------------------------------------------------------------------
Offered == {a \in Ads : offers[a] # NoRow}
DealOn(a) == VerdictOn(a).kind = "deal"

(* The quartiles of a row are in order, within what was sampled, and the   *)
(* row has at least one sample: rounding and interpolation keep this.      *)
QuartilesOrdered ==
    [][ \A b \in Buckets : stats'[b] # stats[b] =>
            LET row == stats'[b]
            IN  /\ row.n > 0
                /\ \E lo, hi \in SampleOf(b) :
                       /\ \A a \in SampleOf(b) :
                              SamplePerGb[lo] <= SamplePerGb[a]
                                  /\ SamplePerGb[a] <= SamplePerGb[hi]
                       /\ SamplePerGb[lo] <= row.p25 /\ row.p25 <= row.p50
                       /\ row.p50 <= row.p75 /\ row.p75 <= SamplePerGb[hi] ]_marketVars

(* What is alerted is strictly under the absolute barrier in exact         *)
(* arithmetic, whatever the roundings of the price, the shipping and the   *)
(* price per gigabyte did on the way.                                      *)
DealUnderCeiling ==
    \A a \in Offered : DealOn(a) =>
        LET l == offers[a].listing
            cost == TotalCost(PriceEur(l, offers[a].spec), ShippingEur(l))
        IN  cost * PerGbScale < HardCeiling * offers[a].spec.total

(* A lot and the same modules priced one by one get the same verdict and,  *)
(* when it is an alert, the same fingerprint.                              *)
UnitAndLotAgree ==
    \A a \in Offered :
        LET l == offers[a].listing
            s == offers[a].spec
            lot == EvaluateDetailed([l EXCEPT !.price = @ * s.count],
                                    [s EXCEPT !.basis = "lot"], LatestIndex,
                                    InObservationMode)
        IN  s.basis = "unit" /\ l.sale = "fixed" /\ l.currency = "EUR" =>
                VerdictOn(a) = lot

(* Bidding up to max_bid keeps the lot within the absolute barrier, and an *)
(* alert is only sent while there is room to bid under it.                 *)
MaxBidIsUseful ==
    \A a \in Offered : DealOn(a) /\ VerdictOn(a).urgency = "quiet" =>
        LET l == offers[a].listing
            bid == VerdictOn(a).maxBid
        IN  /\ EurPerGb(TotalCost(bid, ShippingEur(l)), offers[a].spec.total)
                   <= HardCeiling
            /\ bid >= ToEur(EffectiveBid(l), l.currency)

(* A fixed price that falls never loses a deal, unless it falls under the  *)
(* plausibility floor.                                                     *)
CheaperStaysADeal ==
    [][ \A a \in Offered :
            LET price == offers'[a].listing.price
            IN  DealOn(a) /\ offers[a].listing.sale = "fixed"
                    /\ price < offers[a].listing.price
                    /\ offers'[a] = [offers[a] EXCEPT !.listing.price = price] =>
                        DealOn(a)' \/ VerdictOn(a)'.kind = "llm" ]_marketVars

-----------------------------------------------------------------------------
(* "market_ref = p50(eur_per_gb des annonces qualifiees)": the price per   *)
(* gigabyte of a sample is the one a verdict computes for it.              *)
IndexIsOfEurPerGb ==
    \A b \in Buckets : \A a \in SampleOf(b) :
        SamplePerGb[a] = ListingPerGb(offers[a].listing, offers[a].spec)
=============================================================================
