-------------------------------- MODULE Deals --------------------------------
(***************************************************************************)
(* The pure part of a verdict: money (core/money.py), the alert            *)
(* fingerprint (core/hashing.py), the auction gate (decide/auction.py) and *)
(* the ordered rules of decide/thresholds.py.                              *)
(*                                                                         *)
(* Amounts are integers in one money unit (a cent, or a euro in the small  *)
(* runs); a price per gigabyte is an integer in units of 1/PerGbScale.     *)
(* NoAmount stands for None: an unknown shipping cost, an absent bid.      *)
(***************************************************************************)
EXTENDS Integers

CONSTANTS
    HardCeiling,        \* barriers.hard_ceiling_eur_per_gb, per-GB units
    PlausibilityFloor,  \* guards.plausibility_floor_eur_per_gb, per-GB units
    MinTotalGb,         \* guards.min_total_gb
    MinDiscountPct,     \* barriers.min_discount, in percent
    ShippingEstimate,   \* shipping.default_estimate_eur
    RatePct,            \* currency.rates_to_eur: currency -> 100 * rate
    GateTicks,          \* auction.gate_minutes
    BidIncrement,       \* auction.bid_increment_eur
    FpBucket,           \* _PRICE_BUCKET_EUR
    PerGbScale          \* quanta of a price per gigabyte in one money unit

ASSUME DealsAssumption ==
    /\ HardCeiling \in Nat /\ PlausibilityFloor \in Nat
    /\ MinTotalGb \in Nat /\ MinDiscountPct \in Int
    /\ ShippingEstimate \in Nat /\ GateTicks \in Nat /\ BidIncrement \in Nat
    /\ FpBucket \in Nat \ {0} /\ PerGbScale \in Nat \ {0}
    /\ \A c \in DOMAIN RatePct : RatePct[c] \in Nat

NoAmount == -1

(* What a verdict reads of a listing; `left' is the time to ends_at.       *)
RawListing == [ price : Nat, bid : Nat \cup {NoAmount}, currency : STRING,
                shipping : Nat \cup {NoAmount}, sale : {"fixed", "auction"},
                left : Int, seller : STRING ]

(* reject_reason; "hard" stands for the reasons of qualify.                *)
Reasons == {"none", "hard", "low_confidence", "best_case_above_ceiling"}

(* Of a spec: modules, gigabytes of one and of all, what the price is for, *)
(* whether the LLM gave it, and why it is rejected.                        *)
MemorySpec == [ count : Nat \ {0}, cap : Nat, total : Nat,
                basis : {"lot", "unit", "unknown"}, llm : BOOLEAN, reject : Reasons ]

Fingerprints == STRING \X Nat \X Nat \X Nat

Deal == [ kind : {"deal"}, urgency : {"immediate", "quiet"}, fp : Fingerprints,
          maxBid : Int ]

(* ROUND_HALF_UP of num / den, both nonnegative.                           *)
HalfUp(num, den) == (2 * num + den) \div (2 * den)

(* "EUR" is never looked up; a code without a rate raises MoneyError.      *)
Convertible(currency) == currency = "EUR" \/ currency \in DOMAIN RatePct

ToEur(amount, currency) ==
    IF currency = "EUR" THEN amount ELSE HalfUp(amount * RatePct[currency], 100)

ShippingUsed(shipping) ==
    IF shipping = NoAmount THEN ShippingEstimate ELSE shipping

TotalCost(price, shipping) == price + ShippingUsed(shipping)

EurPerGb(cost, totalGb) == HalfUp(cost * PerGbScale, totalGb)

(* Seller, capacity, module count and price band; no seller_id is "?".     *)
Fingerprint(seller, spec, price) ==
    << seller, spec.cap, spec.count, price \div FpBucket >>

-----------------------------------------------------------------------------
(* Time left is in ticks; it may be zero or negative once the sale ended.  *)
Gate(left) ==
    IF left <= 0 THEN "none" ELSE IF left > GateTicks THEN "watch" ELSE "quiet"

EffectiveBid(listing) ==
    BidIncrement + (IF listing.bid = NoAmount THEN listing.price ELSE listing.bid)

(* Decimal.quantize without a rounding argument: ROUND_HALF_EVEN.          *)
HalfEven(num, den) ==
    LET q == num \div den
        r == 2 * (num % den)
    IN  IF r > den \/ (r = den /\ q % 2 = 1) THEN q + 1 ELSE q

(* Mutant: the shipping cost is forgotten.                                 *)
MaxBidDelivered(totalGb, shipping) == HalfEven(HardCeiling * totalGb, PerGbScale)

MaxBid(totalGb, shipping) ==
    HalfEven(HardCeiling * totalGb - PerGbScale * shipping, PerGbScale)

(* A unit price is scaled to the whole lot.                                *)
PriceEur(listing, spec) ==
    ToEur(listing.price, listing.currency)
        * (IF spec.basis = "unit" /\ spec.count > 1 THEN spec.count ELSE 1)

ShippingEur(listing) ==
    IF listing.shipping = NoAmount THEN NoAmount
    ELSE ToEur(listing.shipping, listing.currency)

(* Mutant: the price of one module for the gigabytes of the lot.           *)
ListingPerGbOfOne(listing, spec) ==
    EurPerGb(TotalCost(ToEur(listing.price, listing.currency), ShippingEur(listing)),
             spec.total)

ListingPerGb(listing, spec) ==
    EurPerGb(TotalCost(PriceEur(listing, spec), ShippingEur(listing)), spec.total)

BidPerGb(listing, spec) ==
    EurPerGb(TotalCost(ToEur(EffectiveBid(listing), listing.currency),
                       ShippingEur(listing)),
             spec.total)

(* The bucket's reference, else that of the nearest bucket, else NoAmount. *)
ReferenceFor(cap, index) ==
    IF DOMAIN index = {} THEN NoAmount
    ELSE LET Gap(b) == IF b < cap THEN cap - b ELSE b - cap
         IN  index[CHOOSE b \in DOMAIN index :
                       \A c \in DOMAIN index :
                           \/ Gap(b) < Gap(c)
                           \/ Gap(b) = Gap(c) /\ b <= c]

(* Mutant: the discount is taken the wrong way round.                      *)
BelowReversedBarrier(perGb, ref) ==
    /\ ref # NoAmount
    /\ IF ref <= 0 THEN 0 > MinDiscountPct
       ELSE 100 * (perGb - ref) > MinDiscountPct * ref

(* 1 - perGb/ref > min_discount, and false without a positive reference:   *)
(* the discount of a null reference is 0.                                  *)
BelowRelativeBarrier(perGb, ref) ==
    /\ ref # NoAmount
    /\ IF ref <= 0 THEN 0 > MinDiscountPct
       ELSE 100 * (ref - perGb) > MinDiscountPct * ref

Refused(reason) == [kind |-> "none", reason |-> reason]

(* Mutant: the price band is that of the listed price.                     *)
DealOfListedPrice(listing, spec, urgency) ==
    [ kind |-> "deal", urgency |-> urgency,
      fp |-> Fingerprint(listing.seller, spec, ToEur(listing.price, listing.currency)),
      maxBid |-> IF urgency = "immediate" THEN NoAmount
                 ELSE MaxBid(spec.total, ShippingUsed(ShippingEur(listing))) ]

DealOf(listing, spec, urgency) ==
    [ kind |-> "deal", urgency |-> urgency,
      fp |-> Fingerprint(listing.seller, spec, PriceEur(listing, spec)),
      maxBid |-> IF urgency = "immediate" THEN NoAmount
                 ELSE MaxBid(spec.total, ShippingUsed(ShippingEur(listing))) ]

AuctionVerdict(listing, spec) ==
    LET gate == Gate(listing.left)
    IN  IF gate # "quiet" THEN Refused(IF gate = "watch" THEN "auction_watch" ELSE "auction_none")
        ELSE IF BidPerGb(listing, spec) >= HardCeiling
        THEN Refused("auction_bid_above_ceiling")
        ELSE DealOf(listing, spec, "quiet")

(* The rules in their normative order. "error" is a MoneyError, which      *)
(* leaves evaluate_detailed as an exception.                               *)
EvaluateDetailed(listing, spec, index, observation) ==
    IF spec.reject # "none" THEN Refused(spec.reject)
    ELSE IF spec.basis = "unknown" /\ ~spec.llm THEN Refused("price_basis_unknown")
    ELSE IF spec.total <= 0 THEN Refused("total_gb_unknown")
    ELSE IF ~Convertible(listing.currency) THEN [kind |-> "error"]
    ELSE LET perGb == ListingPerGb(listing, spec)
             ref == ReferenceFor(IF spec.cap > 0 THEN spec.cap ELSE spec.total, index)
         IN  IF perGb < PlausibilityFloor THEN [kind |-> "llm"]
             ELSE IF spec.total < MinTotalGb THEN Refused("below_min_total_gb")
             ELSE IF perGb >= HardCeiling THEN Refused("above_hard_ceiling")
             ELSE IF ~observation /\ ~BelowRelativeBarrier(perGb, ref)
             THEN Refused("insufficient_discount")
             ELSE IF listing.sale = "auction" THEN AuctionVerdict(listing, spec)
             ELSE DealOf(listing, spec, "immediate")

-----------------------------------------------------------------------------
(* The drop from one price to a lower one reaches pct percent of the first *)
(* (dedupe.price_dropped, and the re-alert rule of ratelimit.decide).      *)
DropReaches(previous, price, pct) == 100 * (previous - price) >= pct * previous
=============================================================================
