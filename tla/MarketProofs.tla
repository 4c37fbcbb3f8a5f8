---------------------------- MODULE MarketProofs -----------------------------
(***************************************************************************)
(* Proofs about Market, for any ads, listings, specs and configuration.    *)
(*                                                                         *)
(* OffersOK and StatsOK give the types; every property of a verdict then   *)
(* follows from the rules alone.  For the quartiles: an order statistic of *)
(* a sample exists because the subset ordering of a finite set is well     *)
(* founded, it grows with the rank, interpolating between two neighbouring *)
(* ranks stays between them, and rounding half to even keeps the order.    *)
(***************************************************************************)
EXTENDS Market, RulesProofs

(* What is stored of an ad is a listing, a spec and an age.                *)
OffersOK ==
    offers \in [Ads -> [listing : RawListing, spec : MemorySpec, age : Nat] \cup {NoRow}]

(* An offer is always a listing and a spec the rules can judge.            *)
LEMMA StepOffersOK == OffersOK /\ [Next]_marketVars => OffersOK'
<1> SUFFICES ASSUME OffersOK, [Next]_marketVars
             PROVE  OffersOK'
  OBVIOUS
<1> DEFINE Offer == [listing : RawListing, spec : MemorySpec, age : Nat]
<1>1. ASSUME NEW a \in Ads, Observe(a)
      PROVE  OffersOK'
  <2>1. PICK l \in Listings, s \in Specs :
            offers' = [offers EXCEPT ![a] = [listing |-> l, spec |-> s, age |-> 0]]
    BY <1>1 DEF Observe
  <2>2. [listing |-> l, spec |-> s, age |-> 0] \in Offer
    BY MarketAssumption
  <2>3. QED
    BY <2>1, <2>2 DEF OffersOK
<1>2. ASSUME NEW a \in Ads, Reprice(a)
      PROVE  OffersOK'
  <2>1. PICK l \in Listings, s \in Specs :
            offers' = [offers EXCEPT ![a].listing = l, ![a].spec = s]
    BY <1>2 DEF Reprice
  <2>2. offers[a] \in Offer /\ l \in RawListing /\ s \in MemorySpec
    BY <1>2, MarketAssumption DEF Reprice, OffersOK
  <2>3. [offers[a] EXCEPT !.listing = l, !.spec = s] \in Offer
    BY <2>2
  <2>4. QED
    BY <2>1, <2>3 DEF OffersOK
<1>3. ASSUME NEW a \in Ads, Respec(a)
      PROVE  OffersOK'
  <2>1. PICK s \in Specs : offers' = [offers EXCEPT ![a].spec = s]
    BY <1>3 DEF Respec
  <2>2. offers[a] \in Offer /\ s \in MemorySpec
    BY <1>3, MarketAssumption DEF Respec, OffersOK
  <2>3. [offers[a] EXCEPT !.spec = s] \in Offer
    BY <2>2
  <2>4. QED
    BY <2>1, <2>3 DEF OffersOK
<1>4. ASSUME NEW a \in Ads, Age(a)
      PROVE  OffersOK'
  <2>1. offers[a] \in Offer
    BY <1>4 DEF Age, OffersOK
  <2>2. [offers[a] EXCEPT !.age = @ + 1] \in Offer
    BY <2>1
  <2>3. QED
    BY <1>4, <2>2 DEF Age, OffersOK
<1>5. CASE Refresh \/ UNCHANGED marketVars
  BY <1>5 DEF Refresh, marketVars, OffersOK
<1>6. QED
  BY <1>1, <1>2, <1>3, <1>4, <1>5 DEF Next

(* No roundings of currency, shipping or price per gigabyte, no index and  *)
(* no history of offers lets an alert through that costs the ceiling.      *)
THEOREM DealsUnderCeiling == Spec => []DealUnderCeiling
<1>1. Init => OffersOK
  BY DEF Init, OffersOK
<1>2. OffersOK => DealUnderCeiling
  <2> SUFFICES ASSUME OffersOK, NEW a \in Offered, DealOn(a)
               PROVE  TotalCost(PriceEur(offers[a].listing, offers[a].spec),
                                ShippingEur(offers[a].listing)) * PerGbScale
                          < HardCeiling * offers[a].spec.total
    BY DEF DealUnderCeiling
  <2>1. offers[a].listing \in RawListing /\ offers[a].spec \in MemorySpec
    BY DEF OffersOK, Offered
  <2>2. EvaluateDetailed(offers[a].listing, offers[a].spec, LatestIndex,
                         InObservationMode).kind = "deal"
    BY DEF DealOn, VerdictOn
  <2>3. QED
    BY <2>1, <2>2, DealIsUnderBarrier
<1>3. QED
  BY <1>1, <1>2, StepOffersOK, PTL DEF Spec

-----------------------------------------------------------------------------
(* A price per module, scaled to the lot, is the price of the lot.         *)
LEMMA UnitIsLot ==
  ASSUME NEW l \in RawListing, NEW s \in MemorySpec, NEW index, NEW observation,
         s.basis = "unit", l.sale = "fixed", l.currency = "EUR"
  PROVE  EvaluateDetailed(l, s, index, observation) =
             EvaluateDetailed([l EXCEPT !.price = @ * s.count], [s EXCEPT !.basis = "lot"],
                              index, observation)
<1> DEFINE lot == [l EXCEPT !.price = @ * s.count]
           spec == [s EXCEPT !.basis = "lot"]
<1>1. /\ lot.currency = l.currency /\ lot.shipping = l.shipping /\ lot.sale = l.sale
      /\ lot.seller = l.seller /\ lot.price = l.price * s.count
      /\ l.price \in Nat /\ s.count \in Nat \ {0}
  BY DEF RawListing, MemorySpec
<1>2. /\ spec.reject = s.reject /\ spec.llm = s.llm /\ spec.total = s.total
      /\ spec.cap = s.cap /\ spec.count = s.count /\ spec.basis = "lot"
  BY DEF MemorySpec
<1>3. PriceEur(lot, spec) = PriceEur(l, s)
  <2>1. PriceEur(lot, spec) = l.price * s.count
    BY <1>1, <1>2 DEF PriceEur, ToEur
  <2>2. PriceEur(l, s) = l.price * (IF s.count > 1 THEN s.count ELSE 1)
    BY DEF PriceEur, ToEur
  <2>3. (IF s.count > 1 THEN s.count ELSE 1) = s.count
    BY <1>1
  <2>4. QED
    BY <2>1, <2>2, <2>3
<1>4. ShippingEur(lot) = ShippingEur(l)
  BY <1>1 DEF ShippingEur
<1>5. ListingPerGb(lot, spec) = ListingPerGb(l, s)
  BY <1>2, <1>3, <1>4 DEF ListingPerGb
<1>6. DealOf(lot, spec, "immediate") = DealOf(l, s, "immediate")
  BY <1>1, <1>2, <1>3 DEF DealOf, Fingerprint
<1> HIDE DEF lot, spec
<1>7. EvaluateDetailed(l, s, index, observation) = EvaluateDetailed(lot, spec, index, observation)
  BY <1>1, <1>2, <1>5, <1>6 DEF EvaluateDetailed
<1>8. QED
  BY <1>7 DEF lot, spec

(* A lot and the same modules priced one by one get the same verdict, on   *)
(* any history of offers and indexes.                                      *)
THEOREM UnitAgreesWithLot == Spec => []UnitAndLotAgree
<1>1. Init => OffersOK
  BY DEF Init, OffersOK
<1>2. OffersOK => UnitAndLotAgree
  <2> SUFFICES ASSUME OffersOK, NEW a \in Offered, offers[a].spec.basis = "unit",
                      offers[a].listing.sale = "fixed", offers[a].listing.currency = "EUR"
               PROVE  VerdictOn(a) =
                          EvaluateDetailed([offers[a].listing EXCEPT !.price = @ * offers[a].spec.count],
                                           [offers[a].spec EXCEPT !.basis = "lot"],
                                           LatestIndex, InObservationMode)
    BY DEF UnitAndLotAgree
  <2>1. offers[a].listing \in RawListing /\ offers[a].spec \in MemorySpec
    BY DEF OffersOK, Offered
  <2>2. QED
    BY <2>1, UnitIsLot DEF VerdictOn
<1>3. QED
  BY <1>1, <1>2, StepOffersOK, PTL DEF Spec

-----------------------------------------------------------------------------
(* What is not above a product divides to at most its factor.              *)
LEMMA HalfEvenBelow ==
  ASSUME NEW n \in Int, NEW d \in Nat \ {0}, NEW k \in Int, k * d <= n
  PROVE  k <= HalfEven(n, d)
<1>1. PICK q \in Int : q = n \div d
  OBVIOUS
<1>2. n < (q + 1) * d
  BY <1>1
<1>3. k <= q
  <2> SUFFICES ASSUME k >= q + 1 PROVE FALSE
    BY <1>1
  <2>1. PICK m \in Nat : k = q + 1 + m
    BY <1>1, k - (q + 1) \in Nat, k = q + 1 + (k - (q + 1))
  <2>2. k * d = (q + 1) * d + m * d /\ m * d \in Nat
    BY <2>1
  <2>3. QED
    BY <1>2, <2>2
<1>4. QED
  BY <1>1, <1>3 DEF HalfEven

(* Where nothing is left to round, the quotient is exact.                  *)
LEMMA HalfEvenExact ==
  ASSUME NEW d \in Nat \ {0}, NEW k \in Int
  PROVE  HalfEven(k * d, d) = k
<1>1. (k * d) \div d = k /\ (k * d) % d = 0
  OBVIOUS
<1>2. QED
  BY <1>1 DEF HalfEven

LEMMA HalfUpExact ==
  ASSUME NEW d \in Nat \ {0}, NEW k \in Nat
  PROVE  HalfUp(k * d, d) = k
<1>1. 2 * (k * d) + d = k * (2 * d) + d
  OBVIOUS
<1>2. (k * (2 * d) + d) \div (2 * d) = k
  OBVIOUS
<1>3. QED
  BY <1>1, <1>2 DEF HalfUp

(* A quiet alert has passed the gate of auctions, bid and all.             *)
LEMMA QuietPassedGate ==
  ASSUME NEW l \in RawListing, NEW s \in MemorySpec, NEW index, NEW observation,
         EvaluateDetailed(l, s, index, observation).kind = "deal",
         EvaluateDetailed(l, s, index, observation).urgency = "quiet"
  PROVE  /\ Convertible(l.currency) /\ s.total > 0
         /\ EvaluateDetailed(l, s, index, observation) = DealOf(l, s, "quiet")
         /\ BidPerGb(l, s) < HardCeiling
<1> DEFINE verdict == EvaluateDetailed(l, s, index, observation)
<1>1. \A reason : Refused(reason).kind # "deal"
  BY DEF Refused
<1>2. Convertible(l.currency) /\ s.total > 0
  BY DealPassedBarrier
<1>3. verdict \in {AuctionVerdict(l, s), DealOf(l, s, "immediate")}
  BY <1>1 DEF EvaluateDetailed
<1>4. verdict = AuctionVerdict(l, s)
  <2>1. DealOf(l, s, "immediate").urgency = "immediate"
    BY DEF DealOf
  <2>2. QED
    BY <1>3, <2>1
<1>5. ~(BidPerGb(l, s) >= HardCeiling) /\ verdict = DealOf(l, s, "quiet")
  BY <1>1, <1>4 DEF AuctionVerdict
<1>6. BidPerGb(l, s) \in Nat
  <2>1. EffectiveBid(l) \in Nat
    BY DealsAssumption DEF EffectiveBid, RawListing
  <2>2. ToEur(EffectiveBid(l), l.currency) + ShippingUsed(ShippingEur(l)) \in Nat
    BY <1>2, <2>1, CostType, ToEurType
  <2>3. QED
    BY <1>2, <2>2, HalfUpType, DealsAssumption DEF BidPerGb, EurPerGb, TotalCost, MemorySpec
<1>7. QED
  BY <1>2, <1>5, <1>6, DealsAssumption

(* There is room for the bid that beats the current one: what passes the   *)
(* barrier with it is not above max_bid.                                   *)
LEMMA RoomToBid ==
  ASSUME NEW bid \in Nat, NEW shipping \in Nat, NEW total \in Nat \ {0},
         HalfUp((bid + shipping) * PerGbScale, total) < HardCeiling
  PROVE  bid <= MaxBid(total, shipping)
<1>1. (bid + shipping) * PerGbScale < HardCeiling * total
  <2>1. (bid + shipping) * PerGbScale \in Nat /\ HardCeiling \in Nat
    BY DealsAssumption
  <2>2. QED
    BY <2>1, HalfUpUnder
<1>2. /\ bid * PerGbScale \in Int
      /\ HardCeiling * total - PerGbScale * shipping \in Int
      /\ (bid + shipping) * PerGbScale = bid * PerGbScale + PerGbScale * shipping
      /\ HardCeiling * total \in Int /\ PerGbScale * shipping \in Int
  BY DealsAssumption
<1>3. bid * PerGbScale <= HardCeiling * total - PerGbScale * shipping
  BY <1>1, <1>2
<1>4. QED
  BY <1>2, <1>3, HalfEvenBelow, DealsAssumption DEF MaxBid

(* With a ceiling of whole money units max_bid is exact, and costs the     *)
(* ceiling and no more.                                                    *)
LEMMA MaxBidIsCeiling ==
  ASSUME HardCeiling % PerGbScale = 0,
         NEW shipping \in Nat, NEW total \in Nat \ {0}, MaxBid(total, shipping) >= 0
  PROVE  HalfUp((MaxBid(total, shipping) + shipping) * PerGbScale, total) = HardCeiling
<1>1. PICK k \in Nat : HardCeiling = k * PerGbScale
  <2>1. HardCeiling \div PerGbScale \in Nat
        /\ HardCeiling = (HardCeiling \div PerGbScale) * PerGbScale
    BY DealsAssumption
  <2>2. QED
    BY <2>1
<1>2. HardCeiling * total - PerGbScale * shipping = (k * total - shipping) * PerGbScale
  BY <1>1, DealsAssumption
<1>3. MaxBid(total, shipping) = k * total - shipping
  <2>1. k * total - shipping \in Int
    OBVIOUS
  <2>2. QED
    BY <1>2, <2>1, HalfEvenExact, DealsAssumption DEF MaxBid
<1>4. (MaxBid(total, shipping) + shipping) * PerGbScale = HardCeiling * total
  BY <1>1, <1>3, DealsAssumption
<1>5. QED
  BY <1>4, HalfUpExact, DealsAssumption

(* When the ceiling is a whole number of money units, as the configured    *)
(* one is of cents, a bid of max_bid stays within the barrier and there is *)
(* room for it, on any history of offers and indexes.                      *)
THEOREM MaxBidUseful ==
  ASSUME HardCeiling % PerGbScale = 0
  PROVE  Spec => []MaxBidIsUseful
<1>1. Init => OffersOK
  BY DEF Init, OffersOK
<1>2. OffersOK => MaxBidIsUseful
  <2> SUFFICES ASSUME OffersOK, NEW a \in Offered, DealOn(a), VerdictOn(a).urgency = "quiet"
               PROVE  /\ EurPerGb(TotalCost(VerdictOn(a).maxBid, ShippingEur(offers[a].listing)),
                                  offers[a].spec.total) <= HardCeiling
                      /\ VerdictOn(a).maxBid >=
                             ToEur(EffectiveBid(offers[a].listing), offers[a].listing.currency)
    BY DEF MaxBidIsUseful
  <2> DEFINE l == offers[a].listing
             s == offers[a].spec
             shipping == ShippingUsed(ShippingEur(l))
             bid == ToEur(EffectiveBid(l), l.currency)
  <2>1. l \in RawListing /\ s \in MemorySpec
    BY DEF OffersOK, Offered
  <2>2. /\ Convertible(l.currency) /\ s.total \in Nat \ {0}
        /\ VerdictOn(a) = DealOf(l, s, "quiet") /\ BidPerGb(l, s) < HardCeiling
    BY <2>1, QuietPassedGate DEF DealOn, VerdictOn, MemorySpec
  <2>3. VerdictOn(a).maxBid = MaxBid(s.total, shipping)
    BY <2>2 DEF DealOf
  <2>4. bid \in Nat /\ shipping \in Nat
    <3>1. EffectiveBid(l) \in Nat
      BY <2>1, DealsAssumption DEF EffectiveBid, RawListing
    <3>2. QED
      BY <2>1, <2>2, <3>1, ToEurType, CostType
  <2>5. bid <= MaxBid(s.total, shipping)
    <3>1. HalfUp((bid + shipping) * PerGbScale, s.total) < HardCeiling
      BY <2>2 DEF BidPerGb, EurPerGb, TotalCost
    <3>2. QED
      BY <2>2, <2>4, <3>1, RoomToBid
  <2>6. HalfUp((MaxBid(s.total, shipping) + shipping) * PerGbScale, s.total) = HardCeiling
    <3>1. MaxBid(s.total, shipping) \in Int
      BY <2>2, <2>4, HalfEvenType, DealsAssumption DEF MaxBid
    <3>2. QED
      BY <2>2, <2>4, <2>5, <3>1, MaxBidIsCeiling
  <2>7. QED
    BY <2>3, <2>4, <2>5, <2>6, DealsAssumption DEF EurPerGb, TotalCost
<1>3. QED
  BY <1>1, <1>2, StepOffersOK, PTL DEF Spec

-----------------------------------------------------------------------------
(* A value of the sample, of which at most k are below and more than k are *)
(* not above.                                                              *)
AtRank(S, val, k, v) ==
    /\ \E a \in S : v = val[a]
    /\ Cardinality({a \in S : val[a] < v}) <= k
    /\ k < Cardinality({a \in S : val[a] <= v})

(* Every rank has its value.                                               *)
LEMMA OrderStatisticIs ==
  ASSUME NEW S, IsFiniteSet(S), NEW val, \A a \in S : val[a] \in Int,
         NEW k \in Nat, k < Cardinality(S)
  PROVE  AtRank(S, val, k, OrderStatistic(S, val, k))
<1> DEFINE UpTo(b) == {a \in S : val[a] <= val[b]}
           Below(b) == {a \in S : val[a] < val[b]}
           Enough == {UpTo(b) : b \in {c \in S : k < Cardinality(UpTo(c))}}
<1>1. Enough # {}
  <2>1. S # {}
    BY FS_EmptySet
  <2>2. PICK m \in S : \A a \in S : val[a] <= val[m]
    BY <2>1, Largest
  <2>3. UpTo(m) = S
    BY <2>2
  <2>4. QED
    BY <2>3
<1>2. Enough \subseteq FiniteSubsetsOf(S)
  BY FS_Subset DEF FiniteSubsetsOf
<1>3. PICK T \in Enough : \A U \in Enough : << U, T >> \notin StrictSubsetOrdering(S)
  <2> HIDE DEF Enough
  <2>1. QED
    BY <1>1, <1>2, FS_StrictSubsetOrderingWellFounded, WFMin
<1>4. PICK b \in S : T = UpTo(b) /\ k < Cardinality(UpTo(b))
  BY <1>3
<1>5. IsFiniteSet(Below(b)) /\ Cardinality(Below(b)) \in Nat
  BY FS_Subset, FS_CardinalityType
<1>6. Cardinality(Below(b)) <= k
  <2>1. CASE Below(b) = {}
    BY <2>1, FS_EmptySet
  <2>2. CASE Below(b) # {}
    <3>1. PICK c \in Below(b) : \A a \in Below(b) : val[a] <= val[c]
      <4>1. \A a \in Below(b) : val[a] \in Int
        OBVIOUS
      <4> HIDE DEF Below
      <4>2. QED
        BY <1>5, <2>2, <4>1, Largest
    <3>2. UpTo(c) = Below(b)
      BY <3>1
    <3>3. << UpTo(c), UpTo(b) >> \in StrictSubsetOrdering(S)
      <4>1. UpTo(c) \subseteq UpTo(b) /\ b \in UpTo(b) /\ b \notin UpTo(c)
        BY <3>1
      <4>2. QED
        BY <4>1 DEF StrictSubsetOrdering
    <3>4. UpTo(c) \notin Enough
      BY <1>3, <1>4, <3>3
    <3>5. ~(k < Cardinality(UpTo(c)))
      BY <3>1, <3>4
    <3>6. QED
      BY <1>5, <3>2, <3>5
  <2>3. QED
    BY <2>1, <2>2
<1> DEFINE Good(v) == /\ Cardinality({a \in S : val[a] < v}) <= k
                      /\ k < Cardinality({a \in S : val[a] <= v})
<1>7. val[b] \in {val[a] : a \in S} /\ Good(val[b])
  BY <1>4, <1>6
<1>8. OrderStatistic(S, val, k) \in {val[a] : a \in S} /\ Good(OrderStatistic(S, val, k))
  <2>1. OrderStatistic(S, val, k) = CHOOSE v \in {val[a] : a \in S} : Good(v)
    BY DEF OrderStatistic
  <2> HIDE DEF Good
  <2>2. QED
    BY <1>7, <2>1
<1>9. QED
  BY <1>8 DEF AtRank

(* A higher rank has no lower value.                                       *)
LEMMA OrderStatisticMonotone ==
  ASSUME NEW S, IsFiniteSet(S), NEW val, \A a \in S : val[a] \in Int,
         NEW k \in Nat, NEW m \in Nat, k <= m, m < Cardinality(S)
  PROVE  OrderStatistic(S, val, k) <= OrderStatistic(S, val, m)
<1> DEFINE v == OrderStatistic(S, val, k)
           w == OrderStatistic(S, val, m)
           BelowV == {a \in S : val[a] < v}
           UpToW == {a \in S : val[a] <= w}
<1>1. k < Cardinality(S) /\ Cardinality(S) \in Nat
  BY FS_CardinalityType
<1>2. v \in Int /\ Cardinality(BelowV) <= k
  <2>1. AtRank(S, val, k, v)
    BY <1>1, OrderStatisticIs
  <2>2. QED
    BY <2>1 DEF AtRank
<1>3. w \in Int /\ m < Cardinality(UpToW)
  <2>1. AtRank(S, val, m, w)
    BY OrderStatisticIs
  <2>2. QED
    BY <2>1 DEF AtRank
<1> HIDE DEF v, w
<1>4. SUFFICES ASSUME w < v PROVE FALSE
  BY <1>2, <1>3 DEF v, w
<1>5. UpToW \subseteq BelowV /\ BelowV \subseteq S
  BY <1>2, <1>3, <1>4
<1>6. IsFiniteSet(BelowV) /\ IsFiniteSet(UpToW)
  BY <1>5, FS_Subset
<1>7. Cardinality(UpToW) <= Cardinality(BelowV)
  BY <1>5, <1>6, FS_Subset
<1>8. Cardinality(UpToW) \in Nat /\ Cardinality(BelowV) \in Nat
  BY <1>6, FS_CardinalityType
<1>9. QED
  BY <1>2, <1>3, <1>7, <1>8

(* The first and the last rank hold every value between them.              *)
LEMMA OrderStatisticBounds ==
  ASSUME NEW S, IsFiniteSet(S), S # {}, NEW val, \A a \in S : val[a] \in Int
  PROVE  /\ Cardinality(S) - 1 \in Nat
         /\ \A a \in S : /\ OrderStatistic(S, val, 0) <= val[a]
                         /\ val[a] <= OrderStatistic(S, val, Cardinality(S) - 1)
<1> DEFINE n == Cardinality(S)
           v == OrderStatistic(S, val, 0)
           w == OrderStatistic(S, val, n - 1)
<1>1. n \in Nat /\ n # 0
  BY FS_CardinalityType, FS_EmptySet
<1>2. n - 1 \in Nat /\ n - 1 < n /\ 0 < n
  BY <1>1
<1>3. v \in Int /\ Cardinality({a \in S : val[a] < v}) <= 0
  <2>1. AtRank(S, val, 0, v)
    BY <1>2, OrderStatisticIs
  <2>2. QED
    BY <2>1 DEF AtRank
<1>4. w \in Int /\ n - 1 < Cardinality({a \in S : val[a] <= w})
  <2>1. AtRank(S, val, n - 1, w)
    BY <1>2, OrderStatisticIs
  <2>2. QED
    BY <2>1 DEF AtRank
<1> HIDE DEF n, v, w
<1>5. {a \in S : val[a] < v} = {}
  <2> DEFINE Below == {a \in S : val[a] < v}
  <2>1. IsFiniteSet(Below)
    BY FS_Subset
  <2>2. Cardinality(Below) = 0
    BY <1>3, <2>1, FS_CardinalityType
  <2>3. QED
    BY <2>1, <2>2, FS_EmptySet
<1>6. {a \in S : val[a] <= w} = S
  <2> DEFINE UpTo == {a \in S : val[a] <= w}
  <2>1. UpTo \in SUBSET S
    OBVIOUS
  <2>2. IsFiniteSet(UpTo) /\ Cardinality(UpTo) <= n /\ (n = Cardinality(UpTo) => S = UpTo)
    BY <2>1, FS_Subset DEF n
  <2>3. Cardinality(UpTo) \in Nat
    BY <2>2, FS_CardinalityType
  <2>4. QED
    BY <1>1, <1>4, <2>2, <2>3
<1>7. \A a \in S : v <= val[a] /\ val[a] <= w
  BY <1>3, <1>4, <1>5, <1>6
<1>8. QED
  BY <1>2, <1>7 DEF n, v, w

-----------------------------------------------------------------------------
(* Rounding half to even keeps the order.                                  *)
LEMMA HalfEvenMonotone ==
  ASSUME NEW m \in Int, NEW n \in Int, m <= n
  PROVE  HalfEven(m, 4) <= HalfEven(n, 4)
BY DEF HalfEven

(* The value at a rank in quarters of a step, before it is rounded: the    *)
(* interpolation between the ranks around it.                              *)
Interpolated(S, val, rank) ==
    LET lo == rank \div 4
        hi == IF lo + 1 > Cardinality(S) - 1 THEN Cardinality(S) - 1 ELSE lo + 1
        low == OrderStatistic(S, val, lo)
    IN  4 * low + (OrderStatistic(S, val, hi) - low) * (rank % 4)

(* What lies between two values lies between them at every quarter.        *)
LEMMA Between ==
  ASSUME NEW low \in Int, NEW high \in Int, low <= high, NEW r \in 0..3, NEW t \in 0..3, r <= t
  PROVE  /\ 4 * low <= 4 * low + (high - low) * r
         /\ 4 * low + (high - low) * r <= 4 * low + (high - low) * t
         /\ 4 * low + (high - low) * t <= 4 * high
<1>1. r \in {0, 1, 2, 3} /\ t \in {0, 1, 2, 3}
  OBVIOUS
<1>2. QED
  BY <1>1

(* An interpolated value lies between those of the ranks around it.        *)
LEMMA InterpolatedIs ==
  ASSUME NEW S, IsFiniteSet(S), S # {}, NEW val, \A a \in S : val[a] \in Int,
         NEW r \in Nat, r <= 4 * (Cardinality(S) - 1)
  PROVE  LET n == Cardinality(S)
             lo == r \div 4
             hi == IF lo + 1 > n - 1 THEN n - 1 ELSE lo + 1
             low == OrderStatistic(S, val, lo)
             high == OrderStatistic(S, val, hi)
         IN  /\ lo \in Nat /\ hi \in Nat /\ lo <= hi /\ hi <= n - 1
             /\ low \in Int /\ high \in Int /\ low <= high
             /\ Interpolated(S, val, r) = 4 * low + (high - low) * (r % 4)
             /\ Interpolated(S, val, r) \in Int
             /\ 4 * low <= Interpolated(S, val, r)
             /\ Interpolated(S, val, r) <= 4 * high
<1> DEFINE n == Cardinality(S)
           lo == r \div 4
           hi == IF lo + 1 > n - 1 THEN n - 1 ELSE lo + 1
           low == OrderStatistic(S, val, lo)
           high == OrderStatistic(S, val, hi)
<1>1. n \in Nat /\ n - 1 \in Nat
  BY FS_CardinalityType, OrderStatisticBounds
<1>2. lo \in Nat /\ hi \in Nat /\ lo <= hi /\ hi <= n - 1 /\ r % 4 \in 0..3
  <2> HIDE DEF n
  <2>1. r <= 4 * (n - 1)
    BY DEF n
  <2>2. QED
    BY <1>1, <2>1
<1>3. Interpolated(S, val, r) = 4 * low + (high - low) * (r % 4)
  BY DEF Interpolated
<1> HIDE DEF n, lo, hi
<1>4. lo < n /\ hi < n
  BY <1>1, <1>2
<1>5. AtRank(S, val, lo, low) /\ AtRank(S, val, hi, high)
  BY <1>2, <1>4, OrderStatisticIs DEF n
<1>6. low \in Int /\ high \in Int
  BY <1>5 DEF AtRank
<1>7. low <= high
  BY <1>2, <1>4, OrderStatisticMonotone DEF n
<1> HIDE DEF low, high
<1>8. /\ 4 * low <= 4 * low + (high - low) * (r % 4)
      /\ 4 * low + (high - low) * (r % 4) <= 4 * high
      /\ 4 * low + (high - low) * (r % 4) \in Int
  BY <1>2, <1>6, <1>7, Between
<1>9. QED
  BY <1>2, <1>3, <1>6, <1>7, <1>8 DEF n, lo, hi, low, high

(* A higher rank, in quarters of a step, interpolates to no lower value.   *)
LEMMA InterpolatedMonotone ==
  ASSUME NEW S, IsFiniteSet(S), S # {}, NEW val, \A a \in S : val[a] \in Int,
         NEW r \in Nat, NEW t \in Nat, r <= t, t <= 4 * (Cardinality(S) - 1)
  PROVE  Interpolated(S, val, r) <= Interpolated(S, val, t)
<1> DEFINE n == Cardinality(S)
           Lo(q) == q \div 4
           Hi(q) == IF Lo(q) + 1 > n - 1 THEN n - 1 ELSE Lo(q) + 1
           Low(q) == OrderStatistic(S, val, Lo(q))
           High(q) == OrderStatistic(S, val, Hi(q))
<1>0. n \in Nat /\ n - 1 \in Nat /\ r <= 4 * (n - 1)
  BY FS_CardinalityType, OrderStatisticBounds
<1>1. \A q \in {r, t} :
          /\ Lo(q) \in Nat /\ Hi(q) \in Nat /\ Hi(q) <= n - 1
          /\ Low(q) \in Int /\ High(q) \in Int /\ Low(q) <= High(q)
          /\ Interpolated(S, val, q) = 4 * Low(q) + (High(q) - Low(q)) * (q % 4)
          /\ Interpolated(S, val, q) \in Int
          /\ 4 * Low(q) <= Interpolated(S, val, q)
          /\ Interpolated(S, val, q) <= 4 * High(q)
  BY <1>0, InterpolatedIs
<1>2. CASE Lo(r) = Lo(t)
  <2>1. r % 4 \in 0..3 /\ t % 4 \in 0..3 /\ r % 4 <= t % 4
    BY <1>2
  <2>2. Low(t) = Low(r) /\ High(t) = High(r)
    BY <1>2
  <2> HIDE DEF Lo, Hi, Low, High
  <2>3. 4 * Low(r) + (High(r) - Low(r)) * (r % 4) <= 4 * Low(r) + (High(r) - Low(r)) * (t % 4)
    BY <1>1, <2>1, Between
  <2>4. QED
    BY <1>1, <2>2, <2>3
<1>3. CASE Lo(r) # Lo(t)
  <2>1. Lo(r) < Lo(t) /\ Lo(t) <= n - 1
    BY <1>0, <1>1, <1>3
  <2>2. Hi(r) = Lo(r) + 1 /\ Hi(r) <= Lo(t) /\ Lo(t) < n
    <3> HIDE DEF n
    <3>1. QED
      BY <1>0, <1>1, <2>1
  <2> HIDE DEF Lo, Hi
  <2>3. High(r) <= Low(t)
    BY <1>0, <1>1, <2>2, OrderStatisticMonotone
  <2> HIDE DEF Low, High
  <2>4. QED
    BY <1>1, <2>3
<1>4. QED
  BY <1>2, <1>3

(* The quartiles of a sample are in order, between its least and its       *)
(* largest value, after they were rounded.                                 *)
LEMMA PercentilesOrdered ==
  ASSUME NEW S, IsFiniteSet(S), S # {}, NEW val, \A a \in S : val[a] \in Int
  PROVE  /\ \A q \in 1..3 : Percentile(S, val, q) \in Int
         /\ OrderStatistic(S, val, 0) <= Percentile(S, val, 1)
         /\ Percentile(S, val, 1) <= Percentile(S, val, 2)
         /\ Percentile(S, val, 2) <= Percentile(S, val, 3)
         /\ Percentile(S, val, 3) <= OrderStatistic(S, val, Cardinality(S) - 1)
<1> DEFINE n == Cardinality(S)
           I(r) == Interpolated(S, val, r)
           least == OrderStatistic(S, val, 0)
           largest == OrderStatistic(S, val, n - 1)
<1>1. n \in Nat /\ n - 1 \in Nat /\ 0 < n
  BY FS_CardinalityType, OrderStatisticBounds
<1>2. \A q \in 1..3 : Percentile(S, val, q) = HalfEven(I(q * (n - 1)), 4)
  BY DEF Percentile, Interpolated
<1>3. /\ \A q \in 1..3 : q * (n - 1) \in Nat /\ q * (n - 1) <= 4 * (n - 1)
      /\ 1 * (n - 1) <= 2 * (n - 1) /\ 2 * (n - 1) <= 3 * (n - 1)
  <2> HIDE DEF n
  <2>1. QED
    BY <1>1
<1>4. least \in Int /\ largest \in Int
  <2>1. AtRank(S, val, 0, least) /\ AtRank(S, val, n - 1, largest)
    BY <1>1, OrderStatisticIs
  <2>2. QED
    BY <2>1 DEF AtRank
<1>5. \A q \in 1..3 : /\ I(q * (n - 1)) \in Int
                      /\ 4 * least <= I(q * (n - 1)) /\ I(q * (n - 1)) <= 4 * largest
  <2> SUFFICES ASSUME NEW q \in 1..3
               PROVE  /\ I(q * (n - 1)) \in Int
                      /\ 4 * least <= I(q * (n - 1)) /\ I(q * (n - 1)) <= 4 * largest
    OBVIOUS
  <2> DEFINE r == q * (n - 1)
             lo == r \div 4
             hi == IF lo + 1 > n - 1 THEN n - 1 ELSE lo + 1
             low == OrderStatistic(S, val, lo)
             high == OrderStatistic(S, val, hi)
  <2>1. r \in Nat /\ r <= 4 * (n - 1)
    BY <1>3
  <2> HIDE DEF r
  <2>2. /\ lo \in Nat /\ hi \in Nat /\ lo <= hi /\ hi <= n - 1
        /\ low \in Int /\ high \in Int
        /\ I(r) \in Int /\ 4 * low <= I(r) /\ I(r) <= 4 * high
    BY <2>1, InterpolatedIs
  <2> HIDE DEF I, lo, hi, n
  <2>3. 0 <= lo /\ lo < n /\ hi < n /\ n - 1 < n
    BY <1>1, <2>2
  <2>4. least <= low
    BY <1>1, <2>2, <2>3, OrderStatisticMonotone DEF n
  <2>5. high <= largest
    BY <1>1, <2>2, <2>3, OrderStatisticMonotone DEF n
  <2> HIDE DEF low, high, least, largest
  <2>6. QED
    BY <1>4, <2>2, <2>4, <2>5 DEF r
<1>6. I(1 * (n - 1)) <= I(2 * (n - 1)) /\ I(2 * (n - 1)) <= I(3 * (n - 1))
  BY <1>3, InterpolatedMonotone
<1> HIDE DEF I, n
<1>7. /\ HalfEven(I(1 * (n - 1)), 4) <= HalfEven(I(2 * (n - 1)), 4)
      /\ HalfEven(I(2 * (n - 1)), 4) <= HalfEven(I(3 * (n - 1)), 4)
  BY <1>5, <1>6, HalfEvenMonotone
<1> HIDE DEF least, largest
<1>8. HalfEven(4 * least, 4) = least /\ HalfEven(4 * largest, 4) = largest
  BY <1>4 DEF HalfEven
<1>9. /\ HalfEven(4 * least, 4) <= HalfEven(I(1 * (n - 1)), 4)
      /\ HalfEven(I(3 * (n - 1)), 4) <= HalfEven(4 * largest, 4)
  BY <1>4, <1>5, HalfEvenMonotone
<1>10. \A q \in 1..3 : HalfEven(I(q * (n - 1)), 4) \in Int
  <2>1. \A m \in Int : HalfEven(m, 4) \in Int
    BY HalfEvenType
  <2>2. QED
    BY <1>5, <2>1
<1>11. QED
  BY <1>2, <1>7, <1>8, <1>9, <1>10 DEF least, largest, n

-----------------------------------------------------------------------------
(* The sample of a bucket is a finite set of offers with a price each.     *)
LEMMA SampleIs ==
  ASSUME OffersOK, NEW b \in Buckets
  PROVE  /\ SampleOf(b) \subseteq Ads /\ IsFiniteSet(SampleOf(b))
         /\ \A a \in SampleOf(b) : SamplePerGb[a] \in Int
<1>1. SampleOf(b) \subseteq Ads /\ IsFiniteSet(SampleOf(b))
  <2>1. SampleOf(b) \in SUBSET Ads
    BY DEF SampleOf
  <2>2. QED
    BY <2>1, FS_Subset, MarketAssumption
<1>2. ASSUME NEW a \in SampleOf(b)
      PROVE  SamplePerGb[a] \in Int
  <2> DEFINE l == offers[a].listing
             total == offers[a].spec.total
             cost == TotalCost(l.price, l.shipping)
  <2>1. a \in Ads /\ offers[a] # NoRow /\ total > 0
    BY DEF SampleOf
  <2>2. l \in RawListing /\ offers[a].spec \in MemorySpec
    BY <2>1 DEF OffersOK
  <2>3. total \in Nat \ {0} /\ cost \in Nat
    BY <2>1, <2>2, DealsAssumption DEF RawListing, MemorySpec, TotalCost, ShippingUsed, NoAmount
  <2>4. SamplePerGb[a] = EurPerGb(cost, total)
    BY <2>1, <2>3 DEF SamplePerGb
  <2> HIDE DEF cost, total
  <2>5. cost * PerGbScale \in Nat
    BY <2>3, DealsAssumption
  <2>6. EurPerGb(cost, total) \in Nat
    BY <2>3, <2>5, HalfUpType DEF EurPerGb
  <2>7. QED
    BY <2>4, <2>6
<1>3. QED
  BY <1>1, <1>2

(* The medians on record are amounts.                                      *)
StatsOK ==
    /\ DOMAIN stats = Buckets
    /\ \A b \in Buckets : stats[b] # NoRow => stats[b].p50 \in Int

MarketInv == OffersOK /\ StatsOK

LEMMA InitMarketInv == Init => MarketInv
BY DEF Init, MarketInv, OffersOK, StatsOK

LEMMA StepMarketInv == MarketInv /\ [Next]_marketVars => MarketInv'
<1> SUFFICES ASSUME MarketInv, [Next]_marketVars
             PROVE  StatsOK'
  BY StepOffersOK DEF MarketInv
<1>1. CASE Refresh
  <2>1. ASSUME NEW b \in Buckets, SampleOf(b) # {}
        PROVE  StatsRow(b).p50 \in Int
    <3>1. Percentile(SampleOf(b), SamplePerGb, 2) \in Int
      BY <2>1, SampleIs, PercentilesOrdered, 2 \in 1..3 DEF MarketInv
    <3>2. QED
      BY <3>1 DEF StatsRow
  <2>2. QED
    BY <1>1, <2>1 DEF Refresh, MarketInv, StatsOK
<1>2. CASE UNCHANGED stats
  BY <1>2 DEF MarketInv, StatsOK
<1>3. QED
  BY <1>1, <1>2 DEF Next, Observe, Reprice, Respec, Age, marketVars

(* Rounding and interpolation keep the quartiles of every row in order and *)
(* within what was sampled, and no row is written without a sample.        *)
THEOREM QuartilesAlwaysOrdered == Spec => QuartilesOrdered
<1> DEFINE Ordered(b, row) ==
               /\ row.n > 0
               /\ \E lo, hi \in SampleOf(b) :
                      /\ \A a \in SampleOf(b) :
                             SamplePerGb[lo] <= SamplePerGb[a]
                                 /\ SamplePerGb[a] <= SamplePerGb[hi]
                      /\ SamplePerGb[lo] <= row.p25 /\ row.p25 <= row.p50
                      /\ row.p50 <= row.p75 /\ row.p75 <= SamplePerGb[hi]
<1>1. ASSUME MarketInv, NEW b \in Buckets, SampleOf(b) # {}
      PROVE  Ordered(b, StatsRow(b))
  <2> DEFINE S == SampleOf(b)
             val == SamplePerGb
             n == Cardinality(S)
             least == OrderStatistic(S, val, 0)
             largest == OrderStatistic(S, val, n - 1)
  <2>1. IsFiniteSet(S) /\ S # {} /\ \A a \in S : val[a] \in Int
    BY <1>1, SampleIs DEF MarketInv
  <2> HIDE DEF S, val
  <2>2. n \in Nat /\ n - 1 \in Nat /\ 0 < n /\ n - 1 < n
    BY <2>1, FS_CardinalityType, OrderStatisticBounds
  <2>3. \A a \in S : least <= val[a] /\ val[a] <= largest
    BY <2>1, OrderStatisticBounds
  <2>4. /\ least <= Percentile(S, val, 1) /\ Percentile(S, val, 1) <= Percentile(S, val, 2)
        /\ Percentile(S, val, 2) <= Percentile(S, val, 3) /\ Percentile(S, val, 3) <= largest
    BY <2>1, PercentilesOrdered
  <2>5. (\E lo \in S : least = val[lo]) /\ (\E hi \in S : largest = val[hi])
    <3>1. AtRank(S, val, 0, least) /\ AtRank(S, val, n - 1, largest)
      BY <2>1, <2>2, OrderStatisticIs
    <3>2. QED
      BY <3>1 DEF AtRank
  <2>6. PICK lo \in S, hi \in S : least = val[lo] /\ largest = val[hi]
    BY <2>5
  <2> HIDE DEF least, largest
  <2>7. /\ \A a \in S : val[lo] <= val[a] /\ val[a] <= val[hi]
        /\ val[lo] <= Percentile(S, val, 1) /\ Percentile(S, val, 3) <= val[hi]
    BY <2>3, <2>4, <2>6
  <2>8. /\ StatsRow(b).n = n
        /\ StatsRow(b).p25 = Percentile(S, val, 1) /\ StatsRow(b).p50 = Percentile(S, val, 2)
        /\ StatsRow(b).p75 = Percentile(S, val, 3)
    BY DEF StatsRow, S, val
  <2> HIDE DEF n
  <2>9. QED
    BY <2>2, <2>4, <2>6, <2>7, <2>8 DEF S, val
<1>2. MarketInv /\ [Next]_marketVars =>
          [\A b \in Buckets : stats'[b] # stats[b] => Ordered(b, stats'[b])]_marketVars
  <2> SUFFICES ASSUME MarketInv, Next, NEW b \in Buckets, stats'[b] # stats[b]
               PROVE  Ordered(b, stats'[b])
    OBVIOUS
  <2>1. Refresh
    BY DEF Next, Observe, Reprice, Respec, Age
  <2>2. SampleOf(b) # {} /\ stats'[b] = StatsRow(b)
    BY <2>1 DEF Refresh
  <2> HIDE DEF Ordered
  <2>3. QED
    BY <1>1, <2>2
<1>3. Spec => [][\A b \in Buckets : stats'[b] # stats[b] => Ordered(b, stats'[b])]_marketVars
  <2> HIDE DEF Ordered
  <2>1. QED
    BY <1>2, InitMarketInv, StepMarketInv, PTL DEF Spec
<1>4. QED
  BY <1>3 DEF QuartilesOrdered

-----------------------------------------------------------------------------
(* Of finitely many values one is the smallest.                            *)
LEMMA Smallest ==
  ASSUME NEW S, IsFiniteSet(S), S # {}, NEW val, \A a \in S : val[a] \in Int
  PROVE  \E m \in S : \A a \in S : val[m] <= val[a]
<1> DEFINE opposite == [a \in S |-> -val[a]]
<1>1. \A a \in S : opposite[a] \in Int
  OBVIOUS
<1>2. PICK m \in S : \A a \in S : opposite[a] <= opposite[m]
  <2> HIDE DEF opposite
  <2>1. QED
    BY <1>1, Largest
<1>3. QED
  BY <1>2

(* There is a nearest bucket, so a reference is one of the medians, or     *)
(* none.                                                                   *)
LEMMA ReferenceIsAmount ==
  ASSUME NEW index, IsFiniteSet(DOMAIN index), DOMAIN index \subseteq Nat,
         \A b \in DOMAIN index : index[b] \in Int, NEW cap \in Nat
  PROVE  ReferenceFor(cap, index) \in Int
<1> DEFINE Gap(b) == IF b < cap THEN cap - b ELSE b - cap
           gaps == [b \in DOMAIN index |-> Gap(b)]
           Near(b) == \A c \in DOMAIN index :
                          \/ Gap(b) < Gap(c)
                          \/ Gap(b) = Gap(c) /\ b <= c
<1>1. CASE DOMAIN index = {}
  BY <1>1 DEF ReferenceFor, NoAmount
<1>2. CASE DOMAIN index # {}
  <2>1. \A b \in DOMAIN index : gaps[b] \in Int /\ gaps[b] = Gap(b) /\ Gap(b) \in Int
    OBVIOUS
  <2>2. PICK g \in DOMAIN index : \A c \in DOMAIN index : gaps[g] <= gaps[c]
    <3> HIDE DEF gaps, Gap
    <3>1. QED
      BY <1>2, <2>1, Smallest
  <2> DEFINE nearest == {b \in DOMAIN index : Gap(b) = Gap(g)}
             itself == [b \in nearest |-> b]
  <2>3. IsFiniteSet(nearest) /\ nearest # {} /\ \A b \in nearest : itself[b] \in Int
    <3>1. nearest \in SUBSET DOMAIN index
      OBVIOUS
    <3>2. IsFiniteSet(nearest)
      BY <3>1, FS_Subset
    <3>3. QED
      BY <3>2
  <2>4. PICK b \in nearest : \A c \in nearest : itself[b] <= itself[c]
    <3> HIDE DEF itself, nearest
    <3>1. QED
      BY <2>3, Smallest
  <2>5. Near(b)
    <3> SUFFICES ASSUME NEW c \in DOMAIN index
                 PROVE  Gap(b) < Gap(c) \/ (Gap(b) = Gap(c) /\ b <= c)
      OBVIOUS
    <3>1. Gap(b) = Gap(g) /\ Gap(g) <= Gap(c)
      BY <2>1, <2>2, <2>4
    <3>2. Gap(c) = Gap(g) => b <= c
      BY <2>4
    <3> HIDE DEF Gap
    <3>3. QED
      BY <2>1, <3>1, <3>2
  <2>6. ReferenceFor(cap, index) = index[CHOOSE d \in DOMAIN index : Near(d)]
    BY <1>2 DEF ReferenceFor
  <2>7. (CHOOSE d \in DOMAIN index : Near(d)) \in DOMAIN index
    <3> HIDE DEF Near
    <3>1. QED
      BY <2>4, <2>5
  <2> HIDE DEF Near
  <2>8. QED
    BY <2>6, <2>7
<1>3. QED
  BY <1>1, <1>2

(* A lower price in its currency is no higher per gigabyte.                *)
LEMMA CheaperPerGb ==
  ASSUME NEW l \in RawListing, NEW s \in MemorySpec, Convertible(l.currency), s.total > 0,
         NEW price \in Nat, price <= l.price
  PROVE  LET cheaper == [l EXCEPT !.price = price]
         IN  /\ ListingPerGb(cheaper, s) \in Nat /\ ListingPerGb(l, s) \in Nat
             /\ ListingPerGb(cheaper, s) <= ListingPerGb(l, s)
<1> DEFINE cheaper == [l EXCEPT !.price = price]
           Cost(m) == TotalCost(PriceEur(m, s), ShippingEur(m))
           modules == IF s.basis = "unit" /\ s.count > 1 THEN s.count ELSE 1
           eur == ToEur(l.price, l.currency)
           less == ToEur(price, l.currency)
<1>1. /\ cheaper \in RawListing /\ cheaper.currency = l.currency
      /\ cheaper.shipping = l.shipping /\ cheaper.price = price /\ l.price \in Nat
  BY DEF RawListing
<1>2. less \in Nat /\ eur \in Nat /\ modules \in Nat
  BY <1>1, ToEurType DEF MemorySpec
<1>3. less <= eur
  <2>1. CASE l.currency = "EUR"
    BY <2>1 DEF ToEur
  <2>2. CASE l.currency # "EUR"
    <3> DEFINE rate == RatePct[l.currency]
    <3>1. rate \in Nat
      BY <2>2, DealsAssumption DEF Convertible
    <3> HIDE DEF rate
    <3>2. price * rate \in Nat /\ l.price * rate \in Nat /\ price * rate <= l.price * rate
      BY <1>1, <3>1
    <3>3. HalfUp(price * rate, 100) <= HalfUp(l.price * rate, 100)
      BY <3>2, HalfUpMonotone
    <3>4. QED
      BY <2>2, <3>3 DEF ToEur, rate
  <2>3. QED
    BY <2>1, <2>2
<1>4. PriceEur(cheaper, s) = less * modules /\ PriceEur(l, s) = eur * modules
  BY <1>1 DEF PriceEur
<1>5. ShippingEur(cheaper) = ShippingEur(l)
  BY <1>1 DEF ShippingEur
<1> HIDE DEF less, eur, modules, cheaper
<1>6. less * modules \in Nat /\ eur * modules \in Nat /\ less * modules <= eur * modules
  BY <1>2, <1>3
<1>7. Cost(cheaper) \in Nat /\ Cost(l) \in Nat /\ Cost(cheaper) <= Cost(l)
  <2>1. ShippingUsed(ShippingEur(l)) \in Nat
    BY CostType
  <2>2. QED
    BY <1>4, <1>5, <1>6, <2>1 DEF TotalCost
<1> HIDE DEF Cost
<1>8. /\ Cost(cheaper) * PerGbScale \in Nat /\ Cost(l) * PerGbScale \in Nat
      /\ Cost(cheaper) * PerGbScale <= Cost(l) * PerGbScale
  BY <1>7, DealsAssumption
<1>9. s.total \in Nat \ {0}
  BY DEF MemorySpec
<1>10. QED
  BY <1>8, <1>9, HalfUpType, HalfUpMonotone DEF ListingPerGb, EurPerGb, Cost, cheaper

(* What is under a barrier stays under it for less.                        *)
LEMMA BarriersAreMonotone ==
  ASSUME NEW perGb \in Nat, NEW less \in Nat, less <= perGb, NEW ref \in Int,
         BelowRelativeBarrier(perGb, ref)
  PROVE  BelowRelativeBarrier(less, ref)
<1>1. MinDiscountPct * ref \in Int
  BY DealsAssumption
<1>2. QED
  BY <1>1 DEF BelowRelativeBarrier

(* A fixed price that falls keeps the alert, unless it is implausible.     *)
LEMMA CheaperVerdict ==
  ASSUME NEW l \in RawListing, NEW s \in MemorySpec, NEW index, NEW observation,
         ReferenceFor(IF s.cap > 0 THEN s.cap ELSE s.total, index) \in Int,
         EvaluateDetailed(l, s, index, observation).kind = "deal", l.sale = "fixed",
         NEW price \in Nat, price <= l.price
  PROVE  EvaluateDetailed([l EXCEPT !.price = price], s, index, observation).kind
             \in {"deal", "llm"}
<1> DEFINE cheaper == [l EXCEPT !.price = price]
           ref == ReferenceFor(IF s.cap > 0 THEN s.cap ELSE s.total, index)
<1>1. \A reason : Refused(reason).kind # "deal"
  BY DEF Refused
<1>2. Convertible(l.currency) /\ s.total > 0 /\ ListingPerGb(l, s) < HardCeiling
  BY DealPassedBarrier
<1>3. /\ s.reject = "none" /\ ~(s.basis = "unknown" /\ ~s.llm) /\ ~(s.total <= 0)
      /\ ~(s.total < MinTotalGb)
      /\ observation \/ BelowRelativeBarrier(ListingPerGb(l, s), ref)
  BY <1>1, <1>2 DEF EvaluateDetailed
<1>4. cheaper.currency = l.currency /\ cheaper.sale = "fixed"
  BY DEF RawListing
<1>5. /\ ListingPerGb(cheaper, s) \in Nat /\ ListingPerGb(l, s) \in Nat
      /\ ListingPerGb(cheaper, s) <= ListingPerGb(l, s)
  BY <1>2, CheaperPerGb
<1> HIDE DEF cheaper, ref
<1>6. ~(ListingPerGb(cheaper, s) >= HardCeiling)
  BY <1>2, <1>5, DealsAssumption
<1>7. observation \/ BelowRelativeBarrier(ListingPerGb(cheaper, s), ref)
  BY <1>3, <1>5, BarriersAreMonotone DEF ref
<1>8. DealOf(cheaper, s, "immediate").kind = "deal"
  BY DEF DealOf
<1>9. EvaluateDetailed(cheaper, s, index, observation)
          \in {[kind |-> "llm"], DealOf(cheaper, s, "immediate")}
  BY <1>2, <1>3, <1>4, <1>6, <1>7 DEF EvaluateDetailed, ref
<1>10. QED
  BY <1>8, <1>9 DEF cheaper

(* No row is taken away.                                                   *)
LEMMA RowsStay ==
  ASSUME OffersOK, Next, NEW a \in Ads, offers[a] # NoRow
  PROVE  offers'[a] \in [listing : RawListing, spec : MemorySpec, age : Nat]
<1> DEFINE Offer == [listing : RawListing, spec : MemorySpec, age : Nat]
<1>1. offers[a] \in Offer /\ DOMAIN offers = Ads
  BY DEF OffersOK
<1>2. CASE Refresh
  BY <1>1, <1>2 DEF Refresh
<1>3. ASSUME NEW b \in Ads, b # a, Observe(b) \/ Reprice(b) \/ Respec(b) \/ Age(b)
      PROVE  offers'[a] \in Offer
  BY <1>1, <1>3 DEF Observe, Reprice, Respec, Age
<1>4. CASE Reprice(a)
  <2>1. PICK l \in Listings, s \in Specs :
            offers' = [offers EXCEPT ![a].listing = l, ![a].spec = s]
    BY <1>4 DEF Reprice
  <2>2. offers'[a] = [offers[a] EXCEPT !.listing = l, !.spec = s]
    BY <1>1, <2>1
  <2>3. QED
    BY <1>1, <2>2, MarketAssumption
<1>5. CASE Respec(a)
  <2>1. PICK s \in Specs : offers' = [offers EXCEPT ![a].spec = s]
    BY <1>5 DEF Respec
  <2>2. offers'[a] = [offers[a] EXCEPT !.spec = s]
    BY <1>1, <2>1
  <2>3. QED
    BY <1>1, <2>2, MarketAssumption
<1>6. CASE Age(a)
  <2>1. offers'[a] = [offers[a] EXCEPT !.age = @ + 1]
    BY <1>1, <1>6 DEF Age
  <2>2. QED
    BY <1>1, <2>1
<1>7. ~Observe(a)
  BY DEF Observe
<1>8. QED
  BY <1>2, <1>3, <1>4, <1>5, <1>6, <1>7 DEF Next

(* A fixed price that falls never loses a deal, unless it falls under the  *)
(* plausibility floor, on any history of offers and indexes.               *)
THEOREM CheaperIsStillADeal == Spec => CheaperStaysADeal
<1> DEFINE Falls(a, price) ==
               /\ DealOn(a) /\ offers[a].listing.sale = "fixed"
               /\ price < offers[a].listing.price
               /\ offers'[a] = [offers[a] EXCEPT !.listing.price = price]
           Kept == \A a \in Offered :
                       LET price == offers'[a].listing.price
                       IN  DealOn(a) /\ offers[a].listing.sale = "fixed"
                               /\ price < offers[a].listing.price
                               /\ offers'[a] = [offers[a] EXCEPT !.listing.price = price] =>
                                   DealOn(a)' \/ VerdictOn(a)'.kind = "llm"
<1>1. ASSUME MarketInv, Next, NEW a \in Offered, Falls(a, offers'[a].listing.price)
      PROVE  DealOn(a)' \/ VerdictOn(a)'.kind = "llm"
  <2> DEFINE price == offers'[a].listing.price
             l == offers[a].listing
             s == offers[a].spec
             cap == IF s.cap > 0 THEN s.cap ELSE s.total
  <2>1. /\ a \in Ads /\ offers[a] # NoRow
        /\ offers[a] \in [listing : RawListing, spec : MemorySpec, age : Nat]
        /\ l \in RawListing /\ s \in MemorySpec
    BY <1>1 DEF Offered, MarketInv, OffersOK
  <2>2. price \in Nat /\ l.price \in Nat
    BY <1>1, <2>1, RowsStay DEF MarketInv, RawListing
  <2>3. offers'[a].listing = [l EXCEPT !.price = price] /\ offers'[a].spec = s
    BY <1>1, <2>1
  <2>4. UNCHANGED stats
    <3>1. ~Refresh
      BY <1>1, <2>2 DEF Refresh
    <3>2. QED
      BY <1>1, <3>1 DEF Next, Observe, Reprice, Respec, Age
  <2>5. LatestIndex' = LatestIndex /\ InObservationMode' = InObservationMode
    BY <2>4 DEF LatestIndex, Persisted, InObservationMode, LatestSampleSize
  <2>6. /\ IsFiniteSet(DOMAIN LatestIndex) /\ DOMAIN LatestIndex \subseteq Nat
        /\ \A b \in DOMAIN LatestIndex : LatestIndex[b] \in Int
    <3>1. DOMAIN LatestIndex \in SUBSET Buckets
      BY DEF LatestIndex, Persisted
    <3>2. IsFiniteSet(DOMAIN LatestIndex)
      BY <3>1, FS_Subset, MarketAssumption
    <3>3. \A b \in DOMAIN LatestIndex : LatestIndex[b] = stats[b].p50 /\ stats[b] # NoRow
      BY DEF LatestIndex, Persisted
    <3>4. QED
      BY <1>1, <3>1, <3>2, <3>3, MarketAssumption DEF MarketInv, StatsOK
  <2>7. ReferenceFor(cap, LatestIndex) \in Int
    <3>1. cap \in Nat
      BY <2>1 DEF MemorySpec
    <3> HIDE DEF cap
    <3>2. QED
      BY <2>6, <3>1, ReferenceIsAmount
  <2>8. EvaluateDetailed(l, s, LatestIndex, InObservationMode).kind = "deal"
    BY <1>1 DEF DealOn, VerdictOn
  <2>9. EvaluateDetailed([l EXCEPT !.price = price], s, LatestIndex, InObservationMode).kind
            \in {"deal", "llm"}
    BY <1>1, <2>1, <2>2, <2>7, <2>8, CheaperVerdict
  <2>10. VerdictOn(a)' = EvaluateDetailed([l EXCEPT !.price = price], s, LatestIndex,
                                          InObservationMode)
    BY <2>3, <2>5 DEF VerdictOn
  <2>11. QED
    BY <2>9, <2>10 DEF DealOn
<1>2. MarketInv /\ [Next]_marketVars => [Kept]_marketVars
  <2> SUFFICES ASSUME MarketInv, Next
               PROVE  Kept
    OBVIOUS
  <2>1. QED
    BY <1>1
<1>3. Spec => [][Kept]_marketVars
  <2> HIDE DEF Kept
  <2>1. QED
    BY <1>2, InitMarketInv, StepMarketInv, PTL DEF Spec
<1>4. QED
  BY <1>3 DEF CheaperStaysADeal

=============================================================================
