----------------------------- MODULE RulesProofs -----------------------------
(***************************************************************************)
(* What the pure part of the program guarantees, for every listing, text,  *)
(* index and configuration.  Of a verdict: an alert is under the absolute  *)
(* barrier in exact arithmetic (DealIsUnderBarrier) and of the type the    *)
(* pipeline relies on (VerdictType).  Of the reading of a text: the spec   *)
(* is one a verdict can work with (RulesType), and if the text is true of  *)
(* what is sold, so is what is read of it (CountIsReal, CapacityIsReal,    *)
(* TotalIsReal, BoundIsEnough, NoHardReject).  Largest, which has no place *)
(* of its own, is used about samples and about alerts.                     *)
(***************************************************************************)
EXTENDS Wares, FiniteSetTheorems, WellFoundedInduction, TLAPS

(* A product grows with its factors.                                       *)
LEMMA TimesGrows ==
  ASSUME NEW k \in Nat, NEW a \in Nat, NEW b \in Nat, a <= b
  PROVE  k * a \in Nat /\ k * b \in Nat /\ k * a <= k * b
<1>1. PICK c \in Nat : b = a + c
  BY b = a + (b - a), b - a \in Nat
<1>2. k * b = k * a + k * c /\ k * a \in Nat /\ k * c \in Nat
  BY <1>1
<1>3. QED
  BY <1>2

(* Rounding a nonnegative quotient half up gives a natural number.         *)
LEMMA HalfUpType ==
  ASSUME NEW n \in Nat, NEW d \in Nat \ {0}
  PROVE  HalfUp(n, d) \in Nat
BY DEF HalfUp

(* A quotient rounded half up is under a bound only if it is under it.     *)
LEMMA HalfUpUnder ==
  ASSUME NEW n \in Nat, NEW d \in Nat \ {0}, NEW bound \in Nat,
         HalfUp(n, d) < bound
  PROVE  n < bound * d
<1>1. PICK q \in Nat : q = HalfUp(n, d)
  BY HalfUpType
<1>2. 2 * n + d < (q + 1) * (2 * d)
  BY <1>1 DEF HalfUp
<1>3. (q + 1) * d <= bound * d
  <2>1. q + 1 <= bound  BY <1>1
  <2>2. PICK k \in Nat : bound = q + 1 + k
    BY <2>1, bound = q + 1 + (bound - (q + 1)), bound - (q + 1) \in Nat
  <2>3. k * d \in Nat  OBVIOUS
  <2>4. bound * d = (q + 1) * d + k * d  BY <2>2
  <2>5. QED  BY <2>3, <2>4
<1>4. QED
  BY <1>2, <1>3

(* Rounding half up keeps the order.                                       *)
LEMMA HalfUpMonotone ==
  ASSUME NEW m \in Nat, NEW n \in Nat, NEW d \in Nat \ {0}, m <= n
  PROVE  HalfUp(m, d) <= HalfUp(n, d)
BY DEF HalfUp

(* Rounding half to even gives an integer, of either sign.                 *)
LEMMA HalfEvenType ==
  ASSUME NEW n \in Int, NEW d \in Nat \ {0}
  PROVE  HalfEven(n, d) \in Int
<1>1. n \div d \in Int
  OBVIOUS
<1>2. QED
  BY <1>1 DEF HalfEven

(* An amount in a currency with a rate converts to a natural number.       *)
LEMMA ToEurType ==
  ASSUME NEW amount \in Nat, NEW c, Convertible(c)
  PROVE  ToEur(amount, c) \in Nat
<1>1. CASE c = "EUR"
  BY <1>1 DEF ToEur
<1>2. CASE c # "EUR"
  <2>1. amount * RatePct[c] \in Nat
    BY <1>2, DealsAssumption DEF Convertible
  <2>2. QED
    BY <2>1, <1>2, HalfUpType DEF ToEur
<1>3. QED
  BY <1>1, <1>2

(* The exchange rate is there whenever a verdict compares prices.          *)
LEMMA CostType ==
  ASSUME NEW l \in RawListing, NEW s \in MemorySpec, Convertible(l.currency)
  PROVE  /\ PriceEur(l, s) \in Nat
         /\ ShippingEur(l) \in Nat \cup {NoAmount}
         /\ ShippingUsed(ShippingEur(l)) \in Nat
         /\ TotalCost(PriceEur(l, s), ShippingEur(l)) \in Nat
<1>1. PriceEur(l, s) \in Nat
  <2>1. ToEur(l.price, l.currency) \in Nat
    BY ToEurType DEF RawListing
  <2>2. s.count \in Nat
    BY DEF MemorySpec
  <2>3. QED
    BY <2>1, <2>2 DEF PriceEur
<1>2. ShippingEur(l) \in Nat \cup {NoAmount}
  <2>1. CASE l.shipping = NoAmount
    BY <2>1 DEF ShippingEur
  <2>2. CASE l.shipping # NoAmount
    <3>1. l.shipping \in Nat
      BY <2>2 DEF RawListing
    <3>2. QED
      BY <3>1, <2>2, ToEurType DEF ShippingEur
  <2>3. QED
    BY <2>1, <2>2
<1>3. ShippingUsed(ShippingEur(l)) \in Nat
  BY <1>2, DealsAssumption DEF ShippingUsed
<1>4. QED
  BY <1>1, <1>2, <1>3 DEF TotalCost

(* An alert comes out of the rules only where a price could be computed    *)
(* and was under the absolute barrier, after rounding.                     *)
LEMMA DealPassedBarrier ==
  ASSUME NEW l \in RawListing, NEW s \in MemorySpec, NEW index, NEW observation,
         EvaluateDetailed(l, s, index, observation).kind = "deal"
  PROVE  /\ Convertible(l.currency) /\ s.total > 0
         /\ ListingPerGb(l, s) < HardCeiling
         /\ \E urgency \in {"immediate", "quiet"} :
                EvaluateDetailed(l, s, index, observation) = DealOf(l, s, urgency)
<1> DEFINE verdict == EvaluateDetailed(l, s, index, observation)
<1>1. \A reason : Refused(reason).kind # "deal"
  BY DEF Refused
<1>2. AuctionVerdict(l, s).kind = "deal" => AuctionVerdict(l, s) = DealOf(l, s, "quiet")
  BY <1>1 DEF AuctionVerdict
<1>3. Convertible(l.currency) /\ s.total > 0
  BY <1>1 DEF EvaluateDetailed, MemorySpec
<1>4. ~(ListingPerGb(l, s) >= HardCeiling)
  BY <1>1, <1>3 DEF EvaluateDetailed
<1>5. ListingPerGb(l, s) \in Nat
  BY <1>3, CostType, HalfUpType, DealsAssumption DEF ListingPerGb, EurPerGb, MemorySpec
<1>6. verdict \in {AuctionVerdict(l, s), DealOf(l, s, "immediate")}
  BY <1>1 DEF EvaluateDetailed
<1>7. QED
  BY <1>2, <1>3, <1>4, <1>5, <1>6, DealsAssumption

(* What is alerted is strictly under the absolute barrier in exact         *)
(* arithmetic, whatever the roundings did on the way.                      *)
THEOREM DealIsUnderBarrier ==
  ASSUME NEW l \in RawListing, NEW s \in MemorySpec, NEW index, NEW observation,
         EvaluateDetailed(l, s, index, observation).kind = "deal"
  PROVE  TotalCost(PriceEur(l, s), ShippingEur(l)) * PerGbScale < HardCeiling * s.total
<1> DEFINE cost == TotalCost(PriceEur(l, s), ShippingEur(l))
<1>1. Convertible(l.currency) /\ s.total \in Nat \ {0} /\ ListingPerGb(l, s) < HardCeiling
  BY DealPassedBarrier DEF MemorySpec
<1>2. cost \in Nat
  BY <1>1, CostType
<1>3. cost * PerGbScale \in Nat /\ HardCeiling \in Nat
  BY <1>2, DealsAssumption
<1>4. HalfUp(cost * PerGbScale, s.total) < HardCeiling
  BY <1>1 DEF ListingPerGb, EurPerGb
<1>5. QED
  BY <1>1, <1>3, <1>4, HalfUpUnder

(* The fingerprint, urgency and max_bid of an alert are of their types.    *)
LEMMA VerdictType ==
  ASSUME NEW l \in RawListing, NEW s \in MemorySpec, NEW index, NEW observation,
         EvaluateDetailed(l, s, index, observation).kind = "deal"
  PROVE  EvaluateDetailed(l, s, index, observation) \in Deal
<1>1. Convertible(l.currency)
  BY DealPassedBarrier
<1>2. PICK urgency \in {"immediate", "quiet"} :
          EvaluateDetailed(l, s, index, observation) = DealOf(l, s, urgency)
  BY DealPassedBarrier
<1>3. Fingerprint(l.seller, s, PriceEur(l, s)) \in Fingerprints
  <2>1. PriceEur(l, s) \div FpBucket \in Nat
    BY <1>1, CostType, DealsAssumption
  <2>2. QED
    BY <2>1 DEF Fingerprint, Fingerprints, RawListing, MemorySpec
<1>4. MaxBid(s.total, ShippingUsed(ShippingEur(l))) \in Int
  <2>1. ShippingUsed(ShippingEur(l)) \in Nat /\ s.total \in Nat
    BY <1>1, CostType DEF MemorySpec
  <2>2. HardCeiling * s.total - PerGbScale * ShippingUsed(ShippingEur(l)) \in Int
    BY <2>1, DealsAssumption
  <2>3. QED
    BY <2>2, HalfEvenType, DealsAssumption DEF MaxBid
<1>5. QED
  BY <1>2, <1>3, <1>4 DEF DealOf, Deal, NoAmount

(* Of finitely many values one is the largest.                             *)
LEMMA Largest ==
  ASSUME NEW S, IsFiniteSet(S), S # {}, NEW val, \A a \in S : val[a] \in Int
  PROVE  \E m \in S : \A a \in S : val[a] <= val[m]
<1> DEFINE Above(b) == {a \in S : val[a] > val[b]}
           Aboves == {Above(b) : b \in S}
<1>1. Aboves \subseteq FiniteSubsetsOf(S) /\ Aboves # {}
  <2>1. \A b \in S : Above(b) \in SUBSET S
    OBVIOUS
  <2>2. \A b \in S : IsFiniteSet(Above(b))
    BY <2>1, FS_Subset
  <2>3. QED
    BY <2>1, <2>2 DEF FiniteSubsetsOf
<1>2. PICK T \in Aboves : \A U \in Aboves : << U, T >> \notin StrictSubsetOrdering(S)
  <2> HIDE DEF Aboves
  <2>1. QED
    BY <1>1, FS_StrictSubsetOrderingWellFounded, WFMin
<1>3. PICK m \in S : T = Above(m)
  BY <1>2
<1>4. Above(m) = {}
  <2> SUFFICES ASSUME NEW c \in Above(m) PROVE FALSE
    OBVIOUS
  <2>1. Above(c) \subseteq Above(m) /\ c \notin Above(c)
    OBVIOUS
  <2>2. << Above(c), Above(m) >> \in StrictSubsetOrdering(S)
    BY <2>1 DEF StrictSubsetOrdering
  <2>3. QED
    BY <1>2, <1>3, <2>2
<1>5. QED
  BY <1>4

-----------------------------------------------------------------------------
(* Every phrase with a number has that of the lot, every one with a        *)
(* capacity that of a module or of the lot.                                *)
LEMMA PhraseFacts ==
  ASSUME NEW l \in Lot, NEW p \in Phrases(l)
  PROVE  /\ p.says \in Counting => p.n = l.count
         /\ p.says \in {"size", "nxm", "paren"} => p.gb = l.gb
         /\ p.says \in {"sum", "total"} => p.gb = l.count * l.gb
         /\ p.says \in {"part", "partUdimm"} => p.gb \in {0, l.gb}
<1>1. CASE p \in CountPhrases(l)
  BY <1>1 DEF CountPhrases, Phrase, Counting
<1>2. CASE p \in SizePhrases(l)
  BY <1>2 DEF SizePhrases, Phrase, Counting
<1>3. CASE p \in OtherPhrases(l)
  BY <1>3 DEF OtherPhrases, Phrase, Counting
<1>4. QED
  BY <1>1, <1>2, <1>3 DEF Phrases

(* A number is spelt out only where the grammar knows the word.            *)
LEMMA WordsAreKnown ==
  ASSUME NEW l \in Lot, NEW p \in Phrases(l), p.says = "word"
  PROVE  p.n \in WordCounts
<1>1. p \notin SizePhrases(l)
  BY DEF SizePhrases, Phrase
<1>2. p \notin OtherPhrases(l)
  BY DEF OtherPhrases, Phrase
<1>3. CASE p \in CountPhrases(l)
  BY <1>3 DEF CountPhrases, Phrase
<1>4. QED
  BY <1>1, <1>2, <1>3 DEF Phrases

LEMMA LotFacts ==
  ASSUME NEW l \in Lot
  PROVE  /\ l.count \in 1..16 /\ l.gb \in Nat /\ l.gb >= 4 /\ l.each \in BOOLEAN
         /\ l.count * l.gb \in Nat /\ l.count * l.gb >= l.gb
<1>1. l.count \in 1..16 /\ l.gb \in Nat /\ l.gb >= 4 /\ l.each \in BOOLEAN
  BY WaresAssumption DEF Lot, GenerousCountCeiling
<1>2. \A c \in 1..16, g \in Nat : c * g \in Nat /\ c * g >= g
  BY SMT
<1>3. QED
  BY <1>1, <1>2

(* The count is the number of a phrase that counts, or one.                *)
LEMMA CountIsRead ==
  ASSUME NEW w
  PROVE  IF CountExplicit(w) THEN \E p \in w : p.says \in Counting /\ ModuleCount(w) = p.n
         ELSE ModuleCount(w) = 1
<1>1. CASE Decomposed(w) # {}
  <2>1. The(Decomposed(w)) \in Decomposed(w)
    BY <1>1 DEF The
  <2>2. \A p \in Decomposed(w) : p \in w /\ p.says \in Counting
    BY DEF Decomposed, NxM, Of, Counting
  <2>3. QED
    BY <1>1, <2>1, <2>2 DEF ModuleCount, CountExplicit
<1>2. CASE Decomposed(w) = {} /\ Multiplied(w) # {}
  <2> DEFINE i == Min(Multiplied(w))
  <2>1. DOMAIN MultiplierPatterns = 1..6
    BY DEF MultiplierPatterns
  <2>2. Multiplied(w) \subseteq 1..6
    BY <2>1 DEF Multiplied
  <2>3. \E x \in Multiplied(w) : \A y \in Multiplied(w) : x =< y
    <3>1. PICK x \in Multiplied(w) : TRUE
      BY <1>2
    <3>2. QED
      BY <2>2, <3>1
  <2>4. i \in Multiplied(w)
    BY <2>3 DEF Min
  <2>5. \E p \in Of(w, MultiplierPatterns[i]) : TRUE
    BY <2>4 DEF Multiplied
  <2>6. The(Of(w, MultiplierPatterns[i])) \in Of(w, MultiplierPatterns[i])
    BY <2>5 DEF The
  <2>7. MultiplierPatterns[i] \subseteq Counting
    BY <2>2, <2>4 DEF MultiplierPatterns, Counting
  <2>8. \A p \in Of(w, MultiplierPatterns[i]) : p \in w /\ p.says \in Counting
    BY <2>7 DEF Of
  <2>9. QED
    BY <1>2, <2>6, <2>8 DEF ModuleCount, CountExplicit
<1>3. CASE Decomposed(w) = {} /\ Multiplied(w) = {}
  BY <1>3 DEF ModuleCount, CountExplicit
<1>4. QED
  BY <1>1, <1>2, <1>3

(* A count that is read at all is that of the lot.                         *)
LEMMA CountIsReal ==
  ASSUME NEW l, NEW w, Truthful(l, w)
  PROVE  ModuleCount(w) = IF CountExplicit(w) THEN l.count ELSE 1
<1>1. \A p \in w : p.says \in Counting => p.n = l.count
  BY PhraseFacts DEF Truthful
<1>2. QED
  BY <1>1, CountIsRead

-----------------------------------------------------------------------------
LEMMA MaxOfOne ==
  ASSUME NEW a \in Int
  PROVE  Max({a}) = a
BY DEF Max

LEMMA MaxOfTwo ==
  ASSUME NEW a \in Int, NEW b \in Int, a < b
  PROVE  Max({a, b}) = b /\ Max({a, b} \ {b}) = a
<1>1. Max({a}) = a
  BY MaxOfOne
<1>2. \E x \in {a, b} : \A y \in {a, b} : x >= y
  OBVIOUS
<1>3. Max({a, b}) \in {a, b} /\ \A y \in {a, b} : Max({a, b}) >= y
  BY <1>2 DEF Max
<1>4. {a, b} \ {b} = {a}
  OBVIOUS
<1>5. QED
  BY <1>1, <1>3, <1>4

LEMMA OneOrTwo ==
  ASSUME NEW a, NEW b, a # b
  PROVE  Cardinality({a}) = 1 /\ Cardinality({a, b}) # 1
<1>1. Cardinality({a}) = 1 /\ IsFiniteSet({a})
  BY FS_Singleton
<1>2. {a} \cup {b} = {a, b} /\ b \notin {a}
  OBVIOUS
<1>3. Cardinality({a} \cup {b}) = Cardinality({a}) + 1
  BY <1>1, <1>2, FS_AddElement
<1>4. QED
  BY <1>1, <1>2, <1>3

(* No size of module the grammar does not know makes a lot of one it does. *)
LEMMA KnownMultiples ==
  ASSUME NEW c \in 1..16, NEW g \in Nat, g >= 4, c * g \in ValidCapacities
  PROVE  g \in ValidCapacities
<1>1. \/ c = 1 \/ c = 2 \/ c = 3 \/ c = 4 \/ c = 5 \/ c = 6 \/ c = 7 \/ c = 8 \/ c = 9
      \/ c = 10 \/ c = 11 \/ c = 12 \/ c = 13 \/ c = 14 \/ c = 15 \/ c = 16
  OBVIOUS
<1>2. QED
  BY <1>1 DEF ValidCapacities

(* Where the size of a module is told, it is read or nothing is.           *)
LEMMA CapacityIsReal ==
  ASSUME NEW l, NEW w, Truthful(l, w), TellsSize(w)
  PROVE  ModuleCapacity(w) \in {0, l.gb}
<1> USE DEF Truthful
<1>1. CASE Decomposed(w) # {}
  <2>1. The(Decomposed(w)) \in Decomposed(w)
    BY <1>1 DEF The
  <2>2. The(Decomposed(w)).gb = l.gb
    BY <2>1, PhraseFacts DEF Decomposed, NxM, Of
  <2>3. QED
    BY <1>1, <2>2 DEF ModuleCapacity
<1>2. CASE Decomposed(w) = {}
  <2> DEFINE g == l.gb
             s == l.count * l.gb
             told == {p.gb : p \in Of(w, BareCapacities)}
             sizes == told \cap ValidCapacities
  <2>1. g \in Nat /\ g >= 4 /\ s \in Nat /\ s >= g /\ l.count \in 1..16
    BY LotFacts
  <2>2. told \subseteq {g, s}
    BY PhraseFacts DEF Of, BareCapacities
  <2>3. g \in told
    <3>1. PICK p \in w : p.says = "size"
      BY <1>2 DEF TellsSize, Says, Of
    <3>2. p \in Of(w, BareCapacities) /\ p.gb = g
      BY <3>1, PhraseFacts DEF Of, BareCapacities
    <3>3. QED
      BY <3>2
  <2>4. ModuleCapacity(w) = BareCapacity(w)
    BY <1>2 DEF ModuleCapacity
  <2>5. CASE g \notin ValidCapacities
    <3>1. s \notin ValidCapacities
      BY <2>1, <2>5, KnownMultiples
    <3>2. sizes = {}
      BY <2>2, <2>5, <3>1
    <3>3. QED
      BY <2>4, <3>2 DEF BareCapacity
  <2>6. CASE sizes = {g}
    <3>1. Cardinality(sizes) = 1 /\ Max(sizes) = g
      <4>1. Max({g}) = g
        BY <2>1, MaxOfOne
      <4>2. Cardinality({g}) = 1
        BY FS_Singleton
      <4> HIDE DEF sizes, g
      <4>3. QED
        BY <2>6, <4>1, <4>2
    <3>2. QED
      BY <2>4, <2>6, <3>1 DEF BareCapacity
  <2>7. CASE sizes = {g, s} /\ g # s
    <3>1. g < s /\ g \in Int /\ s \in Int
      BY <2>1, <2>7
    <3>2. Max(sizes \ {Max(sizes)}) = g /\ Cardinality(sizes) # 1
      <4>1. Max({g, s}) = s /\ Max({g, s} \ {s}) = g
        BY <3>1, MaxOfTwo
      <4>2. Cardinality({g, s}) # 1
        BY <2>7, OneOrTwo
      <4> HIDE DEF sizes, g, s
      <4>3. QED
        BY <2>7, <4>1, <4>2
    <3>3. QED
      BY <2>4, <2>7, <3>2 DEF BareCapacity
  <2>8. g \in ValidCapacities => sizes = {g} \/ (sizes = {g, s} /\ g # s)
    BY <2>2, <2>3
  <2>9. QED
    BY <2>5, <2>6, <2>7, <2>8
<1>3. QED
  BY <1>1, <1>2

(* Without a count and a capacity the confidence stays at 0.75.            *)
LEMMA UnsureWithoutBoth ==
  ASSUME NEW w, ModuleCapacity(w) = 0, ~CountExplicit(w)
  PROVE  Confidence(w) <= 750
BY DEF Confidence

(* What the grammar accepts is coherent.                                   *)
LEMMA AcceptedIsCoherent ==
  ASSUME NEW w, Checked(w) > 750
  PROVE  /\ ModuleCapacity(w) # 0 =>
                ModuleCapacity(w) * ModuleCount(w) = TotalGb(w)
         /\ ModuleCapacity(w) # 0 \/ CountExplicit(w)
<1>1. ModuleCapacity(w) # 0 => ModuleCapacity(w) * ModuleCount(w) = TotalGb(w)
  BY DEF Checked
<1>2. ASSUME ModuleCapacity(w) = 0, ~CountExplicit(w)
      PROVE  FALSE
  <2>1. Confidence(w) <= 750
    BY <1>2, UnsureWithoutBoth
  <2>2. Confidence(w) \in Nat
    BY <1>2 DEF Confidence
  <2>3. Checked(w) \in {700, Confidence(w)}
    BY <1>2 DEF Checked
  <2>4. QED
    BY <2>1, <2>2, <2>3
<1>3. QED
  BY <1>1, <1>2

-----------------------------------------------------------------------------
(* What is accepted of a truthful text is no more than the modules it is   *)
(* read to be about, of the size they are, for any matrix, as long as the  *)
(* confidence asked for is above 0.75.                                     *)
LEMMA TotalIsReal ==
  ASSUME NEW l, NEW w, Truthful(l, w), TellsSize(w), Rules(w).reject = "none"
  PROVE  /\ Rules(w).count = ModuleCount(w) /\ Rules(w).basis = PriceBasis(w)
         /\ Rules(w).total \in Nat /\ Rules(w).total <= l.gb * Rules(w).count
<1> DEFINE c == ModuleCount(w)
<1> USE DEF Truthful
<1>1. /\ l.count \in 1..16 /\ l.gb \in Nat /\ l.gb >= 4
      /\ l.count * l.gb \in Nat /\ l.count * l.gb >= l.gb
  BY LotFacts
<1>2. c = IF CountExplicit(w) THEN l.count ELSE 1
  BY CountIsReal
<1>3. c \in 1..16 /\ l.gb * c \in Nat
  <2>1. \A g \in Nat, n \in 1..16 : g * n \in Nat
    BY SMT
  <2>2. QED
    BY <1>1, <1>2, <2>1
<1>4. /\ Rules(w).count = c /\ Rules(w).basis = PriceBasis(w)
      /\ \/ Decoded(w) # {} /\ Rules(w).total = The(Decoded(w)).gb * c
         \/ Checked(w) >= MinConfidence /\ Rules(w).total = TotalGb(w)
  BY DEF Rules, ByPartNumber, ByGrammar, SpecOf, Incompatible
<1>5. Rules(w).total \in Nat /\ Rules(w).total <= l.gb * c
  <2>1. CASE Decoded(w) # {} /\ Rules(w).total = The(Decoded(w)).gb * c
    <3>1. The(Decoded(w)) \in Decoded(w)
      BY <2>1 DEF The
    <3>2. The(Decoded(w)).gb \in {0, l.gb}
      BY <3>1, PhraseFacts DEF Decoded, Of
    <3>3. QED
      BY <2>1, <3>2, <1>1, <1>3
  <2>2. CASE Checked(w) >= MinConfidence /\ Rules(w).total = TotalGb(w)
    <3>1. Checked(w) > 750
      <4>1. Checked(w) \in Int
        BY DEF Checked, Confidence
      <4>2. QED
        BY <2>2, <4>1, WaresAssumption, ExtractionAssumption
    <3>2. CASE ModuleCapacity(w) # 0
      <4>1. ModuleCapacity(w) = l.gb
        BY <3>2, CapacityIsReal
      <4>2. TotalGb(w) = l.gb * c
        BY <3>1, <3>2, <4>1, AcceptedIsCoherent
      <4>3. QED
        BY <2>2, <4>2, <1>3
    <3>3. CASE ModuleCapacity(w) = 0
      <4>1. c = l.count
        BY <3>1, <3>3, <1>2, AcceptedIsCoherent
      <4>2. TotalGb(w) \in {0, l.count * l.gb}
        <5>1. CASE Declared(w) # {}
          <6>1. The(Declared(w)) \in Declared(w)
            BY <5>1 DEF The
          <6>2. \A p \in Declared(w) : p \in Phrases(l) /\ p.says = "total"
            BY DEF Declared, Of
          <6>3. The(Declared(w)).gb = l.count * l.gb
            BY <6>1, <6>2, PhraseFacts
          <6>4. QED
            BY <5>1, <6>3 DEF TotalGb
        <5>2. CASE Declared(w) = {}
          BY <5>2, <3>3, <1>3 DEF TotalGb
        <5>3. QED
          BY <5>1, <5>2
      <4>3. l.count * l.gb = l.gb * c
        BY <4>1, <1>1
      <4>4. QED
        BY <2>2, <4>2, <4>3, <1>3
    <3>4. QED
      BY <3>2, <3>3
  <2>3. QED
    BY <1>4, <2>1, <2>2
<1>6. QED
  BY <1>4, <1>5

-----------------------------------------------------------------------------
LEMMA MaxIsMember ==
  ASSUME NEW a \in Int, NEW b \in Int, NEW c \in Int, NEW S \in SUBSET {a, b, c}, S # {}
  PROVE  Max(S) \in S
<1>1. \E x \in S : \A y \in S : x >= y
  <2> SUFFICES ASSUME \A x \in S : \E y \in S : ~(x >= y)
               PROVE  FALSE
    OBVIOUS
  <2>1. a \in S \/ b \in S \/ c \in S
    OBVIOUS
  <2>2. a \in S => (b \in S /\ b > a) \/ (c \in S /\ c > a)
    OBVIOUS
  <2>3. b \in S => (a \in S /\ a > b) \/ (c \in S /\ c > b)
    OBVIOUS
  <2>4. c \in S => (a \in S /\ a > c) \/ (b \in S /\ b > c)
    OBVIOUS
  <2>5. QED
    BY <2>1, <2>2, <2>3, <2>4
<1>2. QED
  BY <1>1 DEF Max

(* The count of the bound is never under that of the lot, once the text    *)
(* gives a number, a plural or a price by the piece.                       *)
LEMMA PlausibleIsEnough ==
  ASSUME NEW l, NEW w, Truthful(l, w)
  PROVE  /\ PlausibleCount(w) \in 1..16
         /\ TellsCount(l, w) => PlausibleCount(w) >= l.count
<1> USE DEF Truthful
<1> DEFINE patterns == UNION {MultiplierPatterns[i] : i \in DOMAIN MultiplierPatterns}
           read == Of(w, {"paren"} \cup patterns)
           spelt == {p \in Of(w, {"word"}) : p.n \in WordCounts}
           found == PlausibleCounts(w)
<1>1. l.count \in 1..16
  BY LotFacts
<1>2. patterns = {"lot", "nxm", "have", "sticks", "pieces", "qty", "stock"}
  <2>1. DOMAIN MultiplierPatterns = 1..6
    BY DEF MultiplierPatterns
  <2>2. QED
    BY <2>1 DEF MultiplierPatterns
<1>3. found \subseteq {l.count}
  BY <1>2, PhraseFacts DEF PlausibleCounts, Of, Counting
<1>4. CASE found # {}
  <2>1. found = {l.count}
    BY <1>3, <1>4
  <2>2. Max({l.count}) = l.count
    BY <1>1, MaxOfOne
  <2>3. MaxPlausibleCount(w) = l.count
    BY <1>4, <2>1, <2>2 DEF MaxPlausibleCount
  <2>4. QED
    BY <1>1, <2>3 DEF PlausibleCount, GenerousCountCeiling
<1>5. CASE found = {}
  <2>1. MaxPlausibleCount(w) =
            IF Of(w, PluralContainers) # {} THEN GenerousCountCeiling ELSE 1
    BY <1>5 DEF MaxPlausibleCount
  <2>2. CASE Of(w, UnitMarkers \cup PluralContainers) # {}
    <3>1. PlausibleCount(w) = 16
      BY <2>1, <2>2 DEF PlausibleCount, GenerousCountCeiling, Of
    <3>2. QED
      BY <1>1, <3>1
  <2>3. CASE Of(w, UnitMarkers \cup PluralContainers) = {}
    <3>1. PlausibleCount(w) = 1
      BY <2>1, <2>3 DEF PlausibleCount, Of
    <3>2. TellsCount(l, w) => l.count = 1
      <4>1. SUFFICES ASSUME TellsCount(l, w), l.count # 1
                     PROVE  FALSE
        OBVIOUS
      <4>2. PICK p \in w : p.says \in {"nxm", "paren", "have", "qty", "stock", "word"}
        BY <2>3, <4>1 DEF TellsCount, Of, Says
      <4>3. p.n = l.count
        BY <4>2, PhraseFacts DEF Counting
      <4>4. p.says = "word" => p.n \in WordCounts
        BY <4>2, WordsAreKnown
      <4>5. p \in read \cup spelt
        BY <1>2, <4>2, <4>4 DEF Of
      <4>6. l.count \in found
        BY <1>1, <4>3, <4>5 DEF PlausibleCounts, GenerousCountCeiling
      <4>7. QED
        BY <1>5, <4>6
    <3>3. QED
      BY <1>1, <3>1, <3>2
  <2>4. QED
    BY <2>2, <2>3
<1>6. QED
  BY <1>4, <1>5

(* With a capacity and at least a hint of the count, the bound of the      *)
(* prefilter holds what is sold.                                           *)
LEMMA BoundIsEnough ==
  ASSUME NEW l, NEW w, Truthful(l, w), TellsCount(l, w), OptimisticTotalGb(w) # 0
  PROVE  /\ OptimisticTotalGb(w) \in Nat
         /\ OptimisticTotalGb(w) >= l.count * l.gb
<1> DEFINE P == PlausibleCount(w)
           g == l.gb
           s == l.count * g
<1> USE DEF Truthful
<1>1. l.count \in 1..16 /\ g \in Nat /\ s \in Nat /\ P \in 1..16 /\ P >= l.count
  BY LotFacts, PlausibleIsEnough
<1>2. g * P \in Int /\ g * P >= s /\ s * P \in Int /\ s * P >= s
  <2>1. \A m \in Nat, k \in 1..16, q \in 1..16 :
            q >= k => /\ m * q \in Int /\ m * q >= k * m
                      /\ (k * m) * q \in Int /\ (k * m) * q >= k * m
    BY SMT
  <2>2. QED
    BY <1>1, <2>1
<1>3. ASSUME NEW b \in OptimisticBounds(w)
      PROVE  b \in {s, g * P, s * P}
  <2>1. CASE \E p \in Declared(w) : b = p.gb
    BY <2>1, PhraseFacts DEF Declared, Of
  <2>2. CASE \E p \in Of(w, {"nxm", "paren"}) : b = p.n * p.gb
    BY <2>2, PhraseFacts DEF Of, Counting
  <2>3. CASE \E p \in Of(w, BareCapacities \cup {"nxm"}) : b = p.gb * P
    BY <2>3, PhraseFacts DEF Of, BareCapacities
  <2> DEFINE caps == {p.gb : p \in Of(w, BareCapacities \cup {"nxm"})} \cap 1..4096
             scaled == {cap * P : cap \in caps}
             products == {p.n * p.gb : p \in Of(w, {"nxm", "paren"})}
             totals == {p.gb : p \in Declared(w)}
  <2>4. OptimisticBounds(w) = totals \cup products \cup scaled
    BY DEF OptimisticBounds
  <2>5. b \in totals => \E p \in Declared(w) : b = p.gb
    OBVIOUS
  <2>6. b \in products => \E p \in Of(w, {"nxm", "paren"}) : b = p.n * p.gb
    OBVIOUS
  <2>7. b \in scaled => \E p \in Of(w, BareCapacities \cup {"nxm"}) : b = p.gb * P
    <3> HIDE DEF P
    <3>1. QED
      OBVIOUS
  <2> HIDE DEF totals, products, scaled, P, s, g
  <2>8. QED
    BY <1>3, <2>1, <2>2, <2>3, <2>4, <2>5, <2>6, <2>7
<1>4. OptimisticTotalGb(w) = Max(OptimisticBounds(w)) /\ OptimisticBounds(w) # {}
  BY DEF OptimisticTotalGb
<1>5. OptimisticTotalGb(w) \in OptimisticBounds(w)
  <2>1. OptimisticBounds(w) \in SUBSET {s, g * P, s * P}
    BY <1>3
  <2> DEFINE x == g * P
             y == s * P
  <2>2. s \in Int /\ x \in Int /\ y \in Int /\ OptimisticBounds(w) \in SUBSET {s, x, y}
    BY <1>1, <1>2, <2>1
  <2> HIDE DEF s, P, g, x, y
  <2>3. \A S \in SUBSET {s, x, y} : S # {} => Max(S) \in S
    BY <2>2, MaxIsMember
  <2>4. QED
    BY <1>4, <2>2, <2>3, Zenon
<1>6. QED
  BY <1>1, <1>2, <1>3, <1>5

(* A quotient rounded half to even is above a bound only if it is not      *)
(* under it.                                                               *)
LEMMA HalfEvenAbove ==
  ASSUME NEW n \in Nat, NEW d \in Nat \ {0}, NEW bound \in Nat,
         HalfEven(n, d) > bound
  PROVE  n >= bound * d
<1>1. PICK q \in Nat, r \in Nat : q = n \div d /\ r = n % d /\ n = q * d + r
  OBVIOUS
<1>2. HalfEven(n, d) \in {q, q + 1}
  BY <1>1 DEF HalfEven
<1>3. q >= bound
  BY <1>2
<1>4. q * d >= bound * d
  <2>1. \A a \in Nat, b \in Nat, m \in Nat : a >= b => a * m >= b * m
    BY SMT
  <2>2. QED
    BY <1>3, <2>1
<1>5. bound * d \in Nat /\ q * d \in Nat
  OBVIOUS
<1>6. QED
  BY <1>1, <1>4, <1>5

-----------------------------------------------------------------------------
(* What is read of a kind or of a speed is true of the lot.                *)
LEMMA KindFacts ==
  ASSUME NEW l \in Lot, NEW p \in Phrases(l)
  PROVE  /\ p.says \notin {"ddr3", "nonecc", "laptop"}
         /\ p.says = "sodimm" => l.form \notin {"rdimm", "lrdimm"}
         /\ p.says \in {"unbuffered", "partUdimm"} => l.form = "udimm"
         /\ p.says = "speed" => p.n = l.speed
         /\ p.says \in {"part", "partUdimm"} => p.n \in {0, l.speed}
<1>1. CASE p \in CountPhrases(l)
  BY <1>1 DEF CountPhrases, Phrase
<1>2. CASE p \in SizePhrases(l)
  BY <1>2 DEF SizePhrases, Phrase
<1>3. CASE p \in OtherPhrases(l)
  <2>1. l.form \in Forms
    BY WaresAssumption DEF Lot
  <2>2. QED
    BY <1>3, <2>1 DEF OtherPhrases, Phrase, Forms
<1>4. QED
  BY <1>1, <1>2, <1>3 DEF Phrases

LEMMA SpeedIsReal ==
  ASSUME NEW l, NEW w, Truthful(l, w)
  PROVE  Speed(w) \in {0, l.speed}
<1> DEFINE known == {p \in Of(w, {"speed"}) : p.n \in KnownSpeeds}
<1>1. CASE known = {}
  BY <1>1 DEF Speed
<1>2. CASE known # {}
  <2>1. The(known) \in known
    BY <1>2 DEF The
  <2>2. The(known).n = l.speed
    BY <2>1, KindFacts DEF Truthful, Of
  <2>3. QED
    BY <1>2, <2>2 DEF Speed
<1>3. QED
  BY <1>1, <1>2

(* A reference whose family or capacity the tables have is the lot's.      *)
LEMMA DecodedIsReal ==
  ASSUME NEW l, NEW w, Truthful(l, w), Decoded(w) # {}
  PROVE  LET p == The(Decoded(w))
         IN  /\ p.says = "partUdimm" => l.form = "udimm"
             /\ p.says # "partUdimm" => p.gb = l.gb
             /\ p.gb \in {0, l.gb} /\ p.n \in {0, l.speed}
<1> DEFINE p == The(Decoded(w))
<1>1. p \in Decoded(w)
  BY DEF The
<1>2. /\ p \in Phrases(l) /\ l \in Lot /\ p.says \in {"part", "partUdimm"}
      /\ p.says = "partUdimm" \/ p.gb # 0
  BY <1>1 DEF Truthful, Decoded, Of
<1> HIDE DEF p
<1>3. p.gb \in {0, l.gb} /\ p.n \in {0, l.speed}
  BY <1>2, PhraseFacts, KindFacts
<1>4. p.says = "partUdimm" => l.form = "udimm"
  BY <1>2, KindFacts
<1>5. QED
  BY <1>2, <1>3, <1>4 DEF p

(* What fits the board is rejected by no keyword, no reference and no row  *)
(* of the matrix, whatever true words describe it.                         *)
LEMMA NoHardReject ==
  ASSUME NEW l, NEW w, Truthful(l, w), TellsSize(w), Fits(l)
  PROVE  Rules(w).reject # "hard"
<1>1. /\ l.form \in {"rdimm", "lrdimm"} /\ l.speed \in AcceptSpeeds
      /\ l.gb \in AcceptGb /\ l.gb \notin RejectGb
  BY DEF Fits
<1>2. ~KeywordReject(w)
  BY <1>1, KindFacts DEF Truthful, KeywordReject, Of
<1>3. \A kind, cap, speed :
          /\ kind # "udimm_ecc" /\ cap \in {0, l.gb} /\ speed \in {0, l.speed}
          => Qualifies(cap, kind, speed)
  BY <1>1 DEF Qualifies
<1>4. CASE Decoded(w) # {}
  <2> DEFINE p == The(Decoded(w))
             speed == IF p.n # 0 THEN p.n ELSE Speed(w)
  <2>1. p.says # "partUdimm" /\ p.gb = l.gb /\ p.n \in {0, l.speed}
    BY <1>1, <1>4, DecodedIsReal
  <2>2. speed \in {0, l.speed}
    BY <2>1, SpeedIsReal
  <2>3. Qualifies(p.gb, "rdimm", speed)
    BY <1>3, <2>1, <2>2
  <2>4. Rules(w) = ByPartNumber(w)
    BY <1>2, <1>4 DEF Rules
  <2> HIDE DEF p
  <2>5. ByPartNumber(w).reject = "none"
    BY <2>1, <2>3 DEF ByPartNumber, SpecOf, p
  <2>6. QED
    BY <2>4, <2>5
<1>5. CASE Decoded(w) = {}
  <2>1. Kind(w) # "udimm_ecc"
    BY <1>1, KindFacts DEF Truthful, Kind, Says, Of
  <2>2. Qualifies(ModuleCapacity(w), Kind(w), Speed(w))
    BY <1>3, <2>1, CapacityIsReal, SpeedIsReal
  <2>3. ByGrammar(w).reject # "hard"
    BY <2>2 DEF ByGrammar, SpecOf
  <2>4. QED
    BY <1>2, <1>5, <2>3 DEF Rules
<1>6. QED
  BY <1>4, <1>5

-----------------------------------------------------------------------------
LEMMA PhraseIsRead ==
  ASSUME NEW sort \in Sorts, NEW n \in Nat, NEW gb \in Nat, sort \in Counting => n > 0
  PROVE  Phrase(sort, n, gb) \in Phrasings
BY DEF Phrase, Phrasings

(* What is true of a lot is read as a text.                                *)
LEMMA PhrasesAreRead ==
  ASSUME NEW l \in Lot
  PROVE  Phrases(l) \subseteq Phrasings
<1>1. /\ l.count \in Nat \ {0} /\ l.gb \in Nat /\ l.count * l.gb \in Nat /\ l.speed \in Nat
  BY LotFacts DEF Lot
<1>2. CountPhrases(l) \subseteq Phrasings
  <2>1. \A sort \in Counting : Phrase(sort, l.count, 0) \in Phrasings
    BY <1>1, PhraseIsRead DEF Counting, Sorts
  <2>2. Phrase("plural", 0, 0) \in Phrasings
    BY PhraseIsRead DEF Counting, Sorts
  <2>3. QED
    BY <2>1, <2>2 DEF CountPhrases, Counting
<1>3. SizePhrases(l) \subseteq Phrasings
  <2>1. \A sort \in {"size", "sum", "total"}, gb \in Nat : Phrase(sort, 0, gb) \in Phrasings
    BY PhraseIsRead DEF Counting, Sorts
  <2>2. \A sort \in {"nxm", "paren"} : Phrase(sort, l.count, l.gb) \in Phrasings
    BY <1>1, PhraseIsRead DEF Counting, Sorts
  <2>3. QED
    BY <1>1, <2>1, <2>2 DEF SizePhrases
<1>4. OtherPhrases(l) \subseteq Phrasings
  <2> DEFINE Others == {"unit", "reg", "lr", "unbuffered", "ecc", "sodimm", "speed",
                        "part", "partUdimm"}
  <2>1. \A sort \in Others, n, gb \in Nat : Phrase(sort, n, gb) \in Phrasings
    BY PhraseIsRead DEF Counting, Sorts
  <2>2. \A p \in OtherPhrases(l) : \E sort \in Others, n, gb \in Nat : p = Phrase(sort, n, gb)
    BY <1>1 DEF OtherPhrases
  <2> HIDE DEF Others
  <2>3. QED
    BY <2>1, <2>2
<1>5. QED
  BY <1>2, <1>3, <1>4 DEF Phrases

(* The largest of some known capacities is one of them.                    *)
LEMMA LargestKnown ==
  ASSUME NEW S \in SUBSET ValidCapacities, S # {}
  PROVE  Max(S) \in S
<1>1. \E x \in S : \A y \in S : x >= y
  <2>1. S \subseteq {4, 8, 16, 32, 64, 128}
    BY DEF ValidCapacities
  <2>2. CASE 128 \in S
    <3>1. \A y \in S : 128 >= y
      BY <2>1
    <3>2. QED
      BY <2>2, <3>1
  <2>3. CASE 128 \notin S /\ 64 \in S
    BY <2>1, <2>3
  <2>4. CASE 128 \notin S /\ 64 \notin S /\ 32 \in S
    BY <2>1, <2>4
  <2>5. CASE 128 \notin S /\ 64 \notin S /\ 32 \notin S /\ 16 \in S
    BY <2>1, <2>5
  <2>6. CASE 128 \notin S /\ 64 \notin S /\ 32 \notin S /\ 16 \notin S
    <3>1. \A y \in S : y = 4 \/ y = 8
      BY <2>1, <2>6
    <3>2. CASE 8 \in S
      BY <3>1, <3>2
    <3>3. CASE 8 \notin S
      <4>1. \A y \in S : y = 4
        BY <3>1, <3>3
      <4>2. QED
        BY <4>1
    <3>4. QED
      BY <3>2, <3>3
  <2>7. QED
    BY <2>2, <2>3, <2>4, <2>5, <2>6
<1>2. QED
  BY <1>1 DEF Max

LEMMA CapacityIsNat ==
  ASSUME NEW w
  PROVE  ModuleCapacity(w) \in Nat
<1> DEFINE sizes == {p.gb : p \in Of(w, BareCapacities)} \cap ValidCapacities
<1>1. ValidCapacities \subseteq Nat
  BY DEF ValidCapacities
<1>2. CASE Decomposed(w) # {}
  <2>1. The(Decomposed(w)) \in Decomposed(w)
    BY <1>2 DEF The
  <2>2. The(Decomposed(w)).gb \in ValidCapacities
    BY <2>1 DEF Decomposed
  <2>3. QED
    BY <1>1, <1>2, <2>2 DEF ModuleCapacity
<1>3. CASE Decomposed(w) = {} /\ sizes = {}
  BY <1>3 DEF ModuleCapacity, BareCapacity
<1>4. CASE Decomposed(w) = {} /\ sizes # {}
  <2>1. sizes \in SUBSET ValidCapacities
    OBVIOUS
  <2>2. ModuleCapacity(w) = IF Cardinality(sizes) = 1 THEN Max(sizes)
                               ELSE Max(sizes \ {Max(sizes)})
    BY <1>4 DEF ModuleCapacity, BareCapacity
  <2> HIDE DEF sizes
  <2>3. Max(sizes) \in sizes
    BY <1>4, <2>1, LargestKnown
  <2>4. Cardinality(sizes) # 1 => sizes \ {Max(sizes)} # {}
    <3>1. Cardinality({Max(sizes)}) = 1
      BY FS_Singleton
    <3>2. sizes \ {Max(sizes)} = {} => sizes = {Max(sizes)}
      BY <2>3
    <3>3. QED
      BY <3>1, <3>2
  <2>5. Cardinality(sizes) # 1 => Max(sizes \ {Max(sizes)}) \in ValidCapacities
    BY <2>1, <2>4, LargestKnown
  <2>6. QED
    BY <1>1, <2>1, <2>2, <2>3, <2>5
<1>5. QED
  BY <1>2, <1>3, <1>4

LEMMA TotalIsNat ==
  ASSUME NEW w \in SUBSET Phrasings
  PROVE  ModuleCount(w) \in Nat \ {0} /\ TotalGb(w) \in Nat
<1>1. ModuleCount(w) \in Nat \ {0}
  BY CountIsRead DEF Phrasings
<1>2. CASE Declared(w) # {}
  <2>1. The(Declared(w)) \in Declared(w)
    BY <1>2 DEF The
  <2>2. TotalGb(w) = The(Declared(w)).gb
    BY <1>2 DEF TotalGb
  <2>3. \A p \in Declared(w) : p.gb \in Nat
    <3> DEFINE Digits == 10..9999
    <3>1. Digits \subseteq Nat
      OBVIOUS
    <3>2. \A p \in Declared(w) : p.gb \in Digits
      BY DEF Declared
    <3> HIDE DEF Digits
    <3>3. QED
      BY <3>1, <3>2
  <2>4. QED
    BY <1>1, <2>1, <2>2, <2>3
<1>3. CASE Declared(w) = {}
  <2>1. \A a, b \in Nat : a * b \in Nat
    BY SMT
  <2>2. QED
    BY <1>1, <1>3, <2>1, CapacityIsNat DEF TotalGb
<1>4. QED
  BY <1>2, <1>3

(* What is read of any text is a spec the verdict can work with: at least  *)
(* one module, capacities that are natural numbers.                        *)
LEMMA RulesType ==
  ASSUME NEW w \in SUBSET Phrasings
  PROVE  Rules(w) \in MemorySpec
<1>1. PriceBasis(w) \in {"lot", "unit", "unknown"}
  BY DEF PriceBasis
<1>2. ASSUME NEW cap \in Nat, NEW total \in Nat,
             NEW reject \in {"none", "hard", "low_confidence"}
      PROVE  SpecOf(w, cap, total, reject) \in MemorySpec
  BY <1>1, TotalIsNat DEF SpecOf, MemorySpec, Reasons
<1>3. CASE Decoded(w) # {}
  <2> DEFINE p == The(Decoded(w))
  <2>1. p.gb \in Nat
    <3>1. p \in Decoded(w)
      BY <1>3 DEF The
    <3>2. QED
      BY <3>1 DEF Decoded, Of, Phrasings
  <2>2. p.gb * ModuleCount(w) \in Nat
    <3>1. \A a, b \in Nat : a * b \in Nat
      BY SMT
    <3>2. QED
      BY <2>1, <3>1, TotalIsNat
  <2>3. Incompatible \in MemorySpec
    BY DEF Incompatible, MemorySpec, Reasons
  <2> DEFINE speed == IF p.n # 0 THEN p.n ELSE Speed(w)
             reject == IF Qualifies(p.gb, "rdimm", speed) THEN "none" ELSE "hard"
  <2>4. SpecOf(w, p.gb, p.gb * ModuleCount(w), reject) \in MemorySpec
    BY <1>2, <2>1, <2>2
  <2>5. ByPartNumber(w) \in
            {Incompatible, SpecOf(w, p.gb, p.gb * ModuleCount(w), reject)}
    BY DEF ByPartNumber
  <2> HIDE DEF p, speed, reject
  <2>6. ByPartNumber(w) \in MemorySpec
    BY <2>3, <2>4, <2>5
  <2>7. SpecOf(w, ModuleCapacity(w), TotalGb(w), "hard") \in MemorySpec
    BY <1>2, CapacityIsNat, TotalIsNat
  <2>8. QED
    BY <1>3, <2>6, <2>7 DEF Rules
<1>4. CASE Decoded(w) = {}
  <2>1. \A reject \in {"none", "hard", "low_confidence"} :
            SpecOf(w, ModuleCapacity(w), TotalGb(w), reject) \in MemorySpec
    BY <1>2, CapacityIsNat, TotalIsNat
  <2>2. ByGrammar(w) \in MemorySpec
    BY <2>1 DEF ByGrammar
  <2>3. QED
    BY <1>4, <2>1, <2>2 DEF Rules
<1>5. QED
  BY <1>3, <1>4

(* No model is asked.                                                      *)
LEMMA RulesOwn ==
  ASSUME NEW w
  PROVE  Rules(w).llm = FALSE
<1>1. \A cap, total, reject : SpecOf(w, cap, total, reject).llm = FALSE
  BY DEF SpecOf
<1>2. ByPartNumber(w).llm = FALSE
  BY <1>1 DEF ByPartNumber, Incompatible
<1>3. ByGrammar(w).llm = FALSE
  BY <1>1 DEF ByGrammar
<1>4. QED
  BY <1>1, <1>2, <1>3 DEF Rules
=============================================================================
