---------------------------- MODULE TitlesProofs -----------------------------
(***************************************************************************)
(* Proofs about Titles, for any lots, any text of any length that is true  *)
(* of the lot, and any configuration of the rules: what RulesProofs says   *)
(* of a truthful text, said of every text a seller comes to write.         *)
(***************************************************************************)
EXTENDS Titles, RulesProofs

(* What is written is true of the lot.                                     *)
TextInv == lot \in Lots /\ Truthful(lot, text)

LEMMA TextInvAlways == Spec => []TextInv
<1>1. Init => TextInv
  BY TitlesAssumption DEF Init, TextInv, Truthful
<1>2. TextInv /\ [Next]_vars => TextInv'
  BY DEF TextInv, Truthful, Next, Write, Erase, vars
<1>3. QED
  BY <1>1, <1>2, PTL DEF Spec

(* An ad is never read as more than it sells: for any lots of modules of 4 *)
(* gigabytes and more, any truthful text of any length and any matrix, as  *)
(* long as the confidence asked for is above 0.75.                         *)
THEOREM NeverOverreadAlways == Spec => []NeverOverread
<1>1. TextInv => NeverOverread
  <2> DEFINE c == Rules(text).count
             times == IF Rules(text).basis = "unit" THEN c ELSE 1
  <2> SUFFICES ASSUME TextInv, TellsSize(text), TellsBasis(lot, text),
                      Rules(text).reject = "none", Rules(text).basis # "unknown"
               PROVE  Rules(text).total <= RealGb(lot) * times
    BY DEF NeverOverread
  <2>1. lot \in Lot /\ Truthful(lot, text)
    BY DEF TextInv, Truthful
  <2>2. /\ c = ModuleCount(text) /\ Rules(text).basis = PriceBasis(text)
        /\ Rules(text).total \in Nat /\ Rules(text).total <= lot.gb * c
    BY <2>1, TotalIsReal
  <2>3. c = IF CountExplicit(text) THEN lot.count ELSE 1
    BY <2>1, <2>2, CountIsReal
  <2>4. /\ lot.count \in 1..16 /\ lot.gb \in Nat /\ lot.each \in BOOLEAN
        /\ lot.count * lot.gb \in Nat /\ lot.count * lot.gb >= lot.gb
    BY <2>1, LotFacts
  <2>5. RealGb(lot) \in Nat /\ RealGb(lot) >= lot.gb /\ c \in 1..16
    BY <2>3, <2>4 DEF RealGb
  <2>6. CASE PriceBasis(text) = "unit"
    <3>1. \A g \in Nat, r \in Nat, n \in 1..16 : r >= g => g * n <= r * n /\ r * n \in Nat /\ g * n \in Nat
      BY SMT
    <3>2. times = c
      BY <2>2, <2>6
    <3>3. lot.gb * c <= RealGb(lot) * c /\ RealGb(lot) * c \in Nat /\ lot.gb * c \in Nat
      BY <2>4, <2>5, <3>1
    <3>4. QED
      BY <2>2, <3>2, <3>3
  <2>7. CASE PriceBasis(text) = "lot"
    <3>1. CountExplicit(text) /\ ~lot.each
      BY <2>7, <2>4 DEF PriceBasis, TellsBasis
    <3>2. lot.gb * c = RealGb(lot) /\ RealGb(lot) * times = RealGb(lot)
      BY <3>1, <2>2, <2>3, <2>4, <2>5, <2>7 DEF RealGb
    <3>3. QED
      BY <2>2, <3>2
  <2>8. QED
    BY <2>2, <2>6, <2>7 DEF PriceBasis
<1>2. QED
  BY <1>1, TextInvAlways, PTL

(* The bound of the prefilter holds what is sold, for any lots of sixteen  *)
(* modules at most and any truthful text of any length.                    *)
THEOREM BoundAlwaysAdmissible == Spec => []BoundAdmissible
<1>1. TextInv => BoundAdmissible
  BY BoundIsEnough DEF BoundAdmissible, TextInv
<1>2. QED
  BY <1>1, TextInvAlways, PTL

(* In euros the prefilter rules out no deal, at any price.                 *)
THEOREM NoEuroDealRuledOut ==
  ASSUME Currency = "EUR"
  PROVE  Spec => []NoDealRuledOut
<1>1. TextInv => NoDealRuledOut
  <2> DEFINE opt == OptimisticTotalGb(text)
             s == lot.count * lot.gb
  <2> SUFFICES ASSUME TextInv, TellsCount(lot, text), TellsCapacity(text),
                      NEW price \in Prices,
                      Cascade(text, price).reject = "best_case_above_ceiling"
               PROVE  ToEur(price, Currency) * PerGbScale >= HardCeiling * RealGb(lot)
    BY DEF NoDealRuledOut
  <2>0. lot \in Lot /\ Truthful(lot, text)
    BY DEF TextInv, Truthful
  <2>1. RuledOut(text, price)
    <3>1. Rules(text).reject # "best_case_above_ceiling"
      BY DEF Rules, ByPartNumber, ByGrammar, SpecOf, Incompatible
    <3>2. QED
      BY <3>1 DEF Cascade
  <2>2. opt \in Nat \ {0} /\ opt >= s /\ s \in Nat
    BY <2>0, <2>1, LotFacts, BoundIsEnough DEF RuledOut
  <2>3. RealGb(lot) \in Nat /\ RealGb(lot) <= s
    BY <2>0, LotFacts DEF RealGb
  <2>4. price * PerGbScale \in Nat /\ HardCeiling \in Nat
    BY TitlesAssumption, DealsAssumption
  <2>5. price * PerGbScale >= HardCeiling * opt
    BY <2>1, <2>2, <2>4, HalfEvenAbove DEF RuledOut, BestCasePerGb
  <2>6. HardCeiling * opt >= HardCeiling * RealGb(lot)
    <3>1. \A a \in Nat, b \in Nat, m \in Nat : a >= b => m * a >= m * b
      BY SMT
    <3>2. QED
      BY <2>2, <2>3, <2>4, <3>1
  <2>7. HardCeiling * opt \in Nat /\ HardCeiling * RealGb(lot) \in Nat
    BY <2>2, <2>3, <2>4
  <2>8. QED
    BY <2>4, <2>5, <2>6, <2>7 DEF ToEur
<1>2. QED
  BY <1>1, TextInvAlways, PTL

(* What fits the board is never rejected for good: for any lots, texts and *)
(* matrix.                                                                 *)
THEOREM HardRejectIsAlwaysReal == Spec => []HardRejectIsReal
<1>1. TextInv => HardRejectIsReal
  BY NoHardReject DEF HardRejectIsReal, TextInv
<1>2. QED
  BY <1>1, TextInvAlways, PTL

(* What is read of a truthful text of any length is a spec the verdict can *)
(* work with: at least one module, capacities that are natural numbers.    *)
THEOREM TitlesTypeOK == Spec => []TypeOK
<1>1. TextInv => TypeOK
  <2> SUFFICES ASSUME TextInv
               PROVE  Rules(text) \in MemorySpec
    BY DEF TypeOK, TextInv
  <2>1. text \in SUBSET Phrasings
    BY PhrasesAreRead DEF TextInv, Truthful
  <2>2. QED
    BY <2>1, RulesType
<1>2. QED
  BY <1>1, TextInvAlways, PTL
=============================================================================
