----------------------------- MODULE Extraction ------------------------------
(***************************************************************************)
(* What the rules make of the text of an ad (extract/): the keywords that  *)
(* reject it, the part number, the grammar, the coherence checks, the      *)
(* compatibility matrix, the bound of the prefilter, and their cascade.    *)
(*                                                                         *)
(* A text is a set of phrases, a phrase one match of the regular           *)
(* expressions: what it says, a number n and a capacity gb.  A text has at *)
(* most one phrase of each sort that counts, so the first match of a       *)
(* pattern is its only one; bare capacities may be several, as findall     *)
(* takes them all.  The phrases, with a specimen of each:                  *)
(*   nxm "4x32Go"      paren "(4x32)"       lot "lot de 4"                 *)
(*   have "j'en ai 4"  sticks "4 barrettes" pieces "4 pieces"              *)
(*   qty "qty 4"       stock "stock 4"      word "quatre"                  *)
(*   plural "modules"  size, sum "32Go"     total "128Go au total"         *)
(*   unit "chacune"    speed "2400 MHz"     reg, lr, unbuffered, ecc       *)
(*   ddr3, sodimm, nonecc, laptop           part, partUdimm                *)
(* A part number carries the capacity and speed of its tables, 0 if they   *)
(* have none.  None is 0 for gigabytes and speeds.                         *)
(***************************************************************************)
EXTENDS Deals, FiniteSets, FiniteSetsExt, Sequences

CONSTANTS
    LlmEnabled,     \* llm.enabled
    MinConfidence,  \* guards.min_confidence, in thousandths
    AcceptGb,       \* capacity_gb.accept of compat.yaml
    RejectGb,       \* capacity_gb.reject
    AcceptSpeeds    \* speed_mts.native and speed_mts.accept_downclock

ASSUME ExtractionAssumption ==
    /\ LlmEnabled \in BOOLEAN /\ MinConfidence \in 0..1000
    /\ AcceptGb \subseteq Nat /\ RejectGb \subseteq Nat /\ AcceptSpeeds \subseteq Nat

ValidCapacities == {4, 8, 16, 32, 64, 128}
KnownSpeeds == {1333, 1600, 1866, 2133, 2400, 2666, 2933, 3200}

(* The sorts of phrase a pattern matches, in the order they are tried.     *)
MultiplierPatterns ==
    << {"lot"}, {"nxm"}, {"have"}, {"sticks", "pieces"}, {"qty"}, {"stock"} >>
BareCapacities == {"size", "sum", "total"}
UnitMarkers == {"unit", "pieces"}
PluralContainers == {"plural", "lot", "sticks"}
WordCounts == {2, 3, 4, 5, 6, 8}
GenerousCountCeiling == 16
SafetyCeilingGb == 128 * 16

(* A phrase of a sort that counts is about one module at least.            *)
Counting == {"lot", "nxm", "have", "sticks", "pieces", "qty", "stock", "paren", "word"}
Sorts == Counting \cup { "plural", "size", "sum", "total", "unit", "speed", "reg", "lr",
    "unbuffered", "ecc", "ddr3", "sodimm", "nonecc", "laptop", "part", "partUdimm" }
Phrasings == {p \in [says : Sorts, n : Nat, gb : Nat] : p.says \in Counting => p.n > 0}

Phrase(sort, n, gb) == [says |-> sort, n |-> n, gb |-> gb]

Of(text, sorts) == {p \in text : p.says \in sorts}
Says(text, sort) == Of(text, {sort}) # {}
The(phrases) == CHOOSE p \in phrases : TRUE

-----------------------------------------------------------------------------
(* extract/grammar.py                                                      *)

(* The decomposition, one with its unit first.                             *)
NxM(text) == IF Says(text, "nxm") THEN Of(text, {"nxm"}) ELSE Of(text, {"paren"})
Decomposed(text) == {p \in NxM(text) : p.gb \in ValidCapacities}

(* The patterns that match with a number from 1 to 32.                     *)
Multiplied(text) == {i \in DOMAIN MultiplierPatterns :
                        \E p \in Of(text, MultiplierPatterns[i]) : p.n \in 1..32}

CountExplicit(text) == Decomposed(text) # {} \/ Multiplied(text) # {}

ModuleCount(text) ==
    IF Decomposed(text) # {} THEN The(Decomposed(text)).n
    ELSE IF Multiplied(text) = {} THEN 1
    ELSE The(Of(text, MultiplierPatterns[Min(Multiplied(text))])).n

(* Mutant: the largest of several capacities is the module's.              *)
LargestBare(text) ==
    LET sizes == {p.gb : p \in Of(text, BareCapacities)} \cap ValidCapacities
    IN  IF sizes = {} THEN 0 ELSE Max(sizes)

(* Of several capacities the largest is taken for the lot's.               *)
BareCapacity(text) ==
    LET sizes == {p.gb : p \in Of(text, BareCapacities)} \cap ValidCapacities
    IN  IF sizes = {} THEN 0
        ELSE IF Cardinality(sizes) = 1 THEN Max(sizes)
        ELSE Max(sizes \ {Max(sizes)})

ModuleCapacity(text) ==
    IF Decomposed(text) # {} THEN The(Decomposed(text)).gb ELSE BareCapacity(text)

(* A declared total has two to four digits.                                *)
Declared(text) == {p \in Of(text, {"total"}) : p.gb \in 10..9999}

TotalGb(text) ==
    IF Declared(text) # {} THEN The(Declared(text)).gb
    ELSE ModuleCapacity(text) * ModuleCount(text)

PriceBasis(text) ==
    IF Of(text, UnitMarkers) # {} THEN "unit"
    ELSE IF CountExplicit(text) THEN "lot" ELSE "unknown"

(* An unbuffered module without ECC is of no known kind, as is a SODIMM.   *)
Kind(text) ==
    IF Says(text, "sodimm") THEN "unknown"
    ELSE IF Says(text, "lr") THEN "lrdimm"
    ELSE IF Says(text, "reg") THEN "rdimm"
    ELSE IF Says(text, "unbuffered") /\ Says(text, "ecc") THEN "udimm_ecc"
    ELSE "unknown"

Speed(text) ==
    LET known == {p \in Of(text, {"speed"}) : p.n \in KnownSpeeds}
    IN  IF known = {} THEN 0 ELSE The(known).n

(* In thousandths.  The float sum 0.60 + 0.10 + 0.10 of a count and a kind *)
(* alone is 0.7999999999999999; every other sum compares as it is written. *)
Confidence(text) ==
    LET registered == Kind(text) \in {"rdimm", "lrdimm"}
        If(condition, gain) == IF condition THEN gain ELSE 0
        sum == 600 + If(ModuleCapacity(text) # 0, 150) + If(CountExplicit(text), 100)
                   + If(registered, 100) + If(Speed(text) # 0, 50)
    IN  IF sum = 800 /\ CountExplicit(text) /\ registered THEN 799
        ELSE IF sum > 950 THEN 950 ELSE sum

(* The counts a text gives, in digits or spelt out.                        *)
PlausibleCounts(text) ==
    LET read == Of(text, {"paren"} \cup UNION {MultiplierPatterns[i] :
                              i \in DOMAIN MultiplierPatterns})
        spelt == {p \in Of(text, {"word"}) : p.n \in WordCounts}
    IN  {p.n : p \in read \cup spelt} \cap 1..GenerousCountCeiling

(* Mutant: a plural without a number is taken for one module.              *)
MaxCountRead(text) == Max(PlausibleCounts(text) \cup {1})

(* A count the prefilter is sure not to underrate.                         *)
MaxPlausibleCount(text) ==
    LET found == PlausibleCounts(text)
    IN  IF found # {} THEN Max(found)
        ELSE IF Of(text, PluralContainers) # {} THEN GenerousCountCeiling ELSE 1

-----------------------------------------------------------------------------
(* extract/prefilter.py, for a text with a capacity in it; 0 for None.     *)

(* Mutant: a price by the piece does not suggest more than one piece.      *)
PlausibleCountRead(text) == MaxPlausibleCount(text)

PlausibleCount(text) ==
    IF MaxPlausibleCount(text) = 1 /\ Of(text, UnitMarkers) # {}
    THEN GenerousCountCeiling ELSE MaxPlausibleCount(text)

OptimisticBounds(text) ==
    LET caps == {p.gb : p \in Of(text, BareCapacities \cup {"nxm"})} \cap 1..4096
    IN  {p.gb : p \in Declared(text)}
        \cup {p.n * p.gb : p \in Of(text, {"nxm", "paren"})}
        \cup {cap * PlausibleCount(text) : cap \in caps}

OptimisticTotalGb(text) ==
    LET bounds == OptimisticBounds(text)
    IN  IF bounds = {} \/ Max(bounds) > SafetyCeilingGb THEN 0 ELSE Max(bounds)

(* The price is divided as it is listed, whatever its currency.            *)
BestCasePerGb(text, price) == HalfEven(price * PerGbScale, OptimisticTotalGb(text))

RuledOut(text, price) ==
    /\ OptimisticTotalGb(text) > 0
    /\ BestCasePerGb(text, price) > HardCeiling

-----------------------------------------------------------------------------
(* extract/partnum.py, coherence.py, qualify.py, cascade.py                *)

KeywordReject(text) == Of(text, {"ddr3", "sodimm", "nonecc", "laptop"}) # {}

(* A family that is rejected, or one with its capacity in the tables.      *)
Decoded(text) ==
    {p \in Of(text, {"part", "partUdimm"}) : p.says = "partUdimm" \/ p.gb # 0}

(* Mutant: a total that is not count times capacity goes through.          *)
IncoherentTrusted(text) ==
    IF PriceBasis(text) = "unknown" /\ Confidence(text) > 700 THEN 700
    ELSE Confidence(text)

(* Of the checks, those that what the grammar reads can fail: its          *)
(* capacities are all plausible and its speed is the first PC4 code's.     *)
Checked(text) ==
    IF ModuleCapacity(text) # 0 /\ ModuleCapacity(text) * ModuleCount(text) # TotalGb(text)
    THEN 300
    ELSE IF PriceBasis(text) = "unknown" /\ Confidence(text) > 700 THEN 700
    ELSE Confidence(text)

Qualifies(cap, kind, speed) ==
    /\ cap # 0 => cap \notin RejectGb /\ (AcceptGb # {} => cap \in AcceptGb)
    /\ kind # "udimm_ecc"
    /\ speed # 0 => speed \in AcceptSpeeds

SpecOf(text, cap, total, reject) ==
    [ count |-> ModuleCount(text), cap |-> cap, total |-> total,
      basis |-> PriceBasis(text), llm |-> FALSE, reject |-> reject ]

Incompatible == [ count |-> 1, cap |-> 0, total |-> 0, basis |-> "unknown",
                  llm |-> FALSE, reject |-> "hard" ]

(* The capacity and kind of the reference, the count and basis of the      *)
(* grammar; a declared total is not looked at and nothing is checked.      *)
ByPartNumber(text) ==
    LET p == The(Decoded(text))
        speed == IF p.n # 0 THEN p.n ELSE Speed(text)
    IN  IF p.says = "partUdimm" THEN Incompatible
        ELSE SpecOf(text, p.gb, p.gb * ModuleCount(text),
                    IF Qualifies(p.gb, "rdimm", speed) THEN "none" ELSE "hard")

ByGrammar(text) ==
    SpecOf(text, ModuleCapacity(text), TotalGb(text),
          IF ~Qualifies(ModuleCapacity(text), Kind(text), Speed(text)) THEN "hard"
          ELSE IF Checked(text) >= MinConfidence /\ PriceBasis(text) # "unknown"
          THEN "none" ELSE "low_confidence")

(* What the rules alone say of a text.                                     *)
Rules(text) ==
    IF KeywordReject(text)
    THEN SpecOf(text, ModuleCapacity(text), TotalGb(text), "hard")
    ELSE IF Decoded(text) # {} THEN ByPartNumber(text) ELSE ByGrammar(text)

(* cascade.run as the pipeline calls it, without a model: with the LLM     *)
(* enabled the prefilter may rule an uncertain ad out at its price.        *)
Cascade(text, price) ==
    IF Rules(text).reject = "low_confidence" /\ LlmEnabled /\ RuledOut(text, price)
    THEN [Rules(text) EXCEPT !.reject = "best_case_above_ceiling"]
    ELSE Rules(text)
=============================================================================
