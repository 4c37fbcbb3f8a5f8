------------------------------- MODULE Titles --------------------------------
(***************************************************************************)
(* A seller writes and edits an ad, and the cascade reads it.  The seller  *)
(* tells the truth, in any words the grammar knows, and as much of it as   *)
(* she likes: what is read is compared with what is sold.                  *)
(***************************************************************************)
EXTENDS Wares

CONSTANTS
    Lots,       \* what may be sold
    Prices,     \* prices of an ad, in its currency
    Currency,   \* the currency it is in
    MaxPhrases  \* bound: phrases in a text

VARIABLES
    lot,    \* what is sold
    text    \* the title and description

vars == << lot, text >>

ASSUME TitlesAssumption ==
    /\ Lots \subseteq Lot /\ Prices \subseteq Nat \ {0} /\ MaxPhrases \in Nat
    /\ Convertible(Currency)

-----------------------------------------------------------------------------
Init == lot \in Lots /\ text = {}

Write(phrase) ==
    /\ Cardinality(text) < MaxPhrases
    /\ text' = text \cup {phrase}
    /\ UNCHANGED lot

Erase(phrase) ==
    /\ text' = text \ {phrase}
    /\ UNCHANGED lot

Next == \/ \E phrase \in Phrases(lot) \ text : Write(phrase)
        \/ \E phrase \in text : Erase(phrase)

Spec == Init /\ [][Next]_vars

-----------------------------------------------------------------------------
(* The text is one the phrases of the lot make, and what is read of it is  *)
(* a spec of the verdict's.                                                *)
TypeOK ==
    /\ lot \in Lots /\ Truthful(lot, text)
    /\ Rules(text) \in MemorySpec

(* I1: the bound of the prefilter is never under what is sold, for lots up *)
(* to the sixteen modules of the target board (prefilter.py).              *)
BoundAdmissible ==
    TellsCount(lot, text) /\ TellsCapacity(text) =>
        OptimisticTotalGb(text) = 0 \/ OptimisticTotalGb(text) >= lot.count * lot.gb

(* "Ne devine jamais": an ad that tells the size of a module, and that its *)
(* price is one module's when it is, is never read as more gigabytes for   *)
(* its price than it sells, whatever else is said or left out              *)
(* (grammar.py, coherence.py, cascade.py).                                 *)
NeverOverread ==
    LET spec == Rules(text)
    IN  /\ TellsSize(text) /\ TellsBasis(lot, text)
        /\ spec.reject = "none" /\ spec.basis # "unknown"
        => spec.total <= RealGb(lot) * (IF spec.basis = "unit" THEN spec.count ELSE 1)

(* "Les rejets durs sont certains": an ad that tells the size of a module  *)
(* is rejected by keyword, part number or matrix only when the module does *)
(* not fit the board, also where the confidence is low (cascade.py).       *)
HardRejectIsReal ==
    TellsSize(text) /\ Rules(text).reject = "hard" => ~Fits(lot)

(* "Zero faux negatif": what the prefilter rules out costs more than the   *)
(* ceiling allows, at any price (prefilter.py, cascade.py).                *)
NoDealRuledOut ==
    TellsCount(lot, text) /\ TellsCapacity(text) =>
        \A price \in Prices :
            Cascade(text, price).reject = "best_case_above_ceiling" =>
                ToEur(price, Currency) * PerGbScale >= HardCeiling * RealGb(lot)
=============================================================================
