-------------------------------- MODULE Wares --------------------------------
(***************************************************************************)
(* What sellers sell, the phrases that are true of it, and how much of it  *)
(* a text tells.                                                           *)
(***************************************************************************)
EXTENDS Extraction

(* The confidence of a text without count or capacity ends at 0.75.        *)
ASSUME WaresAssumption == MinConfidence > 750

(* A lot: modules, gigabytes of one (registered DDR4 modules are of 4 and  *)
(* more), kind, speed, whether the price is that of one module, whether    *)
(* the tables know its reference.                                          *)
Forms == {"rdimm", "lrdimm", "udimm", "sodimm"}
Lot == [ count : 1..GenerousCountCeiling, gb : Nat \ 0..3, form : Forms, speed : Nat,
         each : BOOLEAN, listed : BOOLEAN ]

(* How many there are, how large they are, and both.                       *)
CountPhrases(l) ==
    {Phrase(sort, l.count, 0) : sort \in IF l.count = 1 THEN {}
        ELSE {"lot", "have", "sticks", "pieces", "qty"} \cup (IF l.each THEN {"stock"} ELSE {})}
    \cup {Phrase("plural", 0, 0) : i \in IF l.count = 1 THEN {} ELSE {1}}
    \cup {Phrase("word", n, 0) : n \in {l.count} \cap WordCounts}

SizePhrases(l) ==
    { Phrase("size", 0, l.gb), Phrase("sum", 0, l.count * l.gb),
      Phrase("total", 0, l.count * l.gb), Phrase("nxm", l.count, l.gb),
      Phrase("paren", l.count, l.gb) }

(* What the price is for and what kind of module it is.                    *)
OtherPhrases(l) ==
    {Phrase(sort, 0, 0) : sort \in (IF l.each THEN {"unit"} ELSE {})
        \cup (CASE l.form = "rdimm" -> {"reg", "ecc"} [] l.form = "lrdimm" -> {"lr", "ecc"}
                [] l.form = "udimm" -> {"unbuffered", "ecc"} [] OTHER -> {"sodimm"})}
    \cup {Phrase("speed", l.speed, 0)}
    \cup {Phrase(IF l.form = "udimm" THEN "partUdimm" ELSE "part",
                 IF l.listed THEN l.speed ELSE 0, IF l.listed THEN l.gb ELSE 0) : i \in IF l.form = "sodimm" THEN {} ELSE {1}}

Phrases(l) == CountPhrases(l) \cup SizePhrases(l) \cup OtherPhrases(l)

(* Every phrase of the text is one of the lot's.                           *)
Truthful(l, text) == l \in Lot /\ text \subseteq Phrases(l)

-----------------------------------------------------------------------------
(* The gigabytes the listed price buys, and what is sold.                  *)
RealGb(l) == IF l.each THEN l.gb ELSE l.count * l.gb

Fits(l) == /\ l.form \in {"rdimm", "lrdimm"} /\ l.speed \in AcceptSpeeds
           /\ l.gb \in AcceptGb \ RejectGb

(* The text says how large one module is.                                  *)
TellsSize(text) == Says(text, "size") \/ Decomposed(text) # {}

(* A price by the module is said to be one.                                *)
TellsBasis(l, text) == l.each => Of(text, UnitMarkers) # {}

(* The number of modules can be read or at least suspected.                *)
TellsCount(l, text) ==
    \/ l.count = 1
    \/ Of(text, UnitMarkers \cup PluralContainers \cup {"nxm", "paren", "have", "qty", "stock"}) # {}
    \/ Says(text, "word")

TellsCapacity(text) == Of(text, BareCapacities \cup {"nxm", "paren"}) # {}
=============================================================================
