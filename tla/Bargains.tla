------------------------------ MODULE Bargains -------------------------------
(***************************************************************************)
(* The pipeline end to end: sellers, what they sell and what they write of *)
(* it, the reading of the text, the cache that every ad of the same text   *)
(* shares, getItem's hint, the verdict and the alert.                      *)
(***************************************************************************)
EXTENDS Pipeline, Wares

CONSTANT LotOf  \* ad -> what is sold

ASSUME BargainsAssumption == LotOf \in [Ads -> Lot]

(* The seller tells the truth, how large a module is, and that the price   *)
(* is one module's when it is.  Nothing is asked of what getItem answers,  *)
(* nor of the other ads with the same text.                                *)
Honest(o) ==
    LET lot == LotOf[o.ad]
        text == Wording[o.text]
    IN  Truthful(lot, text) /\ TellsSize(text) /\ TellsBasis(lot, text)

(* Delivered, the listing costs less than the ceiling for what is sold; by *)
(* the module, for some number of them that is for sale.                   *)
Bargain(o) ==
    LET lot == LotOf[o.ad]
        listing == ListingOf(o, 0)
        Delivered(copies) ==
            TotalCost(ToEur(listing.price, listing.currency) * copies, ShippingEur(listing))
    IN  \E copies \in 1..(IF lot.each THEN lot.count ELSE 1) :
            Delivered(copies) * PerGbScale < HardCeiling * (RealGb(lot) * copies)

(* An alert that no model had a part in and whose seller was honest is a   *)
(* bargain, whichever ad, price or process the spec in hand was extracted  *)
(* and resolved for (pipeline._process, _extract, _verify_price_basis,     *)
(* thresholds.evaluate_detailed).                                          *)
HonestAlertsAreBargains ==
    [][ \A p \in Procs :
            Notifies(p) /\ ~spec[p].llm /\ Honest(cur[p]) => Bargain(cur[p]) ]_vars
=============================================================================
