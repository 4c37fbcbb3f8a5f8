------------------------------ MODULE MCMarket -------------------------------
(***************************************************************************)
(* Constants of the runs of Market.  The quantum of a price per gigabyte   *)
(* is as coarse as the money unit, so that nearly every division rounds;   *)
(* modules are of 2 or 4 gigabytes, the ceiling is 20 and the floor 5.     *)
(***************************************************************************)
EXTENDS Market, TLC

CONSTANTS a1, a2

Fixed == [ price |-> 35, bid |-> NoAmount, currency |-> "EUR", shipping |-> 3,
           sale |-> "fixed", left |-> 0, seller |-> "s" ]

Kinds == { Fixed, [Fixed EXCEPT !.currency = "USD", !.shipping = NoAmount],
           [Fixed EXCEPT !.sale = "auction", !.left = 1, !.bid = 41] }

MCListings == {[l EXCEPT !.price = price] : l \in Kinds, price \in {8, 35, 77}}

Single == [ count |-> 1, cap |-> 2, total |-> 2, basis |-> "lot", llm |-> FALSE,
            reject |-> "none" ]
Pair == [Single EXCEPT !.count = 2, !.total = 4, !.basis = "unit"]
Triple == [Single EXCEPT !.count = 3, !.total = 6]
Large == [Single EXCEPT !.cap = 4, !.total = 4]
Rejected == [Single EXCEPT !.reject = "hard"]

MCSpecs == {Single, Pair, Triple, Large, Rejected}
Rates == [c \in {"USD"} |-> 92]
AdSymmetry == Permutations(Ads)
=============================================================================
