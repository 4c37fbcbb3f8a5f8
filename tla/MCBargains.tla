----------------------------- MODULE MCBargains ------------------------------
(***************************************************************************)
(* Ads of four modules of 32 GB, by the module (a1, a3) and as a lot.  The *)
(* currency of a3 has no rate and Reddit will not ship a4 here.  60 is a   *)
(* bargain for one module and implausible for four, 240 one for four and   *)
(* far from it for one.  getItem knows what each of them is.               *)
(***************************************************************************)
EXTENDS MCPipeline, Bargains

CONSTANTS a3, a4

FourOf32 == [ count |-> 4, gb |-> 32, form |-> "rdimm", speed |-> 2400, each |-> FALSE,
              listed |-> TRUE ]

MCLotOf == [a \in Ads |-> [FourOf32 EXCEPT !.each = a \in {a1, a3}]]

Sellers == [a \in Ads |->
    CASE a = a1 -> [Plain EXCEPT !.hint = "multi"]
      [] a = a2 -> [Plain EXCEPT !.hint = "lot"]
      [] a = a3 -> [Plain EXCEPT !.hint = "multi", !.currency = "CHF"]
      [] OTHER  -> [Plain EXCEPT !.eligible = FALSE]]

(* a1 and a2 share the words for a price by the module, a2 and a3 those    *)
(* for the price of a lot, a1 and a4 those for neither.                    *)
SharedTexts == [a \in Ads |->
    CASE a = a1 -> {unit128, vague} [] a = a2 -> {unit128, lot128}
      [] a = a3 -> {lot128} [] OTHER -> {vague}]
=============================================================================
