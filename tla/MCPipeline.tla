----------------------------- MODULE MCPipeline ------------------------------
(***************************************************************************)
(* Constants of the runs of Pipeline.  One money unit is a euro and the    *)
(* ceiling is 2.00 a gigabyte.  At 32 GB that is 64 and the plausibility   *)
(* floor 16: 58 and 52 are deals of one price band, which a drop of 20%    *)
(* leaves, 38 and 30 of another, which it need not.                        *)
(***************************************************************************)
EXTENDS Pipeline, TLC

CONSTANTS a1, a2, module32, lot128, unit128, vague

Plain == [ seller |-> "s", currency |-> "EUR", shipping |-> 0, sale |-> "fixed",
           endsAt |-> 0, eligible |-> TRUE, hint |-> "none" ]

(* What the texts say: one module; a lot of four priced as a lot or by the *)
(* module; a module with no word of what the price is for.                 *)
MCWording == [t \in Texts |->
    CASE t = module32 -> {Phrase("nxm", 1, 32), Phrase("reg", 0, 0)}
      [] t = lot128 -> {Phrase("lot", 4, 0), Phrase("size", 0, 32)}
      [] t = unit128 -> {Phrase("lot", 4, 0), Phrase("size", 0, 32), Phrase("unit", 0, 0)}
      [] t = vague -> {Phrase("size", 0, 32), Phrase("reg", 0, 0)}]

(* The model settles the vague text and confirms the others.               *)
MCLlmSpec == [t \in Texts |->
    [Rules(Wording[t]) EXCEPT !.llm = TRUE, !.basis = IF t = vague THEN "lot" ELSE @,
                              !.reject = IF t = vague THEN "none" ELSE @]]

NoIndex == << >>
Rates == [c \in {"USD"} |-> 92]

(* Two ads of one seller, each with the same plain text.                   *)
TwoPlain == [a \in Ads |-> Plain]
PlainTexts == [a \in Ads |-> Texts]

(* An auction that ends at 3.                                              *)
OneAuction == [a \in Ads |-> [Plain EXCEPT !.sale = "auction", !.endsAt = 3]]

(* Sound where AdInfo and TextsOf do not tell the ads apart.               *)
AdSymmetry == Permutations(Ads)
=============================================================================
