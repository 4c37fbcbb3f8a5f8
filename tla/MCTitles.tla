------------------------------ MODULE MCTitles -------------------------------
(***************************************************************************)
(* Lots of the runs of Titles: one module, pairs and lots of four, eight   *)
(* and sixteen, priced as a whole or by the module, of every capacity the  *)
(* grammar knows and one it does not know, fitting the board or not.       *)
(***************************************************************************)
EXTENDS Titles

One == [ count |-> 1, gb |-> 32, form |-> "rdimm", speed |-> 2400, each |-> FALSE,
         listed |-> TRUE ]
Pair == [One EXCEPT !.count = 2]
Eight == [One EXCEPT !.count = 8, !.gb = 16, !.speed = 2133]

MCLots == { One, Pair, [Pair EXCEPT !.each = TRUE],
            [One EXCEPT !.count = 4, !.form = "lrdimm", !.listed = FALSE],
            [One EXCEPT !.count = 4, !.each = TRUE],
            Eight, [Eight EXCEPT !.each = TRUE, !.listed = FALSE],
            [Eight EXCEPT !.count = 16, !.gb = 8],
            [One EXCEPT !.gb = 4, !.listed = FALSE], [Pair EXCEPT !.gb = 48, !.listed = FALSE],
            [Pair EXCEPT !.gb = 128, !.listed = FALSE],
            [Pair EXCEPT !.gb = 64, !.speed = 1600, !.listed = FALSE],
            [Pair EXCEPT !.form = "udimm"], [Pair EXCEPT !.form = "sodimm"] }

Rates == [c \in {"USD"} |-> 92]
=============================================================================
