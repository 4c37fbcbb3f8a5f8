------------------------------- MODULE Erasure --------------------------------
(***************************************************************************)
(* What the handling of eBay's account deletions promises (WP10): a        *)
(* request that was accepted is carried out, unless the time to do so runs *)
(* out first; it is carried out once, and leaves nothing stored of the     *)
(* seller.                                                                 *)
(***************************************************************************)
CONSTANT Users

VARIABLES
    accepted,   \* sellers whose deletion was ever accepted
    erased,     \* those for which it was carried out
    lapsed,     \* those whose time ran out before it was
    holdings    \* sellers something is stored of

erasureVars == << accepted, erased, lapsed, holdings >>

Init == accepted = {} /\ erased = {} /\ lapsed = {} /\ holdings = {}

Hold(u) ==
    /\ holdings' = holdings \cup {u}
    /\ UNCHANGED << accepted, erased, lapsed >>

(* A request is accepted; one that lapsed may be made again.               *)
Accept(u) ==
    /\ u \notin accepted \/ u \in lapsed
    /\ accepted' = accepted \cup {u}
    /\ lapsed' = lapsed \ {u}
    /\ UNCHANGED << erased, holdings >>

(* The time of some requests runs out.                                     *)
Lapse(late) ==
    /\ late # {} /\ late \subseteq accepted \ (erased \cup lapsed)
    /\ lapsed' = lapsed \cup late
    /\ UNCHANGED << accepted, erased, holdings >>

(* A request is carried out; one that lapsed while it was worked on too.   *)
Erase(u) ==
    /\ u \in accepted \ erased
    /\ erased' = erased \cup {u}
    /\ lapsed' = lapsed \ {u}
    /\ holdings' = holdings \ {u}
    /\ UNCHANGED accepted

EraseInTime(u) == u \notin lapsed /\ Erase(u)

Next ==
    \/ \E u \in Users : Hold(u) \/ Accept(u) \/ Erase(u)
    \/ \E late \in SUBSET Users : Lapse(late)

(* A request whose time does not run out is carried out.                   *)
Spec ==
    /\ Init /\ [][Next]_erasureVars
    /\ \A u \in Users : WF_erasureVars(EraseInTime(u))
=============================================================================
