----------------------------- MODULE MCSupervisor ----------------------------
(***************************************************************************)
(* Constants of the runs of Supervisor: two sources, backoffs of 1 to 4    *)
(* ticks, a watchdog that wants one listing and two empty cycles.          *)
(***************************************************************************)
EXTENDS Supervisor

CONSTANTS ebay, reddit, leboncoin

TwoSources == << ebay, reddit >>
AllSources == << ebay, reddit, leboncoin >>
FourSteps == << 1, 2, 3, 4 >>

(* eBay fails in every way that is handled; Reddit is up, empty or, as the *)
(* last of the order, raises what is not handled.                          *)
OneUnreliable ==
    [s \in {ebay, reddit} |-> IF s = ebay THEN FailureKinds \cup {"listings", "empty"}
                              ELSE {"listings", "empty", "exception"}]

(* What Reddit returns may not be what its collector expects.              *)
OneRaises ==
    [s \in {ebay, reddit, leboncoin} |->
        IF s = reddit THEN {"exception", "listings"} ELSE {"listings"}]
=============================================================================
