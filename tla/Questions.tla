------------------------------ MODULE Questions -------------------------------
(***************************************************************************)
(* What the LLM queue promises: draining it, however long the calls to the *)
(* model take and whatever other processes write meanwhile, is as if done  *)
(* at once.  The answers kept are those of the first entries of the lane   *)
(* as they are when the drain commits; an entry leaves with its answer,    *)
(* and nothing else takes one away.                                        *)
(***************************************************************************)
EXTENDS Naturals, FiniteSets

CONSTANTS
    NoRow,      \* no row in the table
    Ads,        \* listings
    Texts,      \* spec_hash values, of texts the rules find ambiguous
    Unknown,    \* best_case values are 0..Unknown in the order of the query: that
                \* of their text (the column is TEXT: "10.2" < "9.8"), NULL last
    Urgent,     \* the values below the margin: the urgent lane
    BatchSize   \* llm.batch_size

VARIABLES
    listings,   \* ad -> the text of its row, or NoRow
    cache,      \* text -> the spec cached for it, or NoRow
    queue       \* text -> the best_case of its entry, or NoRow

db == << listings, cache, queue >>

Answers == {"settled", "invalid"}

Init ==
    /\ listings = [a \in Ads |-> NoRow]
    /\ cache = [t \in Texts |-> NoRow]
    /\ queue = [t \in Texts |-> NoRow]

Listed(t) == \E a \in Ads : listings[a] = t
Deferred == {t \in Texts : queue[t] # NoRow /\ queue[t] \notin Urgent}

(* What a query for the first entries of the lane may return.              *)
Firsts ==
    {rows \in SUBSET Deferred :
        /\ \A t \in rows, u \in Deferred \ rows : queue[t] <= queue[u]
        /\ Cardinality(rows) <= BatchSize
        /\ Cardinality(rows) < BatchSize => rows = Deferred}

Judge(t) == cache' = [cache EXCEPT ![t] = "vague"] /\ UNCHANGED << listings, queue >>

List(a, t) == listings' = [listings EXCEPT ![a] = t] /\ UNCHANGED << cache, queue >>

Ask(t, case) ==
    /\ queue[t] = NoRow
    /\ queue' = [queue EXCEPT ![t] = case]
    /\ UNCHANGED << listings, cache >>

(* Of the first entries, those some listing has.                           *)
Answer(rows, said) ==
    /\ cache' = [t \in Texts |-> IF t \in rows /\ Listed(t) THEN said[t] ELSE cache[t]]
    /\ queue' = [t \in Texts |-> IF t \in rows /\ Listed(t) THEN NoRow ELSE queue[t]]
    /\ UNCHANGED listings

Next ==
    \/ \E t \in Texts : Judge(t)
    \/ \E t \in Texts, a \in Ads : List(a, t)
    \/ \E t \in Texts, case \in 0..Unknown : Ask(t, case)
    \/ \E rows \in Firsts, said \in [Texts -> Answers] : Answer(rows, said)

Spec == Init /\ [][Next]_db
=============================================================================
