--------------------------- MODULE PipelineProofs ----------------------------
(***************************************************************************)
(* Proofs about Pipeline and Bargains, for any number of processes, ads,   *)
(* texts and faults.                                                       *)
(*                                                                         *)
(* TypeOK is not inductive: it lets a process be at a step without the     *)
(* listing, the spec or the deal the step works on.  TypeInv adds what a   *)
(* process has in hand at each step, CacheInv that a spec is cached for    *)
(* the text in hand from the moment it was found or stored.  About the     *)
(* alerts: how far the daily cap can be passed (CapInv counts the alerts   *)
(* on their way with those on record), and what a delivered notification   *)
(* that is not on record is owed to.  MuteInv orders mutes and records;    *)
(* ReadInv ties the cache to what the rules read in a text, and with it an *)
(* alert to what is sold; Rank counts the statements a listing has left.   *)
(* For one process: PriceInv, FpInv, BandInv and VerdictInv tie the stored *)
(* price, the alerts, their bands and the cache to what is in hand.        *)
(***************************************************************************)
EXTENDS Bargains, RulesProofs, FiniteSetTheorems, SequenceTheorems

(* The steps at which a process has a listing, its spec, a deal in hand.   *)
Holding == Steps \ {"idle", "next", "down"}
Specified == Holding \ {"extract"}
Notifying == {"send", "resend", "record"}

HandOK ==
    \A p \in Procs :
        /\ pc[p] \in Holding => cur[p] \in Observations
        /\ pc[p] \in Specified => spec[p] \in MemorySpec
        /\ pc[p] \in Notifying => deal[p] \in Deal

TypeInv == TypeOK /\ HandOK

(* An observed ad is a listing the rules can judge.                        *)
LEMMA ListingOfType ==
  ASSUME NEW o \in Observations, NEW at \in Nat
  PROVE  ListingOf(o, at) \in RawListing
<1>1. o.ad \in Ads /\ o.price \in Nat
  BY PipelineAssumption DEF Observations
<1>2. AdInfo[o.ad] \in AdRecord
  BY <1>1, PipelineAssumption
<1>3. AdInfo[o.ad].endsAt - at \in Int
  BY <1>2 DEF AdRecord
<1>4. QED
  BY <1>1, <1>2, <1>3 DEF ListingOf, RawListing, AdRecord

(* The cascade gives a spec, with or without the prefilter.                *)
LEMMA ExtractedType ==
  ASSUME NEW o \in Observations
  PROVE  Extracted(o) \in MemorySpec /\ ~Extracted(o).llm
<1>1. Wording[o.text] \in SUBSET Phrasings
  BY PipelineAssumption DEF Observations
<1>2. Rules(Wording[o.text]) \in MemorySpec /\ ~Rules(Wording[o.text]).llm
  BY <1>1, RulesType, RulesOwn
<1>3. /\ [Rules(Wording[o.text]) EXCEPT !.reject = "best_case_above_ceiling"] \in MemorySpec
      /\ ~[Rules(Wording[o.text]) EXCEPT !.reject = "best_case_above_ceiling"].llm
  BY <1>2 DEF MemorySpec, Reasons
<1>4. QED
  BY <1>2, <1>3 DEF Extracted, Cascade

(* The service starts with empty tables and idle processes.                *)
LEMMA InitTypeInv == Init => TypeInv
BY PipelineAssumption DEF Init, TypeInv, TypeOK, HandOK, Steps, Holding, Specified, Notifying

(* A function on 1..n is a sequence.                                       *)
LEMMA SeqOfFunction ==
  ASSUME NEW S, NEW n \in Nat, NEW f \in [1 .. n -> S]
  PROVE  f \in Seq(S)
BY SeqDef

(* A process that is done with its listing has nothing in hand.            *)
LEMMA DropTypeInv ==
  ASSUME TypeInv, NEW p \in Procs, Drop(p)
  PROVE  /\ pc' \in [Procs -> Steps]
         /\ cur' \in [Procs -> Observations \cup {NoRow}]
         /\ spec' \in [Procs -> MemorySpec \cup {NoRow}]
         /\ deal' \in [Procs -> Deal \cup {NoRow}]
         /\ HandOK'
BY DEF TypeInv, TypeOK, HandOK, Steps, Holding, Specified, Notifying, Drop, Goto

(* What an upsert stores is a row.                                         *)
LEMMA UpdatedType ==
  ASSUME TypeInv, NEW p \in Procs, pc[p] \in Holding
  PROVE  Updated(cur[p]) \in Row
<1>1. cur[p].price \in Prices /\ cur[p].text \in Texts /\ cur[p].ad \in Ads
  BY DEF TypeInv, HandOK, Observations
<1>2. ~IsNew(cur[p].ad) => listings[cur[p].ad].words \in Texts
  BY <1>1 DEF TypeInv, TypeOK, IsNew, Row
<1>3. QED
  BY <1>1, <1>2 DEF Updated, Row

(* A drain stores what the model makes of some words, not always those the *)
(* hash is of.                                                             *)
LEMMA DrainStep ==
  ASSUME NEW p \in Procs, DrainLlm(p), NEW t \in Texts
  PROVE  cache'[t] = cache[t] \/ \E w \in Texts : cache'[t] = LlmSpec[w]
<1>1. \E known \in SUBSET Texts : \E words \in [known -> Texts] :
          cache' = [u \in Texts |-> IF u \in known THEN LlmSpec[words[u]] ELSE cache[u]]
  BY DEF DrainLlm, Deferred
<1>2. PICK known \in SUBSET Texts : \E words \in [known -> Texts] :
          cache' = [u \in Texts |-> IF u \in known THEN LlmSpec[words[u]] ELSE cache[u]]
  BY <1>1
<1>3. PICK words \in [known -> Texts] :
          cache' = [u \in Texts |-> IF u \in known THEN LlmSpec[words[u]] ELSE cache[u]]
  BY <1>2
<1>4. QED
  BY <1>3

(* Every action that takes up or drops a listing keeps the types; the      *)
(* verdict of Decide is of type Deal by VerdictType.                       *)
LEMMA StepTypeInv == TypeInv /\ [Next]_vars => TypeInv'
<1> SUFFICES ASSUME TypeInv, [Next]_vars
             PROVE  TypeInv'
  OBVIOUS
<1> USE DEF TypeInv, TypeOK, HandOK, Steps, Holding, Specified, Notifying
<1>1. ASSUME NEW p \in Procs, Fetch(p)
      PROVE  TypeInv'
  BY <1>1 DEF Fetch, Goto, db
<1>2. ASSUME NEW p \in Procs, Classify(p)
      PROVE  TypeInv'
  <2>1. PICK o \in batch[p] :
            /\ batch' = [batch EXCEPT ![p] = @ \ {o}]
            /\ IF IsNew(o.ad) \/ PriceDropped(o)
               THEN Goto(p, "extract") /\ cur' = [cur EXCEPT ![p] = o]
               ELSE UNCHANGED << pc, cur >>
    BY <1>2 DEF Classify
  <2>2. o \in Observations
    BY <2>1
  <2>3. CASE IsNew(o.ad) \/ PriceDropped(o)
    <3>1. /\ pc' = [pc EXCEPT ![p] = "extract"]
          /\ cur' = [cur EXCEPT ![p] = o]
      BY <2>1, <2>3 DEF Goto
    <3>2. UNCHANGED << listings, cache, queue, alerts, clock, now, spec, deal,
                       fetches, faults, pushed >>
      BY <1>2 DEF Classify, db
    <3>3. TypeOK'
      BY <2>1, <2>2, <3>1, <3>2
    <3>4. HandOK'
      BY <1>2, <2>2, <3>1, <3>2 DEF Classify
    <3>5. QED
      BY <3>3, <3>4
  <2>4. CASE ~(IsNew(o.ad) \/ PriceDropped(o))
    BY <1>2, <2>1, <2>4 DEF Classify, db
  <2>5. QED
    BY <2>3, <2>4
<1>3. ASSUME NEW p \in Procs, FinishRun(p)
      PROVE  TypeInv'
  BY <1>3 DEF FinishRun, Goto, db
<1>4. ASSUME NEW p \in Procs, Extract(p)
      PROVE  TypeInv'
  <2>1. cur[p] \in Observations /\ cur[p].text \in Texts
    BY <1>4 DEF Extract, Observations
  <2>2. Extracted(cur[p]) \in MemorySpec
    BY <2>1, ExtractedType
  <2>3. CASE cache[cur[p].text] # NoRow
    <3>1. cache[cur[p].text] \in MemorySpec
      BY <2>1, <2>3
    <3>2. QED
      BY <1>4, <2>3, <3>1 DEF Extract, Goto, db
  <2>4. CASE cache[cur[p].text] = NoRow
    <3>1. /\ spec' = [spec EXCEPT ![p] = Extracted(cur[p])]
          /\ pc' = [pc EXCEPT ![p] = "store"]
          /\ UNCHANGED << listings, cache, queue, alerts, clock, now, batch, cur, deal, fetches, faults, pushed >>
      BY <1>4, <2>4 DEF Extract, Goto, db
    <3>2. spec' \in [Procs -> MemorySpec \cup {NoRow}]
      BY <3>1, <2>2
    <3>3. pc' \in [Procs -> Steps]
      BY <3>1
    <3>4. TypeOK'
      BY <3>1, <3>2, <3>3
    <3>5. HandOK'
      BY <3>1, <2>2, <1>4 DEF Extract
    <3>6. QED BY <3>4, <3>5
  <2>5. QED
    BY <2>3, <2>4
<1>5. ASSUME NEW p \in Procs, StoreSpec(p)
      PROVE  TypeInv'
  BY <1>5 DEF StoreSpec, Goto
<1>6. ASSUME NEW p \in Procs, Upsert(p)
      PROVE  TypeInv'
  <2>1. Updated(cur[p]) \in Row
    BY <1>6, UpdatedType DEF Upsert
  <2>2. CASE ~AdInfo[cur[p].ad].eligible
    BY <1>6, <2>1, <2>2, DropTypeInv DEF Upsert, Drop
  <2>3. CASE AdInfo[cur[p].ad].eligible
    BY <1>6, <2>1, <2>3 DEF Upsert, Goto
  <2>4. QED
    BY <2>2, <2>3
<1>7. ASSUME NEW p \in Procs, Enqueue(p)
      PROVE  TypeInv'
  BY <1>7 DEF Enqueue, Goto, Drop, LaneFor, Lanes
<1>8. ASSUME NEW p \in Procs, VerifyPriceBasis(p)
      PROVE  TypeInv'
  <2>1. spec[p] \in MemorySpec
    BY <1>8 DEF VerifyPriceBasis
  <2>2. \A b \in {"lot", "unit", "unknown"} : [spec[p] EXCEPT !.basis = b] \in MemorySpec
    BY <2>1 DEF MemorySpec
  <2>3. spec[p].basis \in {"lot", "unit", "unknown"}
    BY <2>1 DEF MemorySpec
  <2>4. PICK s \in MemorySpec : \/ UNCHANGED << spec, cache >>
                                \/ /\ spec' = [spec EXCEPT ![p] = s]
                                   /\ cache' = [cache EXCEPT ![cur[p].text] = s]
    <3>1. CASE UNCHANGED << spec, cache >>
      BY <2>1, <3>1
    <3>2. CASE ~UNCHANGED << spec, cache >>
      <4>1. PICK b \in {"lot", "unit", "unknown"} :
                /\ spec' = [spec EXCEPT ![p] = [spec[p] EXCEPT !.basis = b]]
                /\ cache' = [cache EXCEPT ![cur[p].text] = [spec[p] EXCEPT !.basis = b]]
        BY <1>8, <2>3, <3>2 DEF VerifyPriceBasis
      <4>2. QED
        BY <2>2, <4>1
    <3>3. QED
      BY <3>1, <3>2
  <2>5. /\ pc[p] = "verify" /\ pc' = [pc EXCEPT ![p] = "decide"]
        /\ UNCHANGED << listings, queue, alerts, clock, now, batch, cur, deal,
                        fetches, faults, pushed >>
    BY <1>8 DEF VerifyPriceBasis, Goto
  <2>6. /\ spec' \in [Procs -> MemorySpec \cup {NoRow}] /\ spec'[p] \in MemorySpec
        /\ \A q \in Procs \ {p} : spec'[q] = spec[q]
        /\ cache' \in [Texts -> MemorySpec \cup {NoRow}]
    <3>1. CASE UNCHANGED << spec, cache >>
      BY <2>1, <3>1
    <3>2. CASE /\ spec' = [spec EXCEPT ![p] = s]
               /\ cache' = [cache EXCEPT ![cur[p].text] = s]
      <4>1. spec \in [Procs -> MemorySpec \cup {NoRow}]
            /\ cache \in [Texts -> MemorySpec \cup {NoRow}]
        OBVIOUS
      <4>2. cache' \in [Texts -> MemorySpec \cup {NoRow}]
        BY <3>2, <4>1
      <4>3. QED
        BY <3>2, <4>1, <4>2
    <3>3. QED
      BY <2>4, <3>1, <3>2
  <2>7. TypeOK'
    BY <2>5, <2>6
  <2>8. HandOK'
    BY <2>5, <2>6
  <2>9. QED
    BY <2>7, <2>8
<1>9. ASSUME NEW p \in Procs, Decide(p)
      PROVE  TypeInv'
  <2>1. ListingOf(cur[p], now[p]) \in RawListing /\ spec[p] \in MemorySpec
    BY <1>9, ListingOfType DEF Decide
  <2>2. Verdict(p).kind = "deal" => Verdict(p) \in Deal
    BY <2>1, VerdictType DEF Verdict
  <2>3. CASE Verdict(p).kind = "llm" /\ LlmEnabled
    BY <1>9, <2>3 DEF Decide, Goto, db
  <2>4. CASE /\ ~(Verdict(p).kind = "llm" /\ LlmEnabled)
             /\ Verdict(p).kind = "deal" /\ Allowed(Verdict(p), cur[p].price, now[p])
    BY <1>9, <2>2, <2>4 DEF Decide, Goto, db
  <2>5. CASE /\ ~(Verdict(p).kind = "llm" /\ LlmEnabled)
             /\ ~(Verdict(p).kind = "deal" /\ Allowed(Verdict(p), cur[p].price, now[p]))
    BY <1>9, <2>5 DEF Decide, Goto, Drop, db
  <2>6. QED
    BY <2>3, <2>4, <2>5
<1>10. ASSUME NEW p \in Procs, SendOk(p)
       PROVE  TypeInv'
  <2>1. cur[p].ad \in Ads
    BY <1>10 DEF SendOk, Observations
  <2>2. QED
    BY <1>10, <2>1 DEF SendOk, Received, Goto, db
<1>11. ASSUME NEW p \in Procs, SendFails(p)
       PROVE  TypeInv'
  <2>1. pushed' \in [Ads -> Nat]
    BY <1>11 DEF SendFails, Received, Observations
  <2>2. CASE pc[p] = "send"
    <3>1. /\ pc' = [pc EXCEPT ![p] = "resend"] /\ faults' = faults + 1
          /\ UNCHANGED << listings, cache, queue, alerts, clock, fetches, now, batch, cur, spec, deal >>
      BY <1>11, <2>2 DEF SendFails, Goto, db
    <3>2. TypeOK'
      BY <2>1, <3>1
    <3>3. HandOK'
      BY <2>2, <3>1
    <3>4. QED
      BY <3>2, <3>3
  <2>3. CASE pc[p] # "send"
    <3>1. Drop(p) /\ UNCHANGED << listings, cache, queue, alerts, clock, fetches >>
      BY <1>11, <2>3 DEF SendFails, db
    <3>2. faults' = faults + 1 /\ UNCHANGED << now, batch >>
      BY <1>11, <3>1 DEF SendFails, Drop
    <3>3. QED
      BY <2>1, <3>1, <3>2, DropTypeInv
  <2>4. QED
    BY <2>2, <2>3
<1>12. ASSUME NEW p \in Procs, Record(p)
       PROVE  TypeInv'
  <2> DEFINE row == [ fp |-> deal[p].fp, ad |-> cur[p].ad, price |-> cur[p].price,
                      urgency |-> deal[p].urgency, sentAt |-> now[p], mutedUntil |-> 0 ]
  <2>1. row \in AlertRow
    BY <1>12 DEF Record, AlertRow, Deal, Observations
  <2>2. alerts' \in Seq(AlertRow)
    BY <1>12, <2>1 DEF Record
  <2>3. QED
    BY <1>12, <2>2 DEF Record, Goto, Drop
<1>13. ASSUME NEW p \in Procs, Crash(p)
       PROVE  TypeInv'
  BY <1>13 DEF Crash, db
<1>14. ASSUME NEW p \in Procs, Restart(p)
       PROVE  TypeInv'
  BY <1>14 DEF Restart, Goto, db
<1>15. ASSUME NEW p \in Procs, DrainLlm(p)
       PROVE  TypeInv'
  <2>1. \A t \in Texts : cache'[t] \in MemorySpec \cup {NoRow}
    BY <1>15, DrainStep, PipelineAssumption
  <2>2. cache' = [t \in Texts |-> cache'[t]]
    BY <1>15 DEF DrainLlm
  <2>3. queue' \in [Texts -> Lanes \cup {NoRow}]
    BY <1>15 DEF DrainLlm
  <2>4. UNCHANGED << listings, alerts, clock, local, fetches, faults, pushed >>
    BY <1>15 DEF DrainLlm
  <2>5. cache' \in [Texts -> MemorySpec \cup {NoRow}]
    BY <2>1, <2>2
  <2>6. QED
    BY <2>3, <2>4, <2>5 DEF local
<1>16. ASSUME NEW i \in DOMAIN alerts, Mute(alerts[i].fp)
       PROVE  TypeInv'
  <2>1. \A j \in DOMAIN alerts :
            [alerts[j] EXCEPT !.mutedUntil = clock + MuteTicks] \in AlertRow
    <3>1. TAKE j \in DOMAIN alerts
    <3>2. alerts[j] \in AlertRow /\ clock + MuteTicks \in Nat
      BY PipelineAssumption
    <3>3. QED
      BY <3>2 DEF AlertRow
  <2>2. alerts' \in [1 .. Len(alerts) -> AlertRow]
    BY <1>16, <2>1 DEF Mute
  <2>3. alerts' \in Seq(AlertRow)
    <3>1. Len(alerts) \in Nat
      OBVIOUS
    <3>2. QED
      BY <2>2, <3>1, SeqOfFunction
  <2>4. QED
    BY <1>16, <2>3 DEF Mute, local
<1>17. ASSUME Tick
       PROVE  TypeInv'
  BY <1>17 DEF Tick, db, local
<1>18. CASE UNCHANGED vars
  BY <1>18 DEF vars, db, local
<1>19. QED
  BY <1>1, <1>2, <1>3, <1>4, <1>5, <1>6, <1>7, <1>8, <1>9, <1>10, <1>11, <1>12, <1>13,
     <1>14, <1>15, <1>16, <1>17, <1>18 DEF Next, Handle

(* In every reachable state the tables and the memory of every process     *)
(* hold what the code puts there.                                          *)
THEOREM TypeCorrect == Spec => []TypeOK
<1>1. TypeInv => TypeOK
  BY DEF TypeInv
<1>2. QED
  BY <1>1, InitTypeInv, StepTypeInv, PTL DEF Spec

-----------------------------------------------------------------------------
(* Which actions write what.                                               *)

(* Only the upsert writes the listings.                                    *)
LEMMA ListingsStep ==
  [Next]_vars => UNCHANGED listings \/ \E p \in Procs : Upsert(p)
BY DEF Next, Handle, vars, db, local, Fetch, Classify, FinishRun, Extract, StoreSpec,
       Enqueue, VerifyPriceBasis, Decide, SendOk, SendFails, Record, Crash, Restart,
       DrainLlm, Mute, Tick

(* Only _store_spec, from the two places that call it, and the drain write *)
(* the cache.                                                              *)
LEMMA CacheStep ==
  [Next]_vars =>
      \/ UNCHANGED cache
      \/ \E p \in Procs : StoreSpec(p) \/ VerifyPriceBasis(p) \/ DrainLlm(p)
BY DEF Next, Handle, vars, db, local, Fetch, Classify, FinishRun, Extract, Upsert,
       Enqueue, Decide, SendOk, SendFails, Record, Crash, Restart, Mute, Tick

(* Only enqueueing and the drain write the LLM queue.                      *)
LEMMA QueueStep ==
  [Next]_vars => UNCHANGED queue \/ \E p \in Procs : Enqueue(p) \/ DrainLlm(p)
BY DEF Next, Handle, vars, db, local, Fetch, Classify, FinishRun, Extract, StoreSpec,
       Upsert, VerifyPriceBasis, Decide, SendOk, SendFails, Record, Crash, Restart,
       Mute, Tick

(* Only the INSERT of a sent alert and a mute write the alerts.            *)
LEMMA AlertsStep ==
  [Next]_vars =>
      \/ UNCHANGED alerts
      \/ \E p \in Procs : Record(p)
      \/ \E i \in DOMAIN alerts : Mute(alerts[i].fp)
BY DEF Next, Handle, vars, db, local, Fetch, Classify, FinishRun, Extract, StoreSpec,
       Upsert, Enqueue, VerifyPriceBasis, Decide, SendOk, SendFails, Crash, Restart,
       DrainLlm, Tick

(* A step is one of a process, which leaves the memory of the others       *)
(* alone, or it leaves that of all alone.                                  *)
StepOf(p) ==
    Fetch(p) \/ Handle(p) \/ DrainLlm(p) \/ SendFails(p) \/ Crash(p) \/ Restart(p)

(* A step that touches the memory of a process is a step of a process.     *)
LEMMA SomeoneSteps ==
  [Next]_vars => UNCHANGED local \/ \E p \in Procs : StepOf(p)
BY DEF Next, StepOf, vars, Mute, Tick

(* A step of a process leaves what any other has in hand.                  *)
LEMMA OthersUntouched ==
  ASSUME TypeInv, NEW p \in Procs, StepOf(p), NEW q \in Procs \ {p}
  PROVE  /\ pc'[q] = pc[q] /\ cur'[q] = cur[q] /\ spec'[q] = spec[q]
         /\ deal'[q] = deal[q] /\ now'[q] = now[q]
<1> USE DEF TypeInv, TypeOK, Goto, Drop, local
<1>1. CASE Fetch(p) \/ Classify(p) \/ FinishRun(p) \/ Extract(p)
  BY <1>1 DEF Fetch, Classify, FinishRun, Extract
<1>2. CASE StoreSpec(p) \/ Upsert(p) \/ Enqueue(p) \/ VerifyPriceBasis(p)
  BY <1>2 DEF StoreSpec, Upsert, Enqueue, VerifyPriceBasis
<1>3. CASE Decide(p) \/ SendOk(p) \/ Record(p)
  BY <1>3 DEF Decide, SendOk, Record
<1>4. CASE DrainLlm(p) \/ SendFails(p) \/ Crash(p) \/ Restart(p)
  BY <1>4 DEF DrainLlm, SendFails, Crash, Restart
<1>5. QED
  BY <1>1, <1>2, <1>3, <1>4 DEF StepOf, Handle

-----------------------------------------------------------------------------
(* The cache covers the listings because it also covers what every process *)
(* has in hand once the spec was stored or found.                          *)
Cached == Specified \ {"store"}

SpecStored == \A p \in Procs : pc[p] \in Cached => cache[cur[p].text] # NoRow

CacheInv == TypeInv /\ CacheCoversListings /\ SpecStored

(* A text that has a spec keeps one.                                       *)
LEMMA CacheGrows ==
  ASSUME TypeInv, [Next]_vars, NEW t \in Texts, cache[t] # NoRow
  PROVE  cache'[t] # NoRow
<1> USE DEF TypeInv, TypeOK, HandOK, Steps, Holding, Specified
<1>1. NoRow \notin MemorySpec
  BY PipelineAssumption
<1>2. ASSUME NEW p \in Procs, StoreSpec(p)
      PROVE  cache'[t] # NoRow
  BY <1>1, <1>2 DEF StoreSpec
<1>3. ASSUME NEW p \in Procs, VerifyPriceBasis(p)
      PROVE  cache'[t] # NoRow
  <2>1. spec[p] \in MemorySpec
    BY <1>3 DEF VerifyPriceBasis
  <2>2. \A b \in {"lot", "unit", "unknown"} : [spec[p] EXCEPT !.basis = b] \in MemorySpec
    BY <2>1 DEF MemorySpec
  <2>3. spec[p].basis \in {"lot", "unit", "unknown"}
    BY <2>1 DEF MemorySpec
  <2>4. QED
    BY <1>1, <1>3, <2>2, <2>3 DEF VerifyPriceBasis
<1>4. ASSUME NEW p \in Procs, DrainLlm(p)
      PROVE  cache'[t] # NoRow
  <2>1. \A w \in Texts : LlmSpec[w] \in MemorySpec
    BY PipelineAssumption
  <2>2. QED
    BY <1>1, <1>4, <2>1, DrainStep, PipelineAssumption
<1>5. QED
  BY <1>2, <1>3, <1>4, CacheStep

(* A process comes to a step that relies on the cached spec from another   *)
(* such step, by finding the spec, or by storing it.                       *)
LEMMA CachedStep ==
  ASSUME TypeInv, [Next]_vars, NEW p \in Procs, pc'[p] \in Cached
  PROVE  /\ cur'[p] = cur[p]
         /\ \/ pc[p] \in Cached
            \/ pc[p] = "extract" /\ cache[cur[p].text] # NoRow
            \/ StoreSpec(p)
<1> USE DEF TypeInv, TypeOK, Cached, Specified, Holding, Steps
<1>1. CASE UNCHANGED local
  BY <1>1 DEF local
<1>2. ASSUME NEW q \in Procs \ {p}, StepOf(q)
      PROVE  cur'[p] = cur[p] /\ pc[p] \in Cached
  BY <1>2, OthersUntouched
<1>3. CASE StepOf(p)
  <2> USE DEF Goto, Drop
  <2>1. CASE Fetch(p) \/ Classify(p) \/ FinishRun(p) \/ Extract(p)
    BY <2>1 DEF Fetch, Classify, FinishRun, Extract
  <2>2. CASE StoreSpec(p) \/ Upsert(p) \/ Enqueue(p) \/ VerifyPriceBasis(p)
    BY <2>2 DEF StoreSpec, Upsert, Enqueue, VerifyPriceBasis
  <2>3. CASE Decide(p) \/ SendOk(p) \/ Record(p)
    BY <2>3 DEF Decide, SendOk, Record
  <2>4. CASE DrainLlm(p) \/ SendFails(p) \/ Crash(p) \/ Restart(p)
    BY <2>4 DEF DrainLlm, SendFails, Crash, Restart, local
  <2>5. QED
    BY <1>3, <2>1, <2>2, <2>3, <2>4 DEF StepOf, Handle
<1>4. QED
  BY <1>1, <1>2, <1>3, SomeoneSteps

(* Empty tables are covered.                                               *)
LEMMA InitCacheInv == Init => CacheInv
<1>1. Init => CacheCoversListings /\ SpecStored
  BY DEF Init, CacheCoversListings, SpecStored, Cached, Specified, Holding, Steps
<1>2. QED
  BY <1>1, InitTypeInv DEF CacheInv

(* Every statement keeps the tables covered: the upsert and the enqueueing *)
(* come after the spec was found or stored, and no spec is ever removed.   *)
LEMMA StepCacheInv == CacheInv /\ [Next]_vars => CacheInv'
<1> SUFFICES ASSUME CacheInv, [Next]_vars
             PROVE  CacheInv'
  OBVIOUS
<1>1. TypeInv /\ TypeInv'
  BY StepTypeInv DEF CacheInv
<1>2. ASSUME NEW p \in Procs, pc[p] \in Holding
      PROVE  cur[p].text \in Texts /\ cur[p].ad \in Ads /\ cur[p].price \in Prices
  BY <1>1, <1>2 DEF TypeInv, HandOK, Observations
<1>3. ASSUME NEW a \in Ads, listings'[a] # NoRow
      PROVE  cache'[listings'[a].text] # NoRow
  <2>1. CASE UNCHANGED listings
    <3>1. listings[a].text \in Texts /\ cache[listings[a].text] # NoRow
      BY <1>1, <1>3, <2>1 DEF TypeInv, TypeOK, Row, CacheInv, CacheCoversListings
    <3>2. QED
      BY <1>1, <2>1, <3>1, CacheGrows
  <2>2. ASSUME NEW p \in Procs, Upsert(p)
        PROVE  cache'[listings'[a].text] # NoRow
    <3>1. pc[p] \in Cached /\ pc[p] \in Holding
      BY <2>2 DEF Upsert, Cached, Specified, Holding, Steps
    <3>2. cache[cur[p].text] # NoRow /\ UNCHANGED cache
      BY <2>2, <3>1 DEF CacheInv, SpecStored, Upsert
    <3>3. listings' = [listings EXCEPT ![cur[p].ad] = Updated(cur[p])]
          /\ Updated(cur[p]).text = cur[p].text
      BY <2>2 DEF Upsert, Updated
    <3>4. listings[a] # NoRow => cache[listings[a].text] # NoRow
      BY DEF CacheInv, CacheCoversListings
    <3>5. QED
      BY <1>1, <1>3, <3>2, <3>3, <3>4 DEF TypeInv, TypeOK
  <2>3. QED
    BY <2>1, <2>2, ListingsStep
<1>4. ASSUME NEW t \in Texts, queue'[t] # NoRow
      PROVE  cache'[t] # NoRow
  <2>1. CASE UNCHANGED queue
    BY <1>1, <1>4, <2>1, CacheGrows DEF CacheInv, CacheCoversListings
  <2>2. ASSUME NEW p \in Procs, Enqueue(p)
        PROVE  cache'[t] # NoRow
    <3>1. pc[p] \in Cached
      BY <2>2 DEF Enqueue, Cached, Specified, Holding, Steps
    <3>2. cache[cur[p].text] # NoRow /\ UNCHANGED cache
      BY <2>2, <3>1 DEF CacheInv, SpecStored, Enqueue
    <3>3. t # cur[p].text => queue[t] # NoRow
      BY <1>1, <1>4, <2>2 DEF Enqueue, TypeInv, TypeOK
    <3>4. QED
      BY <3>2, <3>3 DEF CacheInv, CacheCoversListings
  <2>3. ASSUME NEW p \in Procs, DrainLlm(p)
        PROVE  cache'[t] # NoRow
    <3>1. queue[t] # NoRow
      BY <1>4, <2>3 DEF DrainLlm
    <3>2. QED
      BY <1>1, <3>1, CacheGrows DEF CacheInv, CacheCoversListings
  <2>4. QED
    BY <2>1, <2>2, <2>3, QueueStep
<1>5. ASSUME NEW p \in Procs, pc'[p] \in Cached
      PROVE  cache'[cur'[p].text] # NoRow
  <2>1. cur'[p] = cur[p]
    BY <1>1, <1>5, CachedStep
  <2>2. CASE pc[p] \in Cached
    <3>1. cur[p].text \in Texts /\ cache[cur[p].text] # NoRow
      BY <1>2, <2>2 DEF CacheInv, SpecStored, Cached, Specified
    <3>2. QED
      BY <1>1, <2>1, <3>1, CacheGrows
  <2>3. CASE pc[p] = "extract" /\ cache[cur[p].text] # NoRow
    <3>1. cur[p].text \in Texts
      BY <1>2, <2>3 DEF Holding, Steps
    <3>2. QED
      BY <1>1, <2>1, <2>3, <3>1, CacheGrows
  <2>4. CASE StoreSpec(p)
    <3>1. pc[p] = "store" /\ cache' = [cache EXCEPT ![cur[p].text] = spec[p]]
      BY <2>4 DEF StoreSpec
    <3>2. cur[p].text \in Texts /\ spec[p] \in MemorySpec
      BY <1>1, <1>2, <3>1 DEF TypeInv, HandOK, Specified, Holding, Steps
    <3>3. QED
      BY <1>1, <2>1, <3>1, <3>2, PipelineAssumption DEF TypeInv, TypeOK
  <2>5. QED
    BY <1>1, <1>5, <2>2, <2>3, <2>4, CachedStep
<1>6. QED
  BY <1>1, <1>3, <1>4, <1>5 DEF CacheInv, CacheCoversListings, SpecStored

(* A stored listing and a text in the queue always have a spec, for any    *)
(* number of processes and wherever they crash.                            *)
THEOREM CacheCovers == Spec => []CacheCoversListings
<1>1. CacheInv => CacheCoversListings
  BY DEF CacheInv
<1>2. QED
  BY <1>1, InitCacheInv, StepCacheInv, PTL DEF Spec

(* The alerts of a day and those of an ad are finite sets.                 *)
LEMMA AlertsFinite ==
  ASSUME TypeInv
  PROVE  /\ Len(alerts) \in Nat /\ DOMAIN alerts = 1 .. Len(alerts)
         /\ \A i \in DOMAIN alerts : alerts[i] \in AlertRow
         /\ \A d : IsFiniteSet(UrgentOn(d))
         /\ \A a : IsFiniteSet(RowsOfAd(a))
<1>1. /\ Len(alerts) \in Nat /\ DOMAIN alerts = 1 .. Len(alerts)
      /\ \A i \in DOMAIN alerts : alerts[i] \in AlertRow
  BY DEF TypeInv, TypeOK
<1>2. IsFiniteSet(1 .. Len(alerts))
  BY <1>1, FS_Interval
<1>3. \A d : UrgentOn(d) \in SUBSET (1 .. Len(alerts))
  BY <1>1 DEF UrgentOn
<1>4. \A a : RowsOfAd(a) \in SUBSET (1 .. Len(alerts))
  BY <1>1 DEF RowsOfAd
<1>5. QED
  BY <1>1, <1>2, <1>3, <1>4, FS_Subset

(* A process comes to a send or to its record from another of them with    *)
(* the same deal and date, or by deciding it.                              *)
LEMMA NotifyingStep ==
  ASSUME TypeInv, [Next]_vars, NEW p \in Procs, pc'[p] \in Notifying
  PROVE  \/ pc[p] \in Notifying /\ deal'[p] = deal[p] /\ now'[p] = now[p]
         \/ Decide(p)
<1> USE DEF TypeInv, TypeOK, Notifying, Steps
<1>1. CASE UNCHANGED local
  BY <1>1 DEF local
<1>2. ASSUME NEW q \in Procs \ {p}, StepOf(q)
      PROVE  pc[p] \in Notifying /\ deal'[p] = deal[p] /\ now'[p] = now[p]
  BY <1>2, OthersUntouched
<1>3. CASE StepOf(p)
  <2> USE DEF Goto, Drop
  <2>1. CASE Fetch(p) \/ Classify(p) \/ FinishRun(p) \/ Extract(p)
    BY <2>1 DEF Fetch, Classify, FinishRun, Extract
  <2>2. CASE StoreSpec(p) \/ Upsert(p) \/ Enqueue(p) \/ VerifyPriceBasis(p)
    BY <2>2 DEF StoreSpec, Upsert, Enqueue, VerifyPriceBasis
  <2>3. CASE SendOk(p) \/ Record(p)
    BY <2>3 DEF SendOk, Record
  <2>4. CASE DrainLlm(p) \/ SendFails(p) \/ Crash(p) \/ Restart(p)
    BY <2>4 DEF DrainLlm, SendFails, Crash, Restart, local
  <2>5. QED
    BY <1>3, <2>1, <2>2, <2>3, <2>4 DEF StepOf, Handle
<1>4. QED
  BY <1>1, <1>2, <1>3, SomeoneSteps

-----------------------------------------------------------------------------
(* The urgent alerts of a day, on record and on their way, are within the  *)
(* cap and one place for each other process.                               *)
Sending(day) ==
    {p \in Procs : pc[p] \in Notifying /\ deal[p].urgency = "immediate"
                                       /\ Day(now[p]) = day}

DayOK(day) ==
    Cardinality(UrgentOn(day)) + Cardinality(Sending(day))
        <= DailyCap + Cardinality(Procs) - 1

CapInv == TypeInv /\ \A day \in Int : DayOK(day)

(* Processes are finitely many, so those that send are, too.               *)
LEMMA SendingFinite ==
  ASSUME NEW day
  PROVE  /\ Cardinality(Procs) \in Nat \ {0}
         /\ IsFiniteSet(Sending(day))
         /\ Cardinality(Sending(day)) \in Nat
         /\ \A p \in Procs : p \notin Sending(day) =>
                Cardinality(Sending(day)) <= Cardinality(Procs) - 1
<1>1. IsFiniteSet(Procs) /\ Procs # {}
  BY PipelineAssumption
<1>2. Cardinality(Procs) \in Nat /\ Cardinality(Procs) # 0
  BY <1>1, FS_CardinalityType, FS_EmptySet
<1>3. Sending(day) \in SUBSET Procs
  BY DEF Sending
<1>4. IsFiniteSet(Sending(day)) /\ Cardinality(Sending(day)) \in Nat
  BY <1>1, <1>3, FS_Subset, FS_CardinalityType
<1>5. ASSUME NEW p \in Procs, p \notin Sending(day)
      PROVE  Cardinality(Sending(day)) <= Cardinality(Procs) - 1
  <2>1. Sending(day) \in SUBSET (Procs \ {p})
    BY <1>3, <1>5
  <2>2. IsFiniteSet(Procs \ {p}) /\ Cardinality(Procs \ {p}) = Cardinality(Procs) - 1
    BY <1>1, FS_RemoveElement
  <2>3. QED
    BY <2>1, <2>2, FS_Subset
<1>6. QED
  BY <1>1, <1>2, <1>4, <1>5

(* A mute leaves urgencies and dates alone, so only Record adds to a day.  *)
LEMMA UrgentStep ==
  ASSUME TypeInv, [Next]_vars, NEW day
  PROVE  UrgentOn(day)' = UrgentOn(day) \/ \E p \in Procs : Record(p)
<1>1. CASE UNCHANGED alerts
  BY <1>1 DEF UrgentOn
<1>2. ASSUME NEW fp, Mute(fp)
      PROVE  UrgentOn(day)' = UrgentOn(day)
  <2>1. DOMAIN alerts' = DOMAIN alerts
    BY <1>2 DEF Mute
  <2>2. ASSUME NEW i \in DOMAIN alerts
        PROVE  alerts'[i].urgency = alerts[i].urgency
               /\ alerts'[i].sentAt = alerts[i].sentAt
    <3>1. alerts[i] \in AlertRow
      BY AlertsFinite
    <3>2. QED
      BY <1>2, <3>1 DEF Mute, AlertRow
  <2>3. QED
    BY <2>1, <2>2 DEF UrgentOn
<1>3. QED
  BY <1>1, <1>2, AlertsStep

(* The row of a sent alert joins the day of its run if it is urgent.       *)
LEMMA RecordedDay ==
  ASSUME TypeInv, NEW p \in Procs, Record(p), NEW day
  PROVE  UrgentOn(day)' =
             IF p \in Sending(day) THEN UrgentOn(day) \cup {Len(alerts) + 1}
             ELSE UrgentOn(day)
<1> DEFINE row == [ fp |-> deal[p].fp, ad |-> cur[p].ad, price |-> cur[p].price,
                    urgency |-> deal[p].urgency, sentAt |-> now[p], mutedUntil |-> 0 ]
<1>1. alerts' = Append(alerts, row) /\ pc[p] \in Notifying
  BY DEF Record, Notifying
<1>2. /\ DOMAIN alerts' = 1 .. Len(alerts) + 1
      /\ \A i \in 1 .. Len(alerts) : alerts'[i] = alerts[i]
      /\ alerts'[Len(alerts) + 1] = row
  BY <1>1 DEF TypeInv, TypeOK
<1>3. Len(alerts) \in Nat /\ DOMAIN alerts = 1 .. Len(alerts)
  BY AlertsFinite
<1>4. p \in Sending(day) <=> row.urgency = "immediate" /\ Day(row.sentAt) = day
  BY <1>1 DEF Sending
<1>5. QED
  BY <1>2, <1>3, <1>4 DEF UrgentOn

(* A deal is decided under the cap of its day, so that the process that    *)
(* decides it is the last place left; the record frees the place it takes. *)
LEMMA StepCapInv == CapInv /\ [Next]_vars => CapInv'
<1> SUFFICES ASSUME CapInv, [Next]_vars
             PROVE  CapInv'
  OBVIOUS
<1>1. TypeInv /\ TypeInv'
  BY StepTypeInv DEF CapInv
<1> SUFFICES ASSUME NEW day \in Int
             PROVE  DayOK(day)'
  BY <1>1 DEF CapInv
<1>2. /\ IsFiniteSet(UrgentOn(day)) /\ Cardinality(UrgentOn(day)) \in Nat
      /\ IsFiniteSet(Sending(day)) /\ Cardinality(Sending(day)) \in Nat
      /\ Cardinality(Procs) \in Nat \ {0} /\ DailyCap \in Nat
  BY <1>1, AlertsFinite, SendingFinite, FS_CardinalityType, PipelineAssumption
<1>3. IsFiniteSet(Sending(day)') /\ Cardinality(Sending(day)') \in Nat
  <2>1. IsFiniteSet(Procs) /\ Sending(day)' \in SUBSET Procs
    BY PipelineAssumption DEF Sending
  <2>2. QED
    BY <2>1, FS_Subset, FS_CardinalityType
<1>4. DayOK(day)
  BY DEF CapInv
<1>5. CASE \E p \in Procs : Decide(p)
  <2>1. PICK p \in Procs : Decide(p)
    BY <1>5
  <2>2. pc[p] = "decide" /\ UNCHANGED << alerts, now >>
    BY <2>1 DEF Decide, db, Drop
  <2>3. UrgentOn(day)' = UrgentOn(day) /\ p \notin Sending(day)
    BY <2>2 DEF UrgentOn, Sending, Notifying
  <2>4. ASSUME NEW q \in Procs \ {p}
        PROVE  q \in Sending(day)' <=> q \in Sending(day)
    <3>1. StepOf(p)
      BY <2>1 DEF StepOf, Handle
    <3>2. QED
      BY <1>1, <3>1, OthersUntouched DEF Sending
  <2>5. Sending(day)' \subseteq Sending(day) \cup {p}
    BY <2>4 DEF Sending
  <2>6. CASE p \notin Sending(day)'
    <3>1. Sending(day)' \in SUBSET Sending(day)
      BY <2>5, <2>6
    <3>2. Cardinality(Sending(day)') <= Cardinality(Sending(day))
      BY <1>2, <3>1, FS_Subset
    <3>3. QED
      BY <1>2, <1>3, <1>4, <2>3, <3>2 DEF DayOK
  <2>7. CASE p \in Sending(day)'
    <3>1. /\ pc'[p] = "send" /\ deal'[p].urgency = "immediate" /\ Day(now[p]) = day
          /\ deal' = [deal EXCEPT ![p] = Verdict(p)]
          /\ Allowed(Verdict(p), cur[p].price, now[p])
      BY <1>1, <2>1, <2>2, <2>7
         DEF Decide, Sending, Notifying, Goto, Drop, TypeInv, TypeOK
    <3>2. Verdict(p).urgency = "immediate"
      BY <1>1, <3>1 DEF TypeInv, TypeOK
    <3>3. Cardinality(UrgentOn(day)) < DailyCap
      BY <3>1, <3>2 DEF Allowed
    <3>4. Cardinality(Sending(day)) <= Cardinality(Procs) - 1
      BY <2>3, SendingFinite
    <3>5. Sending(day)' = Sending(day) \cup {p}
      BY <2>4, <2>5, <2>7 DEF Sending
    <3>6. Cardinality(Sending(day)') = Cardinality(Sending(day)) + 1
      BY <1>2, <2>3, <3>5, FS_AddElement
    <3>7. QED
      BY <1>2, <2>3, <3>3, <3>4, <3>6 DEF DayOK
  <2>8. QED
    BY <2>6, <2>7
<1>6. CASE \E p \in Procs : Record(p)
  <2>1. PICK p \in Procs : Record(p)
    BY <1>6
  <2>2. pc[p] = "record" /\ pc'[p] = "next"
    BY <1>1, <2>1 DEF Record, Drop, Goto, TypeInv, TypeOK
  <2>3. ASSUME NEW q \in Procs \ {p}
        PROVE  q \in Sending(day)' <=> q \in Sending(day)
    <3>1. StepOf(p)
      BY <2>1 DEF StepOf, Handle
    <3>2. QED
      BY <1>1, <3>1, OthersUntouched DEF Sending
  <2>4. Sending(day)' = Sending(day) \ {p}
    BY <2>2, <2>3 DEF Sending, Notifying
  <2>5. UrgentOn(day)' = IF p \in Sending(day) THEN UrgentOn(day) \cup {Len(alerts) + 1}
                         ELSE UrgentOn(day)
    BY <1>1, <2>1, RecordedDay
  <2>6. Len(alerts) + 1 \notin UrgentOn(day)
    BY <1>1, AlertsFinite DEF UrgentOn
  <2>7. CASE p \in Sending(day)
    <3>1. Cardinality(UrgentOn(day)') = Cardinality(UrgentOn(day)) + 1
      BY <1>2, <2>5, <2>6, <2>7, FS_AddElement
    <3>2. Cardinality(Sending(day)') = Cardinality(Sending(day)) - 1
      BY <1>2, <2>4, <2>7, FS_RemoveElement
    <3>3. QED
      BY <1>2, <1>4, <3>1, <3>2 DEF DayOK
  <2>8. CASE p \notin Sending(day)
    <3>1. Sending(day)' = Sending(day) /\ UrgentOn(day)' = UrgentOn(day)
      BY <2>4, <2>5, <2>8
    <3>2. QED
      BY <1>4, <3>1 DEF DayOK
  <2>9. QED
    BY <2>7, <2>8
<1>7. CASE \A p \in Procs : ~Decide(p) /\ ~Record(p)
  <2>1. UrgentOn(day)' = UrgentOn(day)
    BY <1>1, <1>7, UrgentStep
  <2>2. Sending(day)' \in SUBSET Sending(day)
    BY <1>1, <1>7, NotifyingStep DEF Sending
  <2>3. Cardinality(Sending(day)') <= Cardinality(Sending(day))
    BY <1>2, <2>2, FS_Subset
  <2>4. QED
    BY <1>2, <1>3, <1>4, <2>1, <2>3 DEF DayOK
<1>8. QED
  BY <1>5, <1>6, <1>7

(* However many processes run cycles over the database, the urgent alerts  *)
(* of a day pass the cap by less than their number.                        *)
THEOREM CapHolds == Spec => []UrgentCap
<1>1. Init => CapInv
  <2> SUFFICES ASSUME Init
               PROVE  CapInv
    OBVIOUS
  <2>1. TypeInv
    BY InitTypeInv
  <2>2. ASSUME NEW day \in Int
        PROVE  DayOK(day)
    <3>1. UrgentOn(day) = {} /\ Sending(day) = {}
      BY DEF Init, UrgentOn, Sending, Notifying
    <3>2. Cardinality(Procs) \in Nat \ {0} /\ DailyCap \in Nat
      BY SendingFinite, PipelineAssumption
    <3>3. QED
      BY <3>1, <3>2, FS_EmptySet DEF DayOK
  <2>3. QED
    BY <2>1, <2>2 DEF CapInv
<1>2. CapInv => UrgentCap
  <2> SUFFICES ASSUME CapInv, NEW i \in DOMAIN alerts
               PROVE  Cardinality(UrgentOn(Day(alerts[i].sentAt)))
                          <= DailyCap + Cardinality(Procs) - 1
    BY DEF UrgentCap
  <2>1. TypeInv /\ alerts[i] \in AlertRow
    BY AlertsFinite DEF CapInv
  <2>2. PICK day \in Int : day = Day(alerts[i].sentAt)
    BY <2>1, PipelineAssumption DEF Day, AlertRow
  <2>3. DayOK(day) /\ Cardinality(UrgentOn(day)) \in Nat
    BY <2>1, AlertsFinite, FS_CardinalityType DEF CapInv
  <2>4. Cardinality(Sending(day)) \in Nat /\ Cardinality(Procs) \in Nat /\ DailyCap \in Nat
    BY SendingFinite, PipelineAssumption
  <2>5. QED
    BY <2>2, <2>3, <2>4 DEF DayOK
<1>3. QED
  BY <1>1, <1>2, StepCapInv, PTL DEF Spec

-----------------------------------------------------------------------------
(* What is on record or about to be, and what its owner received.          *)
Noted(a) == Cardinality(RowsOfAd(a)) + Cardinality(Recording(a))

PushesInv == TypeInv /\ PushesAccounted

(* Processes are finitely many, so those about to record are, too.         *)
LEMMA RecordingFinite ==
  ASSUME NEW a
  PROVE  IsFiniteSet(Recording(a)) /\ Cardinality(Recording(a)) \in Nat
<1>1. IsFiniteSet(Procs) /\ Recording(a) \in SUBSET Procs
  BY PipelineAssumption DEF Recording
<1>2. QED
  BY <1>1, FS_Subset, FS_CardinalityType

(* A process comes to its record by a send that succeeded only, and leaves *)
(* it by the INSERT or by a crash.                                         *)
LEMMA RecordingStep ==
  ASSUME TypeInv, [Next]_vars, NEW p \in Procs,
         ~SendOk(p), ~Record(p), ~Crash(p), NEW a
  PROVE  p \in Recording(a)' <=> p \in Recording(a)
<1> USE DEF TypeInv, TypeOK, Recording
<1>1. CASE UNCHANGED local
  BY <1>1 DEF local
<1>2. ASSUME NEW q \in Procs \ {p}, StepOf(q)
      PROVE  p \in Recording(a)' <=> p \in Recording(a)
  BY <1>2, OthersUntouched
<1>3. CASE StepOf(p)
  <2> USE DEF Goto, Drop, Steps
  <2>1. CASE Fetch(p) \/ Classify(p) \/ FinishRun(p) \/ Extract(p)
    BY <2>1 DEF Fetch, Classify, FinishRun, Extract
  <2>2. CASE StoreSpec(p) \/ Upsert(p) \/ Enqueue(p) \/ VerifyPriceBasis(p)
    BY <2>2 DEF StoreSpec, Upsert, Enqueue, VerifyPriceBasis
  <2>3. CASE Decide(p) \/ SendFails(p) \/ Restart(p)
    BY <2>3 DEF Decide, SendFails, Restart
  <2>4. CASE DrainLlm(p)
    BY <2>4 DEF DrainLlm, local
  <2>5. QED
    BY <1>3, <2>1, <2>2, <2>3, <2>4 DEF StepOf, Handle
<1>4. QED
  BY <1>1, <1>2, <1>3, SomeoneSteps

(* A mute leaves the ads alone, so only Record adds to the rows of one.    *)
LEMMA RowsStep ==
  ASSUME TypeInv, [Next]_vars, NEW a, \A p \in Procs : ~Record(p)
  PROVE  RowsOfAd(a)' = RowsOfAd(a)
<1>1. CASE UNCHANGED alerts
  BY <1>1 DEF RowsOfAd
<1>2. ASSUME NEW fp, Mute(fp)
      PROVE  RowsOfAd(a)' = RowsOfAd(a)
  <2>1. DOMAIN alerts' = DOMAIN alerts
    BY <1>2 DEF Mute
  <2>2. ASSUME NEW i \in DOMAIN alerts
        PROVE  alerts'[i].ad = alerts[i].ad
    <3>1. alerts[i] \in AlertRow
      BY AlertsFinite
    <3>2. QED
      BY <1>2, <3>1 DEF Mute, AlertRow
  <2>3. QED
    BY <2>1, <2>2 DEF RowsOfAd
<1>3. QED
  BY <1>1, <1>2, AlertsStep

(* The row of a sent alert joins those of its ad.                          *)
LEMMA RecordedAd ==
  ASSUME TypeInv, NEW p \in Procs, Record(p), NEW a
  PROVE  RowsOfAd(a)' = IF p \in Recording(a) THEN RowsOfAd(a) \cup {Len(alerts) + 1}
                        ELSE RowsOfAd(a)
<1> DEFINE row == [ fp |-> deal[p].fp, ad |-> cur[p].ad, price |-> cur[p].price,
                    urgency |-> deal[p].urgency, sentAt |-> now[p], mutedUntil |-> 0 ]
<1>1. alerts' = Append(alerts, row) /\ pc[p] = "record"
  BY DEF Record
<1>2. /\ DOMAIN alerts' = 1 .. Len(alerts) + 1
      /\ \A i \in 1 .. Len(alerts) : alerts'[i] = alerts[i]
      /\ alerts'[Len(alerts) + 1] = row
  BY <1>1 DEF TypeInv, TypeOK
<1>3. Len(alerts) \in Nat /\ DOMAIN alerts = 1 .. Len(alerts)
  BY AlertsFinite
<1>4. p \in Recording(a) <=> row.ad = a
  BY <1>1 DEF Recording
<1>5. QED
  BY <1>2, <1>3, <1>4 DEF RowsOfAd

(* Besides a send that succeeds, only a fault has a notification received. *)
LEMMA PushedStep ==
  ASSUME TypeInv, [Next]_vars, \A p \in Procs : ~SendOk(p) /\ ~Crash(p), NEW a \in Ads
  PROVE  \/ UNCHANGED << pushed, faults >>
         \/ faults' = faults + 1 /\ pushed'[a] \in {pushed[a], pushed[a] + 1}
<1>1. ASSUME NEW p \in Procs, SendFails(p)
      PROVE  faults' = faults + 1 /\ pushed'[a] \in {pushed[a], pushed[a] + 1}
  BY <1>1 DEF SendFails, Received, TypeInv, TypeOK
<1>2. CASE \A p \in Procs : ~SendFails(p)
  BY <1>2 DEF Next, Handle, vars, Fetch, Classify, FinishRun, Extract, StoreSpec, Upsert,
              Enqueue, VerifyPriceBasis, Decide, Record, Restart, DrainLlm, Mute, Tick
<1>3. QED
  BY <1>1, <1>2

(* Received or failed, a send moves one count with the other; a crash      *)
(* before the record is one fault and one row less.                        *)
LEMMA StepPushesInv == PushesInv /\ [Next]_vars => PushesInv'
<1> SUFFICES ASSUME PushesInv, [Next]_vars
             PROVE  PushesInv'
  OBVIOUS
<1>1. TypeInv /\ TypeInv'
  BY StepTypeInv DEF PushesInv
<1> SUFFICES ASSUME NEW a \in Ads
             PROVE  /\ Noted(a)' <= pushed'[a]
                    /\ pushed'[a] <= Noted(a)' + faults'
  BY <1>1 DEF PushesInv, PushesAccounted, Noted
<1>2. /\ IsFiniteSet(RowsOfAd(a)) /\ Cardinality(RowsOfAd(a)) \in Nat
      /\ IsFiniteSet(Recording(a)) /\ Cardinality(Recording(a)) \in Nat
      /\ pushed[a] \in Nat /\ pushed'[a] \in Nat /\ faults \in Nat /\ faults' \in Nat
  BY <1>1, AlertsFinite, RecordingFinite, FS_CardinalityType DEF TypeInv, TypeOK
<1>3. Noted(a) <= pushed[a] /\ pushed[a] <= Noted(a) + faults
  BY DEF PushesInv, PushesAccounted, Noted
<1>4. ASSUME NEW p \in Procs, StepOf(p), NEW q \in Procs \ {p}
      PROVE  q \in Recording(a)' <=> q \in Recording(a)
  BY <1>1, <1>4, OthersUntouched DEF Recording
<1>5. CASE \E p \in Procs : SendOk(p)
  <2>1. PICK p \in Procs : SendOk(p)
    BY <1>5
  <2>2. /\ pc[p] \in {"send", "resend"} /\ pc'[p] = "record" /\ UNCHANGED << alerts, cur, faults >>
        /\ pushed' = [pushed EXCEPT ![cur[p].ad] = @ + 1] /\ StepOf(p)
    BY <1>1, <2>1 DEF SendOk, Received, Goto, db, TypeInv, TypeOK, StepOf, Handle
  <2>3. RowsOfAd(a)' = RowsOfAd(a) /\ p \notin Recording(a)
    BY <2>2 DEF RowsOfAd, Recording
  <2>4. CASE cur[p].ad = a
    <3>1. Recording(a)' = Recording(a) \cup {p}
      BY <1>4, <2>2, <2>4 DEF Recording
    <3>2. Cardinality(Recording(a)') = Cardinality(Recording(a)) + 1
      BY <1>2, <2>3, <3>1, FS_AddElement
    <3>3. pushed'[a] = pushed[a] + 1
      BY <1>1, <2>2, <2>4 DEF TypeInv, TypeOK
    <3>4. QED
      BY <1>2, <1>3, <2>2, <2>3, <3>2, <3>3 DEF Noted
  <2>5. CASE cur[p].ad # a
    <3>1. Recording(a)' = Recording(a)
      BY <1>4, <2>2, <2>5 DEF Recording
    <3>2. pushed'[a] = pushed[a]
      BY <1>1, <2>2, <2>5 DEF TypeInv, TypeOK
    <3>3. QED
      BY <1>3, <2>2, <2>3, <3>1, <3>2 DEF Noted
  <2>6. QED
    BY <2>4, <2>5
<1>6. CASE \E p \in Procs : Record(p)
  <2>1. PICK p \in Procs : Record(p)
    BY <1>6
  <2>2. pc'[p] = "next" /\ UNCHANGED << faults, pushed >> /\ StepOf(p)
    BY <1>1, <2>1 DEF Record, Drop, Goto, TypeInv, TypeOK, StepOf, Handle
  <2>3. Recording(a)' = Recording(a) \ {p}
    BY <1>4, <2>2 DEF Recording
  <2>4. RowsOfAd(a)' = IF p \in Recording(a) THEN RowsOfAd(a) \cup {Len(alerts) + 1}
                       ELSE RowsOfAd(a)
    BY <1>1, <2>1, RecordedAd
  <2>5. Len(alerts) + 1 \notin RowsOfAd(a)
    BY <1>1, AlertsFinite DEF RowsOfAd
  <2>6. Noted(a)' = Noted(a)
    <3>1. CASE p \in Recording(a)
      <4>1. Cardinality(RowsOfAd(a)') = Cardinality(RowsOfAd(a)) + 1
        BY <1>2, <2>4, <2>5, <3>1, FS_AddElement
      <4>2. Cardinality(Recording(a)') = Cardinality(Recording(a)) - 1
        BY <1>2, <2>3, <3>1, FS_RemoveElement
      <4>3. QED
        BY <1>2, <4>1, <4>2 DEF Noted
    <3>2. CASE p \notin Recording(a)
      <4>1. Recording(a)' = Recording(a) /\ RowsOfAd(a)' = RowsOfAd(a)
        BY <2>3, <2>4, <3>2
      <4>2. QED
        BY <4>1 DEF Noted
    <3>3. QED
      BY <3>1, <3>2
  <2>7. QED
    BY <1>3, <2>2, <2>6
<1>7. CASE \E p \in Procs : Crash(p)
  <2>1. PICK p \in Procs : Crash(p)
    BY <1>7
  <2>2. /\ pc'[p] = "down" /\ UNCHANGED << alerts, pushed >> /\ faults' = faults + 1
        /\ StepOf(p)
    BY <1>1, <2>1 DEF Crash, db, TypeInv, TypeOK, StepOf
  <2>3. Recording(a)' = Recording(a) \ {p} /\ RowsOfAd(a)' = RowsOfAd(a)
    BY <1>4, <2>2 DEF Recording, RowsOfAd
  <2>4. Cardinality(Recording(a)') \in {Cardinality(Recording(a)), Cardinality(Recording(a)) - 1}
    BY <1>2, <2>3, FS_RemoveElement
  <2>5. QED
    BY <1>2, <1>3, <2>2, <2>3, <2>4 DEF Noted
<1>8. CASE \A p \in Procs : ~SendOk(p) /\ ~Record(p) /\ ~Crash(p)
  <2>1. RowsOfAd(a)' = RowsOfAd(a)
    BY <1>1, <1>8, RowsStep
  <2>2. Recording(a)' = Recording(a)
    <3>1. \A p \in Procs : p \in Recording(a)' <=> p \in Recording(a)
      BY <1>1, <1>8, RecordingStep
    <3>2. QED
      BY <3>1 DEF Recording
  <2>3. \/ UNCHANGED << pushed, faults >>
        \/ faults' = faults + 1 /\ pushed'[a] \in {pushed[a], pushed[a] + 1}
    BY <1>1, <1>8, PushedStep
  <2>4. QED
    BY <1>2, <1>3, <2>1, <2>2, <2>3 DEF Noted
<1>9. QED
  BY <1>5, <1>6, <1>7, <1>8

(* Every alert on record was delivered, and what was delivered beyond the  *)
(* records is at most one notification for each crash or lost answer, for  *)
(* any number of processes.                                                *)
THEOREM PushesAreAccounted == Spec => []PushesAccounted
<1>1. Init => PushesInv
  <2> SUFFICES ASSUME Init, NEW a \in Ads
               PROVE  Noted(a) <= pushed[a] /\ pushed[a] <= Noted(a) + faults
    BY InitTypeInv DEF PushesInv, PushesAccounted, Noted
  <2>1. RowsOfAd(a) = {} /\ Recording(a) = {} /\ pushed[a] = 0 /\ faults = 0
    BY DEF Init, RowsOfAd, Recording
  <2>2. QED
    BY <2>1, FS_EmptySet DEF Noted
<1>2. PushesInv => PushesAccounted
  BY DEF PushesInv
<1>3. QED
  BY <1>1, <1>2, StepPushesInv, PTL DEF Spec

-----------------------------------------------------------------------------
(* What holds with one process only: prices over a whole history.          *)

(* A drop that reaches the threshold is a drop.                            *)
LEMMA DropIsLess ==
  ASSUME NEW a \in Nat \ {0}, NEW b \in Nat, DropReaches(a, b, MinDropPct)
  PROVE  b < a
<1>1. MinDropPct * a >= a
  <2>1. \A m \in Nat \ {0}, n \in Nat : m * n >= n
    BY SMT
  <2>2. QED
    BY <2>1, PipelineAssumption
<1>2. 100 * (a - b) >= MinDropPct * a /\ MinDropPct * a \in Nat
  BY PipelineAssumption DEF DropReaches
<1>3. QED
  BY <1>1, <1>2

(* It is one from any higher price, too.                                   *)
LEMMA DropFromHigher ==
  ASSUME NEW a \in Nat, NEW b \in Nat \ {0}, NEW c \in Nat, b <= a,
         DropReaches(b, c, MinDropPct)
  PROVE  DropReaches(a, c, MinDropPct)
<1> DEFINE k == 100 - MinDropPct
<1>1. MinDropPct \in Nat \ {0}
  BY PipelineAssumption
<1>2. \A n \in Nat : MinDropPct * n = 100 * n - k * n /\ k * n \in Int
  BY <1>1
<1>3. 100 * (b - c) >= MinDropPct * b
  BY DEF DropReaches
<1>4. k * b >= 100 * c
  BY <1>2, <1>3
<1>5. k \in Int
  BY <1>1
<1> HIDE DEF k
<1>6. k >= 0
  <2>1. \A m \in Int, n \in Nat \ {0} : m < 0 => m * n < 0
    BY SMT
  <2>2. QED
    BY <1>4, <1>5, <2>1
<1>7. k * a >= k * b
  <2>1. \A m \in Nat, x \in Nat, y \in Nat : x <= y => m * x <= m * y
    BY SMT
  <2>2. QED
    BY <1>5, <1>6, <2>1
<1>8. 100 * (a - c) >= MinDropPct * a
  BY <1>2, <1>4, <1>7
<1>9. QED
  BY <1>8 DEF DropReaches

(* The steps before the upsert of the listing in hand.                     *)
Before == {"extract", "store", "upsert"}

(* A process has the same listing in hand as before, on the same side of   *)
(* its upsert unless this is it, or it has just taken the listing up.      *)
LEMMA HandStep ==
  ASSUME TypeInv, [Next]_vars, NEW p \in Procs, pc'[p] \in Holding
  PROVE  \/ Classify(p) /\ pc'[p] = "extract"
         \/ /\ pc[p] \in Holding /\ cur'[p] = cur[p]
            /\ \/ Upsert(p) /\ pc'[p] \notin Before
               \/ pc[p] \in Before <=> pc'[p] \in Before
<1> USE DEF TypeInv, TypeOK, Holding, Steps, Before
<1>1. CASE UNCHANGED local
  BY <1>1 DEF local
<1>2. ASSUME NEW q \in Procs \ {p}, StepOf(q)
      PROVE  pc'[p] = pc[p] /\ cur'[p] = cur[p]
  BY <1>2, OthersUntouched
<1>3. CASE StepOf(p)
  <2> USE DEF Goto, Drop
  <2>1. CASE Fetch(p) \/ FinishRun(p) \/ Extract(p)
    BY <2>1 DEF Fetch, FinishRun, Extract
  <2>2. CASE Classify(p)
    BY <2>2 DEF Classify
  <2>3. CASE StoreSpec(p) \/ Upsert(p) \/ Enqueue(p) \/ VerifyPriceBasis(p)
    BY <2>3 DEF StoreSpec, Upsert, Enqueue, VerifyPriceBasis
  <2>4. CASE Decide(p) \/ SendOk(p) \/ Record(p)
    BY <2>4 DEF Decide, SendOk, Record
  <2>5. CASE DrainLlm(p) \/ SendFails(p) \/ Crash(p) \/ Restart(p)
    BY <2>5 DEF DrainLlm, SendFails, Crash, Restart, local
  <2>6. QED
    BY <1>3, <2>1, <2>2, <2>3, <2>4, <2>5 DEF StepOf, Handle
<1>4. QED
  BY <1>1, <1>2, <1>3, SomeoneSteps

(* A mute leaves everything of the alerts but the mute.                    *)
LEMMA MuteStep ==
  ASSUME TypeInv, NEW fp, Mute(fp)
  PROVE  /\ DOMAIN alerts' = DOMAIN alerts /\ UNCHANGED << listings, clock, local >>
         /\ \A i \in DOMAIN alerts :
                /\ alerts'[i].ad = alerts[i].ad /\ alerts'[i].fp = alerts[i].fp
                /\ alerts'[i].price = alerts[i].price /\ alerts'[i].sentAt = alerts[i].sentAt
                /\ alerts'[i].mutedUntil = IF alerts[i].fp = fp THEN clock + MuteTicks
                                           ELSE alerts[i].mutedUntil
<1>1. \A i \in DOMAIN alerts : alerts[i] \in AlertRow
  BY AlertsFinite
<1>2. QED
  BY <1>1 DEF Mute, AlertRow, RowsOfFp

LEMMA RecordStep ==
  ASSUME TypeInv, NEW p \in Procs, Record(p)
  PROVE  LET n == Len(alerts) + 1
         IN  /\ n \in Nat /\ DOMAIN alerts' = 1 .. n /\ DOMAIN alerts = 1 .. n - 1
             /\ \A i \in DOMAIN alerts : alerts'[i] = alerts[i]
             /\ alerts'[n].ad = cur[p].ad /\ alerts'[n].fp = deal[p].fp
             /\ alerts'[n].price = cur[p].price /\ alerts'[n].sentAt = now[p]
             /\ alerts'[n].mutedUntil = 0
BY AlertsFinite DEF Record, TypeInv, TypeOK

(* What is recorded of an ad was seen at no less than its stored price.    *)
PricesOK ==
    /\ \A i \in DOMAIN alerts :
           /\ listings[alerts[i].ad] # NoRow
           /\ listings[alerts[i].ad].price <= alerts[i].price
    /\ AdAlertsDecrease

(* The listing in hand is new, or cheaper by the threshold than what is    *)
(* stored and than every alert of its ad; once stored it is what is        *)
(* stored.                                                                 *)
InHandOK ==
    \A p \in Procs : pc[p] \in Holding =>
        /\ \A i \in RowsOfAd(cur[p].ad) :
               DropReaches(alerts[i].price, cur[p].price, MinDropPct)
        /\ pc[p] \in Before /\ listings[cur[p].ad] # NoRow =>
               DropReaches(listings[cur[p].ad].price, cur[p].price, MinDropPct)
        /\ pc[p] \notin Before =>
               /\ listings[cur[p].ad] # NoRow
               /\ listings[cur[p].ad].price = cur[p].price

PriceInv == TypeInv /\ PricesOK /\ InHandOK

(* What is in the tables and in hand is of positive prices.                *)
LEMMA PriceTypes ==
  ASSUME TypeInv
  PROVE  /\ \A i \in DOMAIN alerts : alerts[i].price \in Nat \ {0} /\ alerts[i].ad \in Ads
         /\ \A a \in Ads : listings[a] # NoRow => listings[a].price \in Nat \ {0}
         /\ \A p \in Procs : pc[p] \in Holding =>
                cur[p].price \in Nat \ {0} /\ cur[p].ad \in Ads
<1>1. Prices \subseteq Nat \ {0}
  BY PipelineAssumption
<1>2. \A i \in DOMAIN alerts : alerts[i].price \in Nat \ {0} /\ alerts[i].ad \in Ads
  BY <1>1, AlertsFinite DEF AlertRow
<1>3. \A a \in Ads : listings[a] # NoRow => listings[a].price \in Nat \ {0}
  BY <1>1 DEF TypeInv, TypeOK, Row
<1>4. \A p \in Procs : pc[p] \in Holding => cur[p].price \in Nat \ {0} /\ cur[p].ad \in Ads
  BY <1>1 DEF TypeInv, HandOK, Observations
<1>5. QED
  BY <1>2, <1>3, <1>4

LEMMA UpsertStep ==
  ASSUME TypeInv, NEW p \in Procs, Upsert(p)
  PROVE  /\ pc[p] = "upsert" /\ pc[p] \in Holding /\ pc[p] \in Before /\ UNCHANGED alerts
         /\ listings'[cur[p].ad] # NoRow /\ listings'[cur[p].ad].price = cur[p].price
         /\ \A a \in Ads : a # cur[p].ad => listings'[a] = listings[a]
<1>1. pc[p] = "upsert" /\ pc[p] \in Holding /\ pc[p] \in Before
  BY DEF Upsert, Holding, Steps, Before
<1>2. cur[p].ad \in Ads
  BY <1>1, PriceTypes
<1>3. Updated(cur[p]) \in Row /\ Updated(cur[p]).price = cur[p].price
  BY <1>1, UpdatedType DEF Updated
<1>4. /\ UNCHANGED alerts /\ listings \in [Ads -> Row \cup {NoRow}]
      /\ listings' = [listings EXCEPT ![cur[p].ad] = Updated(cur[p])]
  BY DEF Upsert, TypeInv, TypeOK
<1>5. NoRow \notin Row
  BY PipelineAssumption
<1>6. QED
  BY <1>1, <1>2, <1>3, <1>4, <1>5

(* A listing that is taken up is new to the tables, or cheaper by the      *)
(* threshold than the stored price, which no alert of its ad is under.     *)
LEMMA TakenUpIsCheaper ==
  ASSUME PriceInv, NEW p \in Procs, Classify(p), pc'[p] = "extract"
  PROVE  /\ \A i \in RowsOfAd(cur'[p].ad) :
                DropReaches(alerts[i].price, cur'[p].price, MinDropPct)
         /\ listings[cur'[p].ad] # NoRow =>
                DropReaches(listings[cur'[p].ad].price, cur'[p].price, MinDropPct)
<1>1. PICK o \in batch[p] : /\ IsNew(o.ad) \/ PriceDropped(o)
                            /\ cur' = [cur EXCEPT ![p] = o]
  BY DEF Classify, Goto, PriceInv, TypeInv, TypeOK
<1>2. cur'[p] = o /\ o.ad \in Ads /\ o.price \in Nat
  <2>1. o \in Observations /\ cur'[p] = o
    BY <1>1 DEF PriceInv, TypeInv, TypeOK
  <2>2. o.ad \in Ads /\ o.price \in Prices
    BY <2>1 DEF Observations
  <2>3. QED
    BY <2>1, <2>2, PipelineAssumption
<1>3. listings[o.ad] # NoRow => DropReaches(listings[o.ad].price, o.price, MinDropPct)
  BY <1>1 DEF IsNew, PriceDropped
<1>4. ASSUME NEW i \in RowsOfAd(o.ad)
      PROVE  DropReaches(alerts[i].price, o.price, MinDropPct)
  <2>1. /\ i \in DOMAIN alerts /\ listings[o.ad] # NoRow
        /\ listings[o.ad].price <= alerts[i].price
    BY <1>4 DEF RowsOfAd, PriceInv, PricesOK
  <2>2. alerts[i].price \in Nat /\ listings[o.ad].price \in Nat \ {0}
    BY <1>2, <2>1, PriceTypes DEF PriceInv
  <2>3. QED
    BY <1>2, <1>3, <2>1, <2>2, DropFromHigher
<1>5. QED
  BY <1>2, <1>3, <1>4

(* With one process, every step keeps this.                                *)
LEMMA StepPriceInv ==
  ASSUME NEW only, Procs = {only}, PriceInv, [Next]_vars
  PROVE  PriceInv'
<1> DEFINE p == only
<1>0. p \in Procs /\ \A q \in Procs : q = p
  OBVIOUS
<1>1. TypeInv /\ TypeInv'
  BY StepTypeInv DEF PriceInv
<1>2. CASE Upsert(p)
  <2>1. /\ pc[p] = "upsert" /\ pc[p] \in Holding /\ pc[p] \in Before /\ UNCHANGED alerts
        /\ listings'[cur[p].ad] # NoRow /\ listings'[cur[p].ad].price = cur[p].price
        /\ \A a \in Ads : a # cur[p].ad => listings'[a] = listings[a]
    BY <1>0, <1>1, <1>2, UpsertStep
  <2>2. ASSUME NEW i \in DOMAIN alerts, alerts[i].ad = cur[p].ad
        PROVE  cur[p].price <= alerts[i].price
    <3>1. DropReaches(alerts[i].price, cur[p].price, MinDropPct)
      BY <1>0, <2>1, <2>2 DEF PriceInv, InHandOK, RowsOfAd
    <3>2. alerts[i].price \in Nat \ {0} /\ cur[p].price \in Nat
      BY <1>0, <1>1, <2>1, PriceTypes
    <3>3. QED
      BY <3>1, <3>2, DropIsLess
  <2>3. PricesOK'
    <3>1. \A i \in DOMAIN alerts : alerts[i].ad \in Ads
      BY <1>1, PriceTypes
    <3>2. QED
      BY <2>1, <2>2, <3>1 DEF PriceInv, PricesOK, AdAlertsDecrease
  <2>4. InHandOK'
    <3>1. pc'[p] \in Holding => cur'[p] = cur[p] /\ pc'[p] \notin Before
      BY <1>0, <1>2, <2>1 DEF Upsert, Drop, Goto, Holding, Before, Steps, PriceInv, TypeInv, TypeOK
    <3>2. QED
      BY <1>0, <2>1, <3>1 DEF PriceInv, InHandOK, RowsOfAd
  <2>5. QED
    BY <1>1, <2>3, <2>4 DEF PriceInv
<1>3. CASE Record(p)
  <2> DEFINE n == Len(alerts) + 1
  <2>1. /\ n \in Nat /\ DOMAIN alerts' = 1 .. n /\ DOMAIN alerts = 1 .. n - 1
        /\ \A i \in DOMAIN alerts : alerts'[i] = alerts[i]
        /\ alerts'[n].ad = cur[p].ad /\ alerts'[n].price = cur[p].price
    BY <1>0, <1>1, <1>3, RecordStep
  <2>2. /\ pc[p] \in Holding /\ pc[p] \notin Before /\ pc'[p] \notin Holding
        /\ UNCHANGED listings
    BY <1>0, <1>1, <1>3 DEF Record, Drop, Goto, Holding, Steps, Before, TypeInv, TypeOK
  <2>3. /\ listings[cur[p].ad] # NoRow /\ listings[cur[p].ad].price = cur[p].price
        /\ \A i \in RowsOfAd(cur[p].ad) :
               DropReaches(alerts[i].price, cur[p].price, MinDropPct)
    BY <1>0, <2>2 DEF PriceInv, InHandOK
  <2>4. cur[p].price \in Nat
    BY <1>0, <1>1, <2>2, PriceTypes
  <2> HIDE DEF n
  <2>5. \A i \in DOMAIN alerts' : i \in DOMAIN alerts \/ i = n
    BY <2>1
  <2>6. \A i \in DOMAIN alerts' : /\ listings'[alerts'[i].ad] # NoRow
                                  /\ listings'[alerts'[i].ad].price <= alerts'[i].price
    BY <2>1, <2>2, <2>3, <2>4, <2>5 DEF PriceInv, PricesOK
  <2>7. ASSUME NEW i \in DOMAIN alerts', NEW j \in DOMAIN alerts', i < j,
               alerts'[i].ad = alerts'[j].ad
        PROVE  DropReaches(alerts'[i].price, alerts'[j].price, MinDropPct)
    <3>1. i \in DOMAIN alerts
      BY <2>1, <2>7
    <3>2. CASE j \in DOMAIN alerts
      BY <2>1, <2>7, <3>1, <3>2 DEF PriceInv, PricesOK, AdAlertsDecrease
    <3>3. CASE j = n
      BY <2>1, <2>3, <2>7, <3>1, <3>3 DEF RowsOfAd
    <3>4. QED
      BY <2>5, <3>2, <3>3
  <2>8. QED
    BY <1>0, <1>1, <2>2, <2>6, <2>7 DEF PriceInv, PricesOK, AdAlertsDecrease, InHandOK
<1>4. ASSUME NEW i \in DOMAIN alerts, Mute(alerts[i].fp)
      PROVE  PriceInv'
  <2>1. /\ DOMAIN alerts' = DOMAIN alerts /\ UNCHANGED << listings, pc, cur >>
        /\ \A k \in DOMAIN alerts :
               alerts'[k].ad = alerts[k].ad /\ alerts'[k].price = alerts[k].price
    BY <1>1, <1>4, MuteStep DEF local
  <2>2. PricesOK'
    BY <2>1 DEF PriceInv, PricesOK, AdAlertsDecrease
  <2>3. InHandOK'
    BY <2>1 DEF PriceInv, InHandOK, RowsOfAd
  <2>4. QED
    BY <1>1, <2>2, <2>3 DEF PriceInv
<1>5. CASE UNCHANGED << listings, alerts >> /\ ~Upsert(p)
  <2>1. PricesOK'
    BY <1>5 DEF PriceInv, PricesOK, AdAlertsDecrease
  <2>2. RowsOfAd(cur[p].ad)' = {k \in DOMAIN alerts : alerts[k].ad = cur'[p].ad}
    BY <1>5 DEF RowsOfAd
  <2>3. ASSUME pc'[p] \in Holding, Classify(p), pc'[p] = "extract"
        PROVE  InHandOK'
    <3>1. /\ \A i \in RowsOfAd(cur'[p].ad) :
                 DropReaches(alerts[i].price, cur'[p].price, MinDropPct)
          /\ listings[cur'[p].ad] # NoRow =>
                 DropReaches(listings[cur'[p].ad].price, cur'[p].price, MinDropPct)
      BY <1>0, <2>3, TakenUpIsCheaper
    <3>2. QED
      BY <1>0, <1>5, <2>3, <3>1 DEF InHandOK, RowsOfAd, Before
  <2>4. ASSUME pc[p] \in Holding, cur'[p] = cur[p], pc[p] \in Before <=> pc'[p] \in Before
        PROVE  InHandOK'
    BY <1>0, <1>5, <2>4 DEF PriceInv, InHandOK, RowsOfAd
  <2>5. pc'[p] \notin Holding => InHandOK'
    BY <1>0 DEF InHandOK
  <2>6. InHandOK'
    BY <1>0, <1>1, <1>5, <2>3, <2>4, <2>5, HandStep
  <2>7. QED
    BY <1>1, <2>1, <2>6 DEF PriceInv
<1>6. \/ Upsert(p) \/ Record(p) \/ \E i \in DOMAIN alerts : Mute(alerts[i].fp)
      \/ UNCHANGED << listings, alerts >> /\ ~Upsert(p)
  <2>1. UNCHANGED listings \/ Upsert(p)
    BY <1>0, ListingsStep
  <2>2. UNCHANGED alerts \/ Record(p) \/ \E i \in DOMAIN alerts : Mute(alerts[i].fp)
    BY <1>0, AlertsStep
  <2>3. QED
    BY <2>1, <2>2
<1>7. QED
  BY <1>2, <1>3, <1>4, <1>5, <1>6

LEMMA InitPriceInv == Init => PriceInv
<1>1. Init => PricesOK /\ InHandOK
  BY DEF Init, PricesOK, InHandOK, AdAlertsDecrease, Holding, Steps
<1>2. QED
  BY <1>1, InitTypeInv DEF PriceInv

LEMMA PriceInvHolds ==
  ASSUME NEW CONSTANT only, Procs = {only}
  PROVE  Spec => []PriceInv
<1>1. PriceInv /\ [Next]_vars => PriceInv'
  BY StepPriceInv
<1>2. QED
  BY <1>1, InitPriceInv, PTL DEF Spec

(* With one process the successive alerts of an ad are each cheaper by the *)
(* threshold, over any history of prices, texts, mutes and crashes.        *)
THEOREM AdAlertsAlwaysDecrease ==
  ASSUME NEW CONSTANT only, Procs = {only}
  PROVE  Spec => []AdAlertsDecrease
<1>1. PriceInv => AdAlertsDecrease
  BY DEF PriceInv, PricesOK
<1>2. QED
  BY <1>1, PriceInvHolds, PTL

(* With one process the stored price of an ad never goes up.               *)
THEOREM StoredPriceAlwaysDrops ==
  ASSUME NEW CONSTANT only, Procs = {only}
  PROVE  Spec => StoredPriceOnlyDrops
<1> DEFINE Drops == \A a \in Ads : listings[a] # NoRow =>
                        listings'[a] # NoRow /\ listings'[a].price <= listings[a].price
<1>1. PriceInv /\ [Next]_vars => [Drops]_vars
  <2> SUFFICES ASSUME PriceInv, [Next]_vars, NEW a \in Ads, listings[a] # NoRow
               PROVE  listings'[a] # NoRow /\ listings'[a].price <= listings[a].price
    OBVIOUS
  <2>1. TypeInv /\ only \in Procs
    BY DEF PriceInv
  <2>2. listings[a].price \in Nat \ {0}
    BY <2>1, PriceTypes
  <2>3. CASE UNCHANGED listings
    BY <2>2, <2>3
  <2>4. CASE Upsert(only) /\ a # cur[only].ad
    BY <2>1, <2>2, <2>4, UpsertStep
  <2>5. CASE Upsert(only) /\ a = cur[only].ad
    <3>1. /\ pc[only] \in Holding /\ pc[only] \in Before
          /\ listings'[a] # NoRow /\ listings'[a].price = cur[only].price
      BY <2>1, <2>5, UpsertStep
    <3>2. DropReaches(listings[a].price, cur[only].price, MinDropPct)
      BY <2>1, <2>5, <3>1 DEF PriceInv, InHandOK
    <3>3. cur[only].price \in Nat
      BY <2>1, <3>1, PriceTypes
    <3>4. QED
      BY <2>2, <3>1, <3>2, <3>3, DropIsLess
  <2>6. QED
    BY <2>3, <2>4, <2>5, ListingsStep
<1>2. QED
  BY <1>1, PriceInvHolds, PTL DEF Spec, StoredPriceOnlyDrops

-----------------------------------------------------------------------------
(* The same of the alerts of a fingerprint.  The rate limit looks at the   *)
(* last alert by date: with one process the dates never go back, so that   *)
(* is the last inserted.                                                   *)
Running == Holding \cup {"next"}

DatesOK ==
    /\ \A i \in DOMAIN alerts : alerts[i].sentAt <= clock
    /\ \A i, j \in DOMAIN alerts : i < j => alerts[i].sentAt <= alerts[j].sentAt
    /\ \A p \in Procs : pc[p] \in Running =>
           now[p] <= clock /\ \A i \in DOMAIN alerts : alerts[i].sentAt <= now[p]

(* What is being notified was allowed against every alert of its           *)
(* fingerprint.                                                            *)
AllowedOK ==
    \A p \in Procs : pc[p] \in Notifying =>
        \A i \in RowsOfFp(deal[p].fp) :
            DropReaches(alerts[i].price, cur[p].price, MinDropPct)

FpInv == TypeInv /\ DatesOK /\ AllowedOK /\ FingerprintAlertsDecrease

(* The alert the rate limit reads is one of the fingerprint's: the last    *)
(* inserted of those of the latest date.                                   *)
Latest(i, rows) ==
    \A j \in rows : \/ alerts[j].sentAt < alerts[i].sentAt
                    \/ alerts[j].sentAt = alerts[i].sentAt /\ j <= i

LEMMA LastIsLatest ==
  ASSUME TypeInv, NEW fp, RowsOfFp(fp) # {}
  PROVE  \E l \in RowsOfFp(fp) : LastAlert(fp) = alerts[l] /\ Latest(l, RowsOfFp(fp))
<1> DEFINE rows == RowsOfFp(fp)
           date == [i \in rows |-> alerts[i].sentAt]
<1>1. /\ IsFiniteSet(rows) /\ rows # {} /\ rows \subseteq Nat
      /\ \A i \in rows : alerts[i].sentAt \in Nat
  <2>1. Len(alerts) \in Nat /\ rows \in SUBSET (1 .. Len(alerts))
    BY AlertsFinite DEF RowsOfFp
  <2>2. IsFiniteSet(rows)
    <3>1. IsFiniteSet(1 .. Len(alerts))
      BY <2>1, FS_Interval
    <3>2. QED
      BY <2>1, <3>1, FS_Subset
  <2>3. \A i \in rows : alerts[i].sentAt \in Nat
    BY AlertsFinite DEF RowsOfFp, AlertRow
  <2>4. QED
    BY <2>1, <2>2, <2>3
<1> HIDE DEF rows
<1>2. PICK m \in rows : \A i \in rows : alerts[i].sentAt <= alerts[m].sentAt
  <2>1. \A i \in rows : date[i] \in Int /\ date[i] = alerts[i].sentAt
    BY <1>1
  <2> HIDE DEF date
  <2>2. \E m \in rows : \A i \in rows : date[i] <= date[m]
    BY <1>1, <2>1, Largest
  <2>3. QED
    BY <2>1, <2>2
<1> DEFINE tied == {i \in rows : alerts[i].sentAt = alerts[m].sentAt}
           index == [i \in tied |-> i]
<1>3. PICK l \in tied : \A i \in tied : i <= l
  <2>1. IsFiniteSet(tied) /\ tied # {} /\ \A i \in tied : index[i] = i /\ i \in Int
    BY <1>1, FS_Subset
  <2> HIDE DEF tied, index
  <2>2. \E l \in tied : \A i \in tied : index[i] <= index[l]
    BY <2>1, Largest
  <2>3. QED
    BY <2>1, <2>2
<1>4. l \in rows /\ Latest(l, rows)
  <2> SUFFICES ASSUME NEW j \in rows
               PROVE  \/ alerts[j].sentAt < alerts[l].sentAt
                      \/ alerts[j].sentAt = alerts[l].sentAt /\ j <= l
    BY <1>3 DEF Latest
  <2>1. CASE alerts[j].sentAt = alerts[m].sentAt
    BY <1>3, <2>1
  <2>2. CASE alerts[j].sentAt # alerts[m].sentAt
    BY <1>1, <1>2, <1>3, <2>2
  <2>3. QED
    BY <2>1, <2>2
<1>5. LastAlert(fp) = alerts[CHOOSE i \in rows : Latest(i, rows)]
  BY DEF LastAlert, Latest, rows
<1>6. LET c == CHOOSE i \in rows : Latest(i, rows)
      IN  c \in rows /\ Latest(c, rows)
  BY <1>4
<1>7. QED
  BY <1>5, <1>6 DEF rows

(* With the dates in order it is the last inserted.                        *)
LEMMA LastIsLast ==
  ASSUME TypeInv, DatesOK, NEW fp, RowsOfFp(fp) # {}
  PROVE  \E l \in RowsOfFp(fp) : /\ LastAlert(fp) = alerts[l]
                                 /\ \A j \in RowsOfFp(fp) : j <= l
<1>1. PICK l \in RowsOfFp(fp) : LastAlert(fp) = alerts[l] /\ Latest(l, RowsOfFp(fp))
  BY LastIsLatest
<1>2. \A i \in DOMAIN alerts : i \in Nat /\ alerts[i].sentAt \in Nat
  BY AlertsFinite DEF AlertRow
<1>3. ASSUME NEW j \in RowsOfFp(fp), l < j
      PROVE  FALSE
  BY <1>1, <1>2, <1>3 DEF DatesOK, Latest, RowsOfFp
<1>4. QED
  BY <1>1, <1>2, <1>3 DEF RowsOfFp

(* What is allowed is cheaper by the threshold than every alert of its     *)
(* fingerprint, not only than the last.                                    *)
LEMMA AllowedAgainstAll ==
  ASSUME TypeInv, DatesOK, FingerprintAlertsDecrease,
         NEW d, NEW price \in Nat, NEW at, FreshForFp(d, price, at)
  PROVE  \A i \in RowsOfFp(d.fp) : DropReaches(alerts[i].price, price, MinDropPct)
<1> SUFFICES ASSUME NEW i \in RowsOfFp(d.fp)
             PROVE  DropReaches(alerts[i].price, price, MinDropPct)
  OBVIOUS
<1>1. PICK l \in RowsOfFp(d.fp) : /\ LastAlert(d.fp) = alerts[l]
                                  /\ \A j \in RowsOfFp(d.fp) : j <= l
  BY LastIsLast
<1>2. /\ i \in DOMAIN alerts /\ l \in DOMAIN alerts /\ alerts[i].fp = alerts[l].fp
      /\ i \in Nat /\ l \in Nat
      /\ alerts[i].price \in Nat \ {0} /\ alerts[l].price \in Nat \ {0}
  BY <1>1, AlertsFinite, PriceTypes DEF RowsOfFp
<1>3. DropReaches(alerts[l].price, price, MinDropPct)
  BY <1>1, <1>2 DEF FreshForFp
<1>4. CASE i = l
  BY <1>3, <1>4
<1>5. CASE i # l
  <2>1. i < l
    BY <1>1, <1>2, <1>5
  <2>2. DropReaches(alerts[i].price, alerts[l].price, MinDropPct)
    BY <1>2, <2>1 DEF FingerprintAlertsDecrease
  <2>3. alerts[l].price <= alerts[i].price
    BY <1>2, <2>2, DropIsLess
  <2>4. QED
    BY <1>2, <1>3, <2>3, DropFromHigher
<1>6. QED
  BY <1>4, <1>5

(* A process that runs has kept its date, or has just read the clock.      *)
LEMMA RunningStep ==
  ASSUME TypeInv, [Next]_vars, NEW p \in Procs, pc'[p] \in Running
  PROVE  (pc[p] \in Running /\ now'[p] = now[p]) \/ (Fetch(p) /\ now'[p] = clock)
<1> USE DEF TypeInv, TypeOK, Running, Holding, Steps
<1>1. CASE UNCHANGED local
  BY <1>1 DEF local
<1>2. ASSUME NEW q \in Procs \ {p}, StepOf(q)
      PROVE  pc'[p] = pc[p] /\ now'[p] = now[p]
  BY <1>2, OthersUntouched
<1>3. CASE StepOf(p)
  <2> USE DEF Goto, Drop
  <2>1. CASE Fetch(p) \/ FinishRun(p) \/ Extract(p)
    BY <2>1 DEF Fetch, FinishRun, Extract
  <2>2. CASE Classify(p)
    BY <2>2 DEF Classify
  <2>3. CASE StoreSpec(p) \/ Upsert(p) \/ Enqueue(p) \/ VerifyPriceBasis(p)
    BY <2>3 DEF StoreSpec, Upsert, Enqueue, VerifyPriceBasis
  <2>4. CASE Decide(p) \/ SendOk(p) \/ Record(p)
    BY <2>4 DEF Decide, SendOk, Record
  <2>5. CASE DrainLlm(p) \/ SendFails(p) \/ Crash(p) \/ Restart(p)
    BY <2>5 DEF DrainLlm, SendFails, Crash, Restart, local
  <2>6. QED
    BY <1>3, <2>1, <2>2, <2>3, <2>4, <2>5 DEF StepOf, Handle
<1>4. QED
  BY <1>1, <1>2, <1>3, SomeoneSteps

(* Only the clock's own step moves it.                                     *)
LEMMA ClockStep ==
  [Next]_vars => UNCHANGED clock \/ (clock' = clock + 1 /\ UNCHANGED << db, local >>)
BY DEF Next, Handle, vars, local, Fetch, Classify, FinishRun, Extract, StoreSpec, Upsert,
       Enqueue, VerifyPriceBasis, Decide, SendOk, SendFails, Record, Crash, Restart,
       DrainLlm, Mute, Tick

(* With one process, dates are in order and every alert was allowed        *)
(* against all those before it.                                            *)
LEMMA StepFpInv ==
  ASSUME NEW only, Procs = {only}, FpInv, [Next]_vars
  PROVE  FpInv'
<1> DEFINE p == only
<1>0. p \in Procs /\ \A q \in Procs : q = p
  OBVIOUS
<1>1. TypeInv /\ TypeInv' /\ clock \in Nat /\ now[p] \in Nat
  BY <1>0, StepTypeInv DEF FpInv, TypeInv, TypeOK
<1>2. \A i \in DOMAIN alerts : alerts[i].sentAt \in Nat
  BY <1>1, AlertsFinite DEF AlertRow
<1>3. CASE Record(p)
  <2> DEFINE n == Len(alerts) + 1
  <2>1. /\ n \in Nat /\ DOMAIN alerts' = 1 .. n /\ DOMAIN alerts = 1 .. n - 1
        /\ \A i \in DOMAIN alerts : alerts'[i] = alerts[i]
        /\ alerts'[n].fp = deal[p].fp /\ alerts'[n].price = cur[p].price
        /\ alerts'[n].sentAt = now[p]
    BY <1>0, <1>1, <1>3, RecordStep
  <2>2. /\ pc[p] \in Notifying /\ pc[p] \in Running /\ pc'[p] \notin Notifying
        /\ UNCHANGED << clock, now >>
    BY <1>0, <1>1, <1>3 DEF Record, Drop, Goto, Running, Holding, Steps, Notifying, TypeInv, TypeOK
  <2> HIDE DEF n
  <2>3. \A i \in DOMAIN alerts' : i \in DOMAIN alerts \/ i = n
    BY <2>1
  <2>4. now[p] <= clock /\ \A i \in DOMAIN alerts : alerts[i].sentAt <= now[p]
    BY <1>0, <2>2 DEF FpInv, DatesOK
  <2>5. \A i, j \in DOMAIN alerts' : i < j => alerts'[i].sentAt <= alerts'[j].sentAt
    <3> SUFFICES ASSUME NEW i \in DOMAIN alerts', NEW j \in DOMAIN alerts', i < j
                 PROVE  alerts'[i].sentAt <= alerts'[j].sentAt
      OBVIOUS
    <3>1. i \in DOMAIN alerts
      BY <2>1
    <3>2. CASE j \in DOMAIN alerts
      BY <2>1, <3>1, <3>2 DEF FpInv, DatesOK
    <3>3. CASE j = n
      BY <2>1, <2>4, <3>1, <3>3
    <3>4. QED
      BY <2>3, <3>2, <3>3
  <2>6. \A i \in DOMAIN alerts' : alerts'[i].sentAt <= now[p]
    BY <1>1, <2>1, <2>3, <2>4
  <2>7. \A i \in DOMAIN alerts' : alerts'[i].sentAt <= clock
    BY <1>1, <1>2, <2>1, <2>3, <2>4
  <2>8. DatesOK'
    BY <1>0, <2>2, <2>4, <2>5, <2>6, <2>7 DEF DatesOK
  <2>9. FingerprintAlertsDecrease'
    <3> SUFFICES ASSUME NEW i \in DOMAIN alerts', NEW j \in DOMAIN alerts', i < j,
                        alerts'[i].fp = alerts'[j].fp
                 PROVE  DropReaches(alerts'[i].price, alerts'[j].price, MinDropPct)
      BY DEF FingerprintAlertsDecrease
    <3>1. i \in DOMAIN alerts
      BY <2>1
    <3>2. CASE j \in DOMAIN alerts
      BY <2>1, <3>1, <3>2 DEF FpInv, FingerprintAlertsDecrease
    <3>3. CASE j = n
      BY <1>0, <2>1, <2>2, <3>1, <3>3 DEF FpInv, AllowedOK, RowsOfFp
    <3>4. QED
      BY <2>3, <3>2, <3>3
  <2>10. AllowedOK'
    BY <1>0, <2>2 DEF AllowedOK
  <2>11. QED
    BY <1>1, <2>8, <2>9, <2>10 DEF FpInv
<1>4. ASSUME NEW k \in DOMAIN alerts, Mute(alerts[k].fp)
      PROVE  FpInv'
  <2>1. /\ DOMAIN alerts' = DOMAIN alerts /\ UNCHANGED << clock, pc, now, cur, deal >>
        /\ \A i \in DOMAIN alerts :
               /\ alerts'[i].fp = alerts[i].fp /\ alerts'[i].price = alerts[i].price
               /\ alerts'[i].sentAt = alerts[i].sentAt
    BY <1>1, <1>4, MuteStep DEF local
  <2>2. DatesOK' /\ FingerprintAlertsDecrease'
    BY <2>1 DEF FpInv, DatesOK, FingerprintAlertsDecrease
  <2>3. AllowedOK'
    BY <2>1 DEF FpInv, AllowedOK, RowsOfFp
  <2>4. QED
    BY <1>1, <2>2, <2>3 DEF FpInv
<1>5. CASE UNCHANGED alerts
  <2>1. clock' \in Nat /\ clock <= clock'
    BY <1>1, ClockStep
  <2>2. FingerprintAlertsDecrease'
    BY <1>5 DEF FpInv, FingerprintAlertsDecrease
  <2>3. ASSUME pc'[p] \in Running
        PROVE  now'[p] <= clock' /\ \A i \in DOMAIN alerts : alerts[i].sentAt <= now'[p]
    <3>1. CASE pc[p] \in Running /\ now'[p] = now[p]
      BY <1>0, <1>1, <2>1, <3>1 DEF FpInv, DatesOK
    <3>2. CASE now'[p] = clock
      BY <1>1, <2>1, <3>2 DEF FpInv, DatesOK
    <3>3. QED
      BY <1>0, <1>1, <2>3, <3>1, <3>2, RunningStep
  <2>4. \A i \in DOMAIN alerts : alerts[i].sentAt <= clock'
    BY <1>1, <1>2, <2>1 DEF FpInv, DatesOK
  <2>5. DatesOK'
    BY <1>0, <1>5, <2>3, <2>4 DEF FpInv, DatesOK
  <2>6. ASSUME pc'[p] \in Notifying
        PROVE  \A i \in RowsOfFp(deal'[p].fp) :
                   DropReaches(alerts[i].price, cur'[p].price, MinDropPct)
    <3>1. pc'[p] \in Holding /\ pc'[p] # "extract"
      BY <2>6 DEF Notifying, Holding, Steps
    <3>2. cur'[p] = cur[p] /\ pc[p] \in Holding
      BY <1>0, <1>1, <3>1, HandStep
    <3>3. CASE pc[p] \in Notifying /\ deal'[p] = deal[p]
      BY <1>0, <3>2, <3>3 DEF FpInv, AllowedOK
    <3>4. CASE Decide(p)
      <4>1. /\ deal'[p] = Verdict(p) /\ Allowed(Verdict(p), cur[p].price, now[p])
        BY <1>0, <1>1, <2>6, <3>4 DEF Decide, Goto, Drop, Notifying, TypeInv, TypeOK
      <4>2. cur[p].price \in Nat
        BY <1>0, <1>1, <3>2, PriceTypes
      <4>3. FreshForFp(Verdict(p), cur[p].price, now[p])
        BY <4>1 DEF Allowed
      <4>4. QED
        BY <3>2, <4>1, <4>2, <4>3, AllowedAgainstAll DEF FpInv
    <3>5. QED
      BY <1>0, <1>1, <2>6, <3>3, <3>4, NotifyingStep
  <2>7. AllowedOK'
    BY <1>0, <1>5, <2>6 DEF AllowedOK, RowsOfFp
  <2>8. QED
    BY <1>1, <2>2, <2>5, <2>7 DEF FpInv
<1>6. QED
  BY <1>0, <1>3, <1>4, <1>5, AlertsStep

LEMMA InitFpInv == Init => FpInv
<1>1. Init => DatesOK /\ AllowedOK /\ FingerprintAlertsDecrease
  BY DEF Init, DatesOK, AllowedOK, FingerprintAlertsDecrease, Running, Holding, Steps, Notifying
<1>2. QED
  BY <1>1, InitTypeInv DEF FpInv

(* With one process so are the successive alerts of a fingerprint, of      *)
(* whatever ads, although the rate limit looks at the last of them only.   *)
THEOREM FingerprintAlertsAlwaysDecrease ==
  ASSUME NEW CONSTANT only, Procs = {only}
  PROVE  Spec => []FingerprintAlertsDecrease
<1>1. FpInv /\ [Next]_vars => FpInv'
  BY StepFpInv
<1>2. FpInv => FingerprintAlertsDecrease
  BY DEF FpInv
<1>3. QED
  BY <1>1, <1>2, InitFpInv, PTL DEF Spec

-----------------------------------------------------------------------------
(* The fourth part of a fingerprint of one module, alerted on or about to  *)
(* be, is the band of the listed price, if that is in euros.               *)
Banded(fp, ad, price) == fp[3] = 1 /\ InEur(ad) => fp[4] = price \div FpBucket

BandInv ==
    /\ TypeInv
    /\ \A i \in DOMAIN alerts : Banded(alerts[i].fp, alerts[i].ad, alerts[i].price)
    /\ \A p \in Procs : pc[p] \in Notifying => Banded(deal[p].fp, cur[p].ad, cur[p].price)

LEMMA DecidedIsBanded ==
  ASSUME TypeInv, NEW p \in Procs, Decide(p), pc'[p] \in Notifying
  PROVE  cur'[p] = cur[p] /\ Banded(deal'[p].fp, cur[p].ad, cur[p].price)
<1> DEFINE l == ListingOf(cur[p], now[p])
<1>1. /\ cur'[p] = cur[p] /\ deal'[p] = Verdict(p) /\ Verdict(p).kind = "deal"
      /\ cur[p] \in Observations /\ spec[p] \in MemorySpec /\ now[p] \in Nat
  BY DEF Decide, Goto, Drop, Notifying, TypeInv, TypeOK, HandOK, Specified, Holding, Steps
<1>2. l \in RawListing
  BY <1>1, ListingOfType
<1>3. PICK urgency : Verdict(p) = DealOf(l, spec[p], urgency)
  BY <1>1, <1>2, DealPassedBarrier DEF Verdict
<1>4. deal'[p].fp = << l.seller, spec[p].cap, spec[p].count, PriceEur(l, spec[p]) \div FpBucket >>
  BY <1>1, <1>3 DEF DealOf, Fingerprint
<1>5. InEur(cur[p].ad) /\ spec[p].count = 1 => PriceEur(l, spec[p]) = cur[p].price
  <2>1. cur[p].price \in Nat /\ l.price = cur[p].price /\ l.currency = AdInfo[cur[p].ad].currency
    BY <1>1, PipelineAssumption DEF ListingOf, Observations
  <2> HIDE DEF l
  <2>2. QED
    BY <2>1 DEF PriceEur, ToEur, InEur
<1> HIDE DEF l
<1>6. QED
  BY <1>1, <1>4, <1>5 DEF Banded

LEMMA StepBandInv == BandInv /\ [Next]_vars => BandInv'
<1> SUFFICES ASSUME BandInv, [Next]_vars
             PROVE  BandInv'
  OBVIOUS
<1>1. TypeInv /\ TypeInv'
  BY StepTypeInv DEF BandInv
<1>2. ASSUME NEW p \in Procs, pc'[p] \in Notifying
      PROVE  Banded(deal'[p].fp, cur'[p].ad, cur'[p].price)
  <2>1. CASE Decide(p)
    BY <1>1, <1>2, <2>1, DecidedIsBanded
  <2>2. CASE pc[p] \in Notifying /\ deal'[p] = deal[p]
    <3>1. cur'[p] = cur[p]
      BY <1>1, <1>2, <2>2, HandStep DEF Notifying, Holding, Steps, Classify
    <3>2. QED
      BY <2>2, <3>1 DEF BandInv
  <2>3. QED
    BY <1>1, <1>2, <2>1, <2>2, NotifyingStep
<1>3. ASSUME NEW i \in DOMAIN alerts'
      PROVE  Banded(alerts'[i].fp, alerts'[i].ad, alerts'[i].price)
  <2>1. CASE UNCHANGED alerts
    BY <1>3, <2>1 DEF BandInv
  <2>2. ASSUME NEW p \in Procs, Record(p)
        PROVE  Banded(alerts'[i].fp, alerts'[i].ad, alerts'[i].price)
    <3>1. pc[p] \in Notifying
      BY <2>2 DEF Record, Notifying
    <3>2. i \in DOMAIN alerts \/ i = Len(alerts) + 1
      BY <1>1, <1>3, <2>2, RecordStep
    <3>3. QED
      BY <1>1, <2>2, <3>1, <3>2, RecordStep DEF BandInv
  <2>3. ASSUME NEW fp, Mute(fp)
        PROVE  Banded(alerts'[i].fp, alerts'[i].ad, alerts'[i].price)
    BY <1>1, <1>3, <2>3, MuteStep DEF BandInv
  <2>4. QED
    BY <2>1, <2>2, <2>3, AlertsStep
<1>4. QED
  BY <1>1, <1>2, <1>3 DEF BandInv, Banded, InEur

(* A drop that reaches the threshold stays in a band only if the band is   *)
(* low.                                                                    *)
LEMMA DropLeavesHighBand ==
  ASSUME NEW a \in Nat, NEW b \in Nat, NEW band \in Nat, DropReaches(a, b, MinDropPct),
         a \div FpBucket = band, b \div FpBucket = band
  PROVE  ~(MinDropPct * (band * FpBucket) > 100 * (FpBucket - 1))
<1>1. FpBucket \in Nat \ {0} /\ MinDropPct \in Nat
  BY DealsAssumption, PipelineAssumption
<1> DEFINE low == band * FpBucket
<1>2. /\ a = low + (a % FpBucket) /\ a % FpBucket \in 0..FpBucket - 1
      /\ b = low + (b % FpBucket) /\ b % FpBucket \in 0..FpBucket - 1
      /\ low \in Nat
  BY <1>1
<1> HIDE DEF low
<1>3. MinDropPct * low \in Nat /\ MinDropPct * low <= MinDropPct * a /\ MinDropPct * a \in Nat
  <2>1. low <= a
    BY <1>1, <1>2
  <2>2. QED
    BY <1>1, <1>2, <2>1, TimesGrows
<1>4. 100 * (a - b) <= 100 * (FpBucket - 1)
  BY <1>1, <1>2
<1>5. 100 * (a - b) >= MinDropPct * a
  BY DEF DropReaches
<1>6. MinDropPct * low <= 100 * (FpBucket - 1)
  BY <1>1, <1>3, <1>4, <1>5
<1>7. QED
  BY <1>1, <1>3, <1>6 DEF low

(* With one process a single module whose price band is high is alerted on *)
(* once, as far as the ads are in euros.                                   *)
THEOREM HighBandAlwaysAlertsOnce ==
  ASSUME NEW CONSTANT only, Procs = {only}
  PROVE  Spec => []HighBandAlertsOnce
<1>1. Init => BandInv
  BY InitTypeInv DEF Init, BandInv, Notifying
<1>2. FpInv /\ [Next]_vars => FpInv'
  BY StepFpInv
<1>3. FpInv /\ BandInv => HighBandAlertsOnce
  <2> SUFFICES ASSUME FpInv, BandInv, NEW i \in DOMAIN alerts, NEW j \in DOMAIN alerts,
                      i < j, alerts[i].fp = alerts[j].fp, alerts[i].fp[3] = 1,
                      InEur(alerts[i].ad), InEur(alerts[j].ad)
               PROVE  ~HighBand(alerts[i].fp)
    BY DEF HighBandAlertsOnce
  <2>1. DropReaches(alerts[i].price, alerts[j].price, MinDropPct)
    BY DEF FpInv, FingerprintAlertsDecrease
  <2>2. /\ alerts[i].price \in Nat /\ alerts[j].price \in Nat
        /\ alerts[i].fp[4] = alerts[i].price \div FpBucket
        /\ alerts[i].fp[4] = alerts[j].price \div FpBucket
    BY PriceTypes DEF BandInv, Banded
  <2>3. alerts[i].fp[4] \in Nat
    BY <2>2, DealsAssumption
  <2>4. QED
    BY <2>1, <2>2, <2>3, DropLeavesHighBand DEF HighBand
<1>4. QED
  BY <1>1, <1>2, <1>3, InitFpInv, StepBandInv, PTL DEF Spec

-----------------------------------------------------------------------------
(* With one process the spec in hand is the cached one from the moment it  *)
(* was found or stored, and what is about to be stored replaces nothing.   *)
VerdictOK ==
    \A p \in Procs :
        /\ pc[p] = "store" => cache[cur[p].text] = NoRow
        /\ pc[p] \in Cached => cache[cur[p].text] = spec[p]

VerdictInv == TypeInv /\ VerdictOK

LEMMA StepVerdictInv ==
  ASSUME NEW only, Procs = {only}, VerdictInv, [Next]_vars
  PROVE  VerdictInv'
<1> DEFINE p == only
<1>0. p \in Procs /\ \A q \in Procs : q = p
  OBVIOUS
<1>1. TypeInv /\ TypeInv'
  BY StepTypeInv DEF VerdictInv
<1>2. pc[p] \in Holding => cur[p].text \in Texts
  BY <1>0, <1>1 DEF TypeInv, HandOK, Observations
<1> USE DEF Cached, Specified, Holding, Steps
<1>3. CASE StoreSpec(p)
  BY <1>0, <1>1, <1>2, <1>3 DEF StoreSpec, Goto, VerdictInv, VerdictOK, TypeInv, TypeOK
<1>4. CASE VerifyPriceBasis(p)
  <2>1. /\ pc[p] = "verify" /\ pc'[p] = "decide" /\ cur'[p] = cur[p]
        /\ cur[p].text \in Texts /\ cache[cur[p].text] = spec[p]
    BY <1>0, <1>1, <1>2, <1>4 DEF VerifyPriceBasis, Goto, VerdictInv, VerdictOK, TypeInv, TypeOK
  <2>2. cache'[cur[p].text] = spec'[p]
    <3>1. \/ UNCHANGED << spec, cache >>
          \/ \E s : /\ spec' = [spec EXCEPT ![p] = s]
                     /\ cache' = [cache EXCEPT ![cur[p].text] = s]
      BY <1>4 DEF VerifyPriceBasis
    <3>2. QED
      BY <1>0, <1>1, <2>1, <3>1 DEF TypeInv, TypeOK
  <2>3. QED
    BY <1>0, <1>1, <2>1, <2>2 DEF VerdictInv, VerdictOK
<1>5. CASE Extract(p)
  BY <1>0, <1>1, <1>2, <1>5 DEF Extract, Goto, db, VerdictInv, VerdictOK, TypeInv, TypeOK
<1>6. CASE Fetch(p) \/ Classify(p) \/ FinishRun(p) \/ DrainLlm(p) \/ Crash(p) \/ Restart(p)
  BY <1>0, <1>1, <1>6 DEF Fetch, Classify, FinishRun, DrainLlm, Crash, Restart, Goto, db, local,
     VerdictInv, VerdictOK, TypeInv, TypeOK
<1>7. CASE Upsert(p) \/ Enqueue(p) \/ Decide(p) \/ SendOk(p) \/ SendFails(p) \/ Record(p)
  BY <1>0, <1>1, <1>7 DEF Upsert, Enqueue, Decide, SendOk, SendFails, Record, Goto, Drop, db,
     VerdictInv, VerdictOK, TypeInv, TypeOK
<1>8. CASE UNCHANGED << cache, pc, cur, spec >>
  BY <1>1, <1>8 DEF VerdictInv, VerdictOK
<1>9. QED
  BY <1>0, <1>3, <1>4, <1>5, <1>6, <1>7, <1>8 DEF Next, Handle, vars, db, local, Mute, Tick

(* With one process what the model said of a text is kept, whatever the    *)
(* rules, the price basis and the crashes make of its listings.            *)
THEOREM LlmVerdictAlwaysKept ==
  ASSUME NEW CONSTANT only, Procs = {only}
  PROVE  Spec => LlmVerdictKept
<1> DEFINE Kept == \A t \in Texts :
                       cache[t] # NoRow /\ cache[t].llm => cache'[t] # NoRow /\ cache'[t].llm
<1>1. Init => VerdictInv
  <2>1. Init => VerdictOK
    BY DEF Init, VerdictOK, Cached, Specified, Holding, Steps
  <2>2. QED
    BY <2>1, InitTypeInv DEF VerdictInv
<1>2. VerdictInv /\ [Next]_vars => VerdictInv'
  BY StepVerdictInv
<1>3. VerdictInv /\ [Next]_vars => [Kept]_vars
  <2> SUFFICES ASSUME VerdictInv, [Next]_vars, NEW t \in Texts, cache[t] # NoRow, cache[t].llm
               PROVE  cache'[t].llm
    BY CacheGrows DEF VerdictInv
  <2>0. only \in Procs /\ TypeInv
    BY DEF VerdictInv
  <2>1. CASE UNCHANGED cache
    BY <2>1
  <2>2. CASE StoreSpec(only)
    <3>1. /\ cache[cur[only].text] = NoRow
          /\ cache' = [cache EXCEPT ![cur[only].text] = spec[only]]
      BY <2>0, <2>2 DEF StoreSpec, VerdictInv, VerdictOK
    <3>2. QED
      BY <2>0, <3>1 DEF TypeInv, TypeOK
  <2>3. CASE VerifyPriceBasis(only)
    <3>1. spec[only] \in MemorySpec /\ cache[cur[only].text] = spec[only]
      BY <2>0, <2>3 DEF VerifyPriceBasis, VerdictInv, VerdictOK, TypeInv, HandOK,
         Cached, Specified, Holding, Steps
    <3>2. \A b : [spec[only] EXCEPT !.basis = b].llm = spec[only].llm
      BY <3>1 DEF MemorySpec
    <3>3. PICK b : \/ UNCHANGED cache
                   \/ cache' = [cache EXCEPT ![cur[only].text] = [spec[only] EXCEPT !.basis = b]]
      BY <2>3 DEF VerifyPriceBasis
    <3>4. CASE t = cur[only].text
      <4>1. cache \in [Texts -> MemorySpec \cup {NoRow}]
        BY <2>0 DEF TypeInv, TypeOK
      <4>2. QED
        <5>1. CASE UNCHANGED cache
          BY <5>1
        <5>2. CASE cache' = [cache EXCEPT ![t] = [spec[only] EXCEPT !.basis = b]]
          <6>1. cache'[t] = [spec[only] EXCEPT !.basis = b]
            BY <4>1, <5>2
          <6>2. spec[only].llm
            BY <3>1, <3>4
          <6>3. QED
            BY <3>2, <6>1, <6>2
        <5>3. QED
          BY <3>3, <3>4, <5>1, <5>2
    <3>5. CASE t # cur[only].text
      BY <2>0, <3>3, <3>5 DEF TypeInv, TypeOK
    <3>6. QED
      BY <3>4, <3>5
  <2>4. CASE DrainLlm(only)
    BY <2>0, <2>4, DrainStep, PipelineAssumption
  <2>5. QED
    BY <2>1, <2>2, <2>3, <2>4, CacheStep
<1>4. QED
  BY <1>1, <1>2, <1>3, PTL DEF Spec, LlmVerdictKept
-----------------------------------------------------------------------------
(* A mute writes every alert the fingerprint has, so what is muted and     *)
(* notified all the same was on its way when the mute came, or was checked *)
(* once the mute had ended.  MutesOK says so of the rows: of two rows of a *)
(* fingerprint the later is never muted for longer, and where it is muted  *)
(* for less it came too late for the mute of the earlier.  That is enough  *)
(* for the rate limit to look at one row only.                             *)
TooLate(t, until) == t <= until - MuteTicks \/ t >= until

Overtaken(i) ==
    \E j \in RowsOfFp(alerts[i].fp) :
        /\ j > i /\ alerts[j].mutedUntil < alerts[i].mutedUntil
        /\ TooLate(alerts[j].sentAt, alerts[i].mutedUntil)

LaterIsMutedLess ==
    \A i, j \in DOMAIN alerts : i < j /\ alerts[i].fp = alerts[j].fp =>
        /\ alerts[j].mutedUntil <= alerts[i].mutedUntil
        /\ alerts[j].mutedUntil < alerts[i].mutedUntil => Overtaken(i)

PendingIsLate ==
    \A p \in Procs : pc[p] \in Notifying =>
        \A i \in RowsOfFp(deal[p].fp) :
            TooLate(now[p], alerts[i].mutedUntil) \/ Overtaken(i)

MutesOK ==
    /\ LaterIsMutedLess
    /\ \A p \in Procs : pc[p] \in Running => now[p] <= clock
    /\ PendingIsLate

MuteInv == TypeInv /\ MutesOK

(* The dates, mutes and fingerprints of the alerts are of their types.     *)
LEMMA MuteTypes ==
  ASSUME TypeInv
  PROVE  /\ clock \in Nat /\ MuteTicks \in Nat /\ \A p \in Procs : now[p] \in Nat
         /\ \A i \in DOMAIN alerts : /\ i \in Nat /\ alerts[i].sentAt \in Nat
                                     /\ alerts[i].mutedUntil \in Nat
<1>1. clock \in Nat /\ MuteTicks \in Nat /\ \A p \in Procs : now[p] \in Nat
  BY PipelineAssumption DEF TypeInv, TypeOK
<1>2. \A i \in DOMAIN alerts : i \in Nat /\ alerts[i] \in AlertRow
  BY AlertsFinite DEF TypeInv, TypeOK
<1>3. QED
  BY <1>1, <1>2 DEF AlertRow

(* What the rate limit lets through is muted by no row of its fingerprint, *)
(* but those that were overtaken.                                          *)
LEMMA FreshIsOvertaken ==
  ASSUME MuteInv, NEW d, NEW price, NEW at \in Nat, FreshForFp(d, price, at),
         NEW i \in RowsOfFp(d.fp), alerts[i].mutedUntil > at
  PROVE  Overtaken(i)
<1>1. PICK l \in RowsOfFp(d.fp) : LastAlert(d.fp) = alerts[l]
  BY LastIsLatest DEF MuteInv
<1>2. ~(at < alerts[l].mutedUntil)
  BY <1>1 DEF FreshForFp
<1>3. /\ i \in DOMAIN alerts /\ l \in DOMAIN alerts /\ alerts[i].fp = alerts[l].fp
      /\ i \in Nat /\ l \in Nat
      /\ alerts[i].mutedUntil \in Nat /\ alerts[l].mutedUntil \in Nat
  BY <1>1, MuteTypes DEF RowsOfFp, MuteInv
<1>4. alerts[l].mutedUntil < alerts[i].mutedUntil
  BY <1>2, <1>3
<1>5. i < l
  <2>1. ~(l < i)
    BY <1>3, <1>4 DEF MuteInv, MutesOK, LaterIsMutedLess
  <2>2. QED
    BY <1>3, <1>4, <2>1
<1>6. QED
  BY <1>3, <1>4, <1>5 DEF MuteInv, MutesOK, LaterIsMutedLess

(* So is what a process decides to notify.                                 *)
LEMMA DecidedIsOvertaken ==
  ASSUME MuteInv, NEW p \in Procs, Decide(p), pc'[p] \in Notifying
  PROVE  /\ pc[p] = "decide" /\ pc[p] \in Running /\ now'[p] = now[p]
         /\ \A i \in RowsOfFp(deal'[p].fp) : alerts[i].mutedUntil > now[p] => Overtaken(i)
<1> USE DEF MuteInv, TypeInv, TypeOK
<1>1. /\ pc[p] = "decide" /\ now'[p] = now[p] /\ deal'[p] = Verdict(p)
      /\ Allowed(Verdict(p), cur[p].price, now[p])
  BY DEF Decide, Goto, Drop, Notifying
<1>2. now[p] \in Nat
  OBVIOUS
<1>3. \A i \in RowsOfFp(deal'[p].fp) : alerts[i].mutedUntil > now[p] => Overtaken(i)
  <2>1. FreshForFp(Verdict(p), cur[p].price, now[p])
    BY <1>1 DEF Allowed
  <2>2. QED
    BY <1>1, <1>2, <2>1, FreshIsOvertaken
<1>4. QED
  BY <1>1, <1>3 DEF Running, Holding, Steps

(* A new row is muted by none, and comes too late for the mutes of those   *)
(* before it.                                                              *)
LEMMA RecordMutesOK ==
  ASSUME MuteInv, NEW p \in Procs, Record(p), TypeInv'
  PROVE  LaterIsMutedLess' /\ PendingIsLate'
<1> DEFINE n == Len(alerts) + 1
<1>1. TypeInv
  BY DEF MuteInv
<1>2. /\ n \in Nat /\ DOMAIN alerts' = 1 .. n /\ DOMAIN alerts = 1 .. n - 1
      /\ \A i \in DOMAIN alerts : alerts'[i] = alerts[i]
      /\ alerts'[n].fp = deal[p].fp /\ alerts'[n].sentAt = now[p]
      /\ alerts'[n].mutedUntil = 0
  BY <1>1, RecordStep
<1> HIDE DEF n
<1>3. /\ \A i \in DOMAIN alerts' : i \in DOMAIN alerts \/ i = n
      /\ \A i \in DOMAIN alerts : i < n /\ i \in DOMAIN alerts'
  BY <1>2
<1>4. /\ pc[p] \in Notifying /\ pc'[p] \notin Notifying
      /\ \A q \in Procs \ {p} : pc'[q] = pc[q] /\ deal'[q] = deal[q] /\ now'[q] = now[q]
  BY <1>1 DEF Record, Drop, Goto, Notifying, TypeInv, TypeOK
<1>5. \A i \in DOMAIN alerts : Overtaken(i) => Overtaken(i)'
  BY <1>2, <1>3 DEF Overtaken, RowsOfFp
<1>6. ASSUME NEW i \in DOMAIN alerts, alerts[i].fp = deal[p].fp, alerts[i].mutedUntil > 0
      PROVE  Overtaken(i)'
  <2>1. TooLate(now[p], alerts[i].mutedUntil) \/ Overtaken(i)
    BY <1>4, <1>6 DEF MuteInv, MutesOK, PendingIsLate, RowsOfFp
  <2>2. CASE TooLate(now[p], alerts[i].mutedUntil)
    BY <1>2, <1>3, <1>6, <2>2 DEF Overtaken, RowsOfFp, TooLate
  <2>3. QED
    BY <1>5, <2>1, <2>2
<1>7. LaterIsMutedLess'
  <2> SUFFICES ASSUME NEW i \in DOMAIN alerts', NEW j \in DOMAIN alerts', i < j,
                      alerts'[i].fp = alerts'[j].fp
               PROVE  /\ alerts'[j].mutedUntil <= alerts'[i].mutedUntil
                      /\ alerts'[j].mutedUntil < alerts'[i].mutedUntil => Overtaken(i)'
    BY DEF LaterIsMutedLess
  <2>1. i \in DOMAIN alerts
    BY <1>2
  <2>2. CASE j \in DOMAIN alerts
    BY <1>2, <1>5, <2>1, <2>2 DEF MuteInv, MutesOK, LaterIsMutedLess
  <2>3. CASE j = n
    BY <1>1, <1>2, <1>6, <2>1, <2>3, MuteTypes
  <2>4. QED
    BY <1>3, <2>2, <2>3
<1>8. PendingIsLate'
  <2> SUFFICES ASSUME NEW q \in Procs, pc'[q] \in Notifying, NEW i \in DOMAIN alerts',
                      alerts'[i].fp = deal'[q].fp
               PROVE  TooLate(now'[q], alerts'[i].mutedUntil) \/ Overtaken(i)'
    BY DEF PendingIsLate, RowsOfFp, TooLate
  <2>1. q # p /\ pc[q] \in Notifying /\ deal'[q] = deal[q] /\ now'[q] = now[q]
    BY <1>4
  <2>2. CASE i \in DOMAIN alerts
    BY <1>2, <1>5, <2>1, <2>2 DEF MuteInv, MutesOK, PendingIsLate, RowsOfFp
  <2>3. CASE i = n
    BY <1>1, <1>2, <2>1, <2>3, MuteTypes DEF TooLate
  <2>4. QED
    BY <1>3, <2>2, <2>3
<1>9. QED
  BY <1>7, <1>8

(* A mute levels the rows of its fingerprint, and is after every check     *)
(* made so far.                                                            *)
LEMMA MuteMutesOK ==
  ASSUME MuteInv, NEW fp, Mute(fp)
  PROVE  LaterIsMutedLess' /\ PendingIsLate'
<1>1. TypeInv
  BY DEF MuteInv
<1>2. /\ DOMAIN alerts' = DOMAIN alerts /\ UNCHANGED << clock, pc, now, deal >>
      /\ \A i \in DOMAIN alerts :
             /\ alerts'[i].fp = alerts[i].fp /\ alerts'[i].sentAt = alerts[i].sentAt
             /\ alerts'[i].mutedUntil = IF alerts[i].fp = fp THEN clock + MuteTicks
                                        ELSE alerts[i].mutedUntil
  BY <1>1, MuteStep DEF local
<1>3. \A i \in DOMAIN alerts : alerts[i].fp # fp /\ Overtaken(i) => Overtaken(i)'
  BY <1>2 DEF Overtaken, RowsOfFp
<1>4. LaterIsMutedLess'
  <2> SUFFICES ASSUME NEW i \in DOMAIN alerts, NEW j \in DOMAIN alerts, i < j,
                      alerts[i].fp = alerts[j].fp
               PROVE  /\ alerts'[j].mutedUntil <= alerts'[i].mutedUntil
                      /\ alerts'[j].mutedUntil < alerts'[i].mutedUntil => Overtaken(i)'
    BY <1>2 DEF LaterIsMutedLess
  <2>1. CASE alerts[i].fp = fp
    <3>1. /\ alerts'[i].mutedUntil = clock + MuteTicks
          /\ alerts'[j].mutedUntil = clock + MuteTicks
      BY <1>2, <2>1
    <3>2. clock + MuteTicks \in Nat
      BY <1>1, MuteTypes
    <3>3. QED
      BY <3>1, <3>2
  <2>2. CASE alerts[i].fp # fp
    <3>1. /\ alerts[j].mutedUntil <= alerts[i].mutedUntil
          /\ alerts[j].mutedUntil < alerts[i].mutedUntil => Overtaken(i)
      BY DEF MuteInv, MutesOK, LaterIsMutedLess
    <3>2. /\ alerts'[i].mutedUntil = alerts[i].mutedUntil
          /\ alerts'[j].mutedUntil = alerts[j].mutedUntil
      BY <1>2, <2>2
    <3>3. QED
      BY <1>3, <2>2, <3>1, <3>2
  <2>3. QED
    BY <2>1, <2>2
<1>5. PendingIsLate'
  <2> SUFFICES ASSUME NEW q \in Procs, pc[q] \in Notifying, NEW i \in DOMAIN alerts,
                      alerts[i].fp = deal[q].fp
               PROVE  TooLate(now[q], alerts'[i].mutedUntil) \/ Overtaken(i)'
    BY <1>2 DEF PendingIsLate, RowsOfFp, TooLate
  <2>1. CASE alerts[i].fp = fp
    <3>1. now[q] <= clock
      BY DEF MuteInv, MutesOK, Running, Holding, Steps, Notifying
    <3>2. QED
      BY <1>1, <1>2, <2>1, <3>1, MuteTypes DEF TooLate
  <2>2. CASE alerts[i].fp # fp
    BY <1>2, <1>3, <2>2 DEF MuteInv, MutesOK, PendingIsLate, RowsOfFp
  <2>3. QED
    BY <2>1, <2>2
<1>6. QED
  BY <1>4, <1>5

(* Every step keeps this, whoever takes it.                                *)
LEMMA StepMuteInv == MuteInv /\ [Next]_vars => MuteInv'
<1> SUFFICES ASSUME MuteInv, [Next]_vars
             PROVE  MuteInv'
  OBVIOUS
<1>1. TypeInv /\ TypeInv'
  BY StepTypeInv DEF MuteInv
<1>2. ASSUME NEW p \in Procs, pc'[p] \in Running
      PROVE  now'[p] <= clock'
  <2>1. clock <= clock'
    BY <1>1, MuteTypes, ClockStep
  <2>2. CASE pc[p] \in Running /\ now'[p] = now[p]
    BY <1>1, <2>1, <2>2, MuteTypes DEF MuteInv, MutesOK, TypeInv, TypeOK
  <2>3. CASE now'[p] = clock
    BY <2>1, <2>3
  <2>4. QED
    BY <1>1, <1>2, <2>2, <2>3, RunningStep
<1>3. CASE UNCHANGED alerts
  <2>1. \A i : Overtaken(i)' <=> Overtaken(i)
    BY <1>3 DEF Overtaken, RowsOfFp, TooLate
  <2>2. LaterIsMutedLess'
    BY <1>3, <2>1 DEF MuteInv, MutesOK, LaterIsMutedLess
  <2>3. PendingIsLate'
    <3> SUFFICES ASSUME NEW p \in Procs, pc'[p] \in Notifying, NEW i \in RowsOfFp(deal'[p].fp)
                 PROVE  TooLate(now'[p], alerts[i].mutedUntil) \/ Overtaken(i)
      BY <1>3, <2>1 DEF PendingIsLate, RowsOfFp, TooLate
    <3>1. CASE pc[p] \in Notifying /\ deal'[p] = deal[p] /\ now'[p] = now[p]
      BY <3>1 DEF MuteInv, MutesOK, PendingIsLate
    <3>2. CASE Decide(p)
      <4>1. now'[p] = now[p] /\ (alerts[i].mutedUntil > now[p] => Overtaken(i))
        BY <3>2, DecidedIsOvertaken
      <4>2. alerts[i].mutedUntil \in Nat /\ now[p] \in Nat
        BY <1>1, MuteTypes DEF RowsOfFp
      <4>3. QED
        BY <4>1, <4>2 DEF TooLate
    <3>3. QED
      BY <1>1, <3>1, <3>2, NotifyingStep
  <2>4. QED
    BY <1>1, <1>2, <2>2, <2>3 DEF MuteInv, MutesOK
<1>4. ASSUME LaterIsMutedLess', PendingIsLate'
      PROVE  MuteInv'
  BY <1>1, <1>2, <1>4 DEF MuteInv, MutesOK
<1>5. ASSUME NEW p \in Procs, Record(p)
      PROVE  MuteInv'
  BY <1>1, <1>4, <1>5, RecordMutesOK
<1>6. ASSUME NEW fp, Mute(fp)
      PROVE  MuteInv'
  BY <1>4, <1>6, MuteMutesOK
<1>7. QED
  BY <1>3, <1>5, <1>6, AlertsStep

LEMMA InitMuteInv == Init => MuteInv
<1>1. Init => MutesOK
  BY DEF Init, MutesOK, LaterIsMutedLess, PendingIsLate, Running, Holding, Steps, Notifying
<1>2. QED
  BY <1>1, InitTypeInv DEF MuteInv

(* Any number of processes notifies a muted fingerprint only behind a row  *)
(* the mute came too late for: checked before it, or after its end.        *)
MutedNotifiesLate ==
    [][ \A p \in Procs : Notifies(p) =>
            \A i \in RowsOfFp(deal'[p].fp) :
                alerts[i].mutedUntil > now[p] => Overtaken(i) ]_vars

(* A process that notifies does so by its decision.                        *)
LEMMA NotifiesDecides ==
  ASSUME TypeInv, [Next]_vars, NEW p \in Procs, Notifies(p)
  PROVE  Decide(p) /\ pc'[p] \in Notifying
<1>1. pc[p] = "decide" /\ pc'[p] \in Notifying /\ pc[p] \notin Notifying
  BY DEF Notifies, Notifying
<1>2. QED
  BY <1>1, NotifyingStep

THEOREM MutedOnlyOvertaken == Spec => MutedNotifiesLate
<1>1. MuteInv /\ [Next]_vars =>
          [\A p \in Procs : Notifies(p) =>
               \A i \in RowsOfFp(deal'[p].fp) :
                   alerts[i].mutedUntil > now[p] => Overtaken(i)]_vars
  BY NotifiesDecides, DecidedIsOvertaken DEF MuteInv
<1>2. QED
  BY <1>1, InitMuteInv, StepMuteInv, PTL DEF Spec, MutedNotifiesLate

(* With one process no alert is dated after the run in hand, so what       *)
(* passed the mute was checked before it.                                  *)
THEOREM MutedAlwaysSilent ==
  ASSUME NEW CONSTANT only, Procs = {only}
  PROVE  Spec => MutedIsSilent
<1> DEFINE Silent ==
        \A p \in Procs : Notifies(p) =>
            LET rows == RowsOfFp(deal'[p].fp)
            IN  \A i \in rows : alerts[i].mutedUntil > now[p] =>
                    \E j \in rows :
                        /\ j > i /\ alerts[j].mutedUntil < alerts[i].mutedUntil
                        /\ alerts[j].sentAt <= alerts[i].mutedUntil - MuteTicks
<1>1. FpInv /\ [Next]_vars => FpInv'
  BY StepFpInv
<1>2. FpInv /\ MuteInv /\ [Next]_vars => [Silent]_vars
  <2> SUFFICES ASSUME FpInv, MuteInv, [Next]_vars, NEW p \in Procs, Notifies(p),
                      NEW i \in RowsOfFp(deal'[p].fp), alerts[i].mutedUntil > now[p]
               PROVE  \E j \in RowsOfFp(deal'[p].fp) :
                          /\ j > i /\ alerts[j].mutedUntil < alerts[i].mutedUntil
                          /\ alerts[j].sentAt <= alerts[i].mutedUntil - MuteTicks
    OBVIOUS
  <2>1. Decide(p) /\ pc'[p] \in Notifying
    BY NotifiesDecides DEF MuteInv
  <2>2. pc[p] \in Running /\ Overtaken(i)
    BY <2>1, DecidedIsOvertaken
  <2>3. PICK j \in RowsOfFp(alerts[i].fp) :
            /\ j > i /\ alerts[j].mutedUntil < alerts[i].mutedUntil
            /\ TooLate(alerts[j].sentAt, alerts[i].mutedUntil)
    BY <2>2 DEF Overtaken
  <2>4. alerts[j].sentAt <= now[p]
    BY <2>2 DEF FpInv, DatesOK, RowsOfFp
  <2>5. /\ alerts[j].sentAt \in Nat /\ now[p] \in Nat /\ alerts[i].mutedUntil \in Nat
        /\ j \in RowsOfFp(deal'[p].fp)
    BY <2>3, MuteTypes DEF RowsOfFp, MuteInv
  <2>6. QED
    BY <2>3, <2>4, <2>5 DEF TooLate
<1>3. QED
  BY <1>1, <1>2, InitFpInv, InitMuteInv, StepMuteInv, PTL DEF Spec, MutedIsSilent

-----------------------------------------------------------------------------
(* What is cached for a text, and what a process holds for its listing, is *)
(* what the rules read, but for what may be resolved or ruled out since: a *)
(* basis that the text itself settles by the module is never resolved.     *)
ReadAs(t, s) ==
    LET read == Rules(Wording[t])
    IN  ~s.llm => /\ s.count = read.count /\ s.total = read.total
                  /\ s.reject \in {read.reject, "best_case_above_ceiling"}
                  /\ read.basis = "unit" => s.basis = "unit"

ReadInv ==
    /\ TypeInv
    /\ \A t \in Texts : cache[t] # NoRow => ReadAs(t, cache[t])
    /\ \A p \in Procs : pc[p] \in Specified => ReadAs(cur[p].text, spec[p])

(* The prefilter may reject, and nothing else changes.                     *)
LEMMA ExtractedAsRead ==
  ASSUME NEW o \in Observations
  PROVE  ReadAs(o.text, Extracted(o))
<1> DEFINE read == Rules(Wording[o.text])
<1>1. read \in MemorySpec
  BY RulesType, PipelineAssumption DEF Observations
<1>2. \/ Extracted(o) = read
      \/ Extracted(o) = [read EXCEPT !.reject = "best_case_above_ceiling"]
  BY DEF Extracted, Cascade
<1> HIDE DEF read
<1>3. /\ Extracted(o).count = read.count /\ Extracted(o).total = read.total
      /\ Extracted(o).reject \in {read.reject, "best_case_above_ceiling"}
      /\ Extracted(o).basis = read.basis
  BY <1>1, <1>2 DEF MemorySpec
<1>4. QED
  BY <1>3 DEF ReadAs, read

(* An answer of getItem is taken only where the text leaves room for it.   *)
LEMMA ResolvedAsRead ==
  ASSUME TypeInv, NEW p \in Procs, VerifyPriceBasis(p), ReadAs(cur[p].text, spec[p])
  PROVE  /\ cur'[p] = cur[p] /\ ReadAs(cur[p].text, spec'[p])
         /\ \/ UNCHANGED cache
            \/ cache' = [cache EXCEPT ![cur[p].text] = spec'[p]]
<1> USE DEF TypeInv, TypeOK, HandOK, Holding, Specified, Steps
<1>1. spec[p] \in MemorySpec
  BY DEF VerifyPriceBasis
<1>2. CASE UNCHANGED << spec, cache >>
  BY <1>2 DEF VerifyPriceBasis
<1>3. CASE ~UNCHANGED << spec, cache >>
  <2>1. PICK b : /\ Asked(spec[p])
                 /\ spec' = [spec EXCEPT ![p] = [spec[p] EXCEPT !.basis = b]]
                 /\ cache' = [cache EXCEPT ![cur[p].text] = [spec[p] EXCEPT !.basis = b]]
    BY <1>3 DEF VerifyPriceBasis
  <2>2. spec'[p] = [spec[p] EXCEPT !.basis = b]
    BY <2>1
  <2>3. /\ spec'[p].count = spec[p].count /\ spec'[p].total = spec[p].total
        /\ spec'[p].reject = spec[p].reject /\ spec'[p].llm = spec[p].llm
    BY <1>1, <2>2 DEF MemorySpec
  <2>4. spec[p].basis # "unit"
    BY <2>1 DEF Asked
  <2>5. QED
    BY <2>1, <2>2, <2>3, <2>4 DEF ReadAs, VerifyPriceBasis
<1>4. QED
  BY <1>2, <1>3

LEMMA StepReadInv == ReadInv /\ [Next]_vars => ReadInv'
<1> SUFFICES ASSUME ReadInv, [Next]_vars
             PROVE  ReadInv'
  OBVIOUS
<1>1. TypeInv /\ TypeInv'
  BY StepTypeInv DEF ReadInv
<1>2. \A t \in Texts : ReadAs(t, cache[t])' <=> ReadAs(t, cache'[t])
  BY DEF ReadAs
<1>3. \A p \in Procs : ReadAs(cur[p].text, spec[p])' <=> ReadAs(cur'[p].text, spec'[p])
  BY DEF ReadAs
<1>4. ASSUME NEW t \in Texts, cache'[t] # NoRow
      PROVE  ReadAs(t, cache'[t])
  <2>1. CASE UNCHANGED cache
    BY <1>4, <2>1 DEF ReadInv
  <2>2. ASSUME NEW p \in Procs, StoreSpec(p)
        PROVE  ReadAs(t, cache'[t])
    <3>1. pc[p] \in Specified /\ cache' = [cache EXCEPT ![cur[p].text] = spec[p]]
      BY <2>2 DEF StoreSpec, Specified, Holding, Steps
    <3>2. QED
      BY <1>1, <1>4, <3>1 DEF ReadInv, TypeInv, TypeOK
  <2>3. ASSUME NEW p \in Procs, VerifyPriceBasis(p)
        PROVE  ReadAs(t, cache'[t])
    <3>1. ReadAs(cur[p].text, spec[p])
      BY <2>3 DEF ReadInv, VerifyPriceBasis, Specified, Holding, Steps
    <3>2. QED
      BY <1>1, <1>4, <2>3, <3>1, ResolvedAsRead DEF ReadInv, TypeInv, TypeOK
  <2>4. ASSUME NEW p \in Procs, DrainLlm(p)
        PROVE  ReadAs(t, cache'[t])
    <3>1. cache'[t] = cache[t] \/ \E w \in Texts : cache'[t] = LlmSpec[w]
      BY <1>1, <2>4, DrainStep
    <3>2. \A w \in Texts : ReadAs(t, LlmSpec[w])
      BY PipelineAssumption DEF ReadAs
    <3>3. QED
      BY <1>4, <3>1, <3>2 DEF ReadInv
  <2>5. QED
    BY <2>1, <2>2, <2>3, <2>4, CacheStep
<1>5. ASSUME NEW q \in Procs, pc'[q] \in Specified
      PROVE  ReadAs(cur'[q].text, spec'[q])
  <2>1. ASSUME pc[q] \in Specified, cur'[q] = cur[q], spec'[q] = spec[q]
        PROVE  ReadAs(cur'[q].text, spec'[q])
    BY <2>1 DEF ReadInv
  <2>2. CASE UNCHANGED local
    BY <1>5, <2>1, <2>2 DEF local
  <2>3. ASSUME NEW p \in Procs, StepOf(p), q # p
        PROVE  ReadAs(cur'[q].text, spec'[q])
    BY <1>1, <1>5, <2>1, <2>3, OthersUntouched
  <2>4. CASE Extract(q)
    <3>1. cur[q] \in Observations /\ cur'[q] = cur[q] /\ cur[q].text \in Texts
      BY <1>1, <2>4 DEF Extract, TypeInv, HandOK, Holding, Steps, Observations
    <3>2. \/ cache[cur[q].text] # NoRow /\ spec'[q] = cache[cur[q].text]
          \/ spec'[q] = Extracted(cur[q])
      BY <1>1, <2>4 DEF Extract, TypeInv, TypeOK
    <3>3. QED
      BY <3>1, <3>2, ExtractedAsRead DEF ReadInv
  <2>5. CASE VerifyPriceBasis(q)
    <3>1. ReadAs(cur[q].text, spec[q])
      BY <2>5 DEF ReadInv, VerifyPriceBasis, Specified, Holding, Steps
    <3>2. QED
      BY <1>1, <2>5, <3>1, ResolvedAsRead
  <2>6. CASE StoreSpec(q) \/ Upsert(q) \/ Enqueue(q) \/ Decide(q) \/ SendOk(q) \/ SendFails(q) \/ Record(q)
    <3>1. pc[q] \in Specified
      BY <2>6 DEF StoreSpec, Upsert, Enqueue, Decide, SendOk, SendFails, Record,
         Specified, Holding, Steps
    <3>2. pc'[q] # "next" => cur'[q] = cur[q] /\ spec'[q] = spec[q]
      BY <1>1, <2>6 DEF StoreSpec, Upsert, Enqueue, Decide, SendOk, SendFails, Record,
         Drop, Goto, TypeInv, TypeOK
    <3>3. QED
      BY <1>5, <2>1, <3>1, <3>2 DEF Specified, Holding
  <2>7. CASE \/ Fetch(q) \/ Classify(q) \/ FinishRun(q) \/ DrainLlm(q)
             \/ Crash(q) \/ Restart(q)
    BY <1>1, <1>5, <2>7 DEF Fetch, Classify, FinishRun, DrainLlm, Crash, Restart, Goto, local,
       Specified, Holding, Steps, TypeInv, TypeOK
  <2>8. QED
    BY <2>2, <2>3, <2>4, <2>5, <2>6, <2>7, SomeoneSteps DEF StepOf, Handle
<1>6. QED
  BY <1>1, <1>2, <1>3, <1>4, <1>5 DEF ReadInv

LEMMA InitReadInv == Init => ReadInv
BY InitTypeInv DEF Init, ReadInv, Specified, Holding, Steps

(* A verdict on an honest ad that is read as it is written.                *)
LEMMA HonestDealIsBargain ==
  ASSUME NEW o \in Observations, NEW at \in Nat, NEW s \in MemorySpec,
         ~s.llm, ReadAs(o.text, s), Honest(o),
         EvaluateDetailed(ListingOf(o, at), s, Index, Observation).kind = "deal"
  PROVE  Bargain(o)
<1> DEFINE l == LotOf[o.ad]
           w == Wording[o.text]
           read == Rules(w)
           listing == ListingOf(o, at)
           eur == ToEur(listing.price, listing.currency)
           ship == ShippingUsed(ShippingEur(listing))
           Under(cost, gb) == (cost + ship) * PerGbScale < HardCeiling * gb
<1>1. listing \in RawListing
  BY ListingOfType
<1>2. s.reject = "none" /\ Convertible(listing.currency)
  BY <1>1, DealPassedBarrier DEF EvaluateDetailed, Refused
<1>3. /\ s.count = read.count /\ s.total = read.total /\ read.reject = "none"
      /\ read.basis = "unit" => s.basis = "unit"
  BY <1>2 DEF ReadAs
<1>4. Truthful(l, w) /\ TellsSize(w) /\ TellsBasis(l, w)
  BY DEF Honest
<1>5. /\ s.count = ModuleCount(w) /\ s.total \in Nat /\ s.total <= l.gb * s.count
      /\ read.basis = PriceBasis(w)
  BY <1>3, <1>4, TotalIsReal
<1>6. l \in Lot /\ l.count \in 1..16 /\ l.gb \in Nat /\ l.each \in BOOLEAN
  BY <1>4, LotFacts DEF Truthful
<1>7. s.count \in {1, l.count}
  BY <1>4, <1>5, CountIsReal
<1>8. eur \in Nat /\ ship \in Nat
  BY <1>1, <1>2, CostType, ToEurType DEF RawListing
<1>9. Under(PriceEur(listing, s), s.total)
  BY <1>1, DealIsUnderBarrier DEF TotalCost
<1>10. \A copies \in 1..(IF l.each THEN l.count ELSE 1) :
            Under(eur * copies, RealGb(l) * copies) => Bargain(o)
  BY DEF Bargain, TotalCost, ListingOf, ShippingEur
<1>11. PriceEur(listing, s) = eur * (IF s.basis = "unit" /\ s.count > 1 THEN s.count ELSE 1)
  BY DEF PriceEur
<1>12. PriceEur(listing, s) \in Nat
  BY <1>1, <1>2, CostType
<1> DEFINE price == PriceEur(listing, s)
<1> HIDE DEF l, w, read, listing, eur, ship, price
<1>13. PerGbScale \in Nat /\ HardCeiling \in Nat
  BY DealsAssumption
<1>14. ASSUME NEW cost \in Nat, NEW gb \in Nat, cost <= price, l.gb * s.count <= gb
       PROVE  Under(cost, gb)
  <2>1. PerGbScale * (cost + ship) <= PerGbScale * (price + ship)
    BY <1>8, <1>12, <1>13, <1>14, TimesGrows DEF price
  <2>2. HardCeiling * s.total <= HardCeiling * gb
    <3>1. s.total <= gb
      BY <1>5, <1>6, <1>7, <1>14
    <3>2. QED
      BY <1>5, <1>13, <3>1, TimesGrows
  <2>3. PerGbScale * (price + ship) < HardCeiling * s.total
    BY <1>8, <1>9, <1>12, <1>13 DEF price
  <2>4. /\ PerGbScale * (cost + ship) \in Int /\ PerGbScale * (price + ship) \in Int
        /\ HardCeiling * s.total \in Int /\ HardCeiling * gb \in Int
    BY <1>5, <1>8, <1>12, <1>13 DEF price
  <2>5. PerGbScale * (cost + ship) < HardCeiling * gb
    BY <2>1, <2>2, <2>3, <2>4
  <2>6. QED
    BY <1>8, <1>13, <2>5
<1> HIDE DEF Under
<1>15. CASE l.each
  <2>1. s.basis = "unit"
    BY <1>3, <1>4, <1>5, <1>15 DEF TellsBasis, PriceBasis
  <2>2. price = eur * s.count
    BY <2>1, <1>6, <1>7, <1>8, <1>11 DEF price
  <2>3. s.count \in 1..l.count /\ eur * s.count \in Nat /\ l.gb * s.count \in Nat
    BY <1>6, <1>7, <1>8
  <2>4. Under(eur * s.count, l.gb * s.count)
    BY <1>14, <2>2, <2>3
  <2>5. QED
    BY <1>10, <1>15, <2>3, <2>4 DEF RealGb
<1>16. CASE ~l.each
  <2>1. eur * 1 <= price /\ eur * 1 \in Nat
    BY <1>6, <1>7, <1>8, <1>11, TimesGrows DEF price
  <2>2. l.gb * s.count <= RealGb(l) * 1 /\ RealGb(l) * 1 \in Nat
    <3>1. l.gb * s.count <= l.gb * l.count
      BY <1>6, <1>7, TimesGrows
    <3>2. RealGb(l) * 1 = l.gb * l.count /\ l.gb * l.count \in Nat
      BY <1>6, <1>16 DEF RealGb
    <3>3. QED
      BY <3>1, <3>2
  <2>3. Under(eur * 1, RealGb(l) * 1)
    BY <1>14, <2>1, <2>2
  <2>4. QED
    BY <1>10, <1>16, <2>3
<1>17. QED
  BY <1>6, <1>15, <1>16

(* What is alerted of an honest seller without a model is a bargain.       *)
THEOREM HonestAlertsAlwaysBargains == Spec => HonestAlertsAreBargains
<1> DEFINE Honestly == \A p \in Procs :
        Notifies(p) /\ ~spec[p].llm /\ Honest(cur[p]) => Bargain(cur[p])
<1>1. ReadInv /\ [Next]_vars => [Honestly]_vars
  <2> SUFFICES ASSUME ReadInv, [Next]_vars, NEW p \in Procs,
                      Notifies(p), ~spec[p].llm, Honest(cur[p])
               PROVE  Bargain(cur[p])
    OBVIOUS
  <2>1. Decide(p) /\ pc'[p] = "send"
    BY NotifiesDecides DEF ReadInv, Notifies
  <2>2. Verdict(p).kind = "deal"
    BY <2>1 DEF Decide, Goto, Drop, ReadInv, TypeInv, TypeOK
  <2>3. /\ cur[p] \in Observations /\ spec[p] \in MemorySpec /\ now[p] \in Nat
        /\ ReadAs(cur[p].text, spec[p])
    BY <2>1 DEF Decide, ReadInv, TypeInv, TypeOK, HandOK, Specified, Holding, Steps
  <2>4. QED
    BY <2>2, <2>3, HonestDealIsBargain DEF Verdict
<1>2. QED
  BY <1>1, InitReadInv, StepReadInv, PTL DEF Spec, HonestAlertsAreBargains

-----------------------------------------------------------------------------
(* What BatchIsHandled needs beside fairness: a process cannot handle one  *)
(* batch for ever.  Rank is how many statements may still follow for the   *)
(* listing in hand.                                                        *)
Rank == [ idle |-> 0, next |-> 1, record |-> 2, resend |-> 3, send |-> 4, enqueue |-> 5,
          decide |-> 6, verify |-> 7, upsert |-> 8, store |-> 9, extract |-> 10, down |-> 0 ]

Progress(p) ==
    /\ batch'[p] \subseteq batch[p]
    /\ batch'[p] # batch[p] \/ Rank[pc'[p]] < Rank[pc[p]]

(* Every statement of a process, also one that fails or that it dies of,   *)
(* leaves fewer listings, or fewer statements for the listing in hand; no  *)
(* step of another process undoes that.                                    *)
HandlingProgresses ==
    [][ \A p \in Procs :
            /\ Handle(p) \/ SendFails(p) \/ Crash(p) => Progress(p)
            /\ batch'[p] # batch[p] \/ pc'[p] # pc[p] => StepOf(p) ]_vars

LEMMA HandleProgress ==
  ASSUME TypeInv, NEW p \in Procs, Handle(p) \/ SendFails(p) \/ Crash(p)
  PROVE  Progress(p)
<1> USE DEF TypeInv, TypeOK, Goto, Drop, Progress, Rank
<1>1. CASE Classify(p)
  <2>1. PICK o \in batch[p] : batch' = [batch EXCEPT ![p] = batch[p] \ {o}]
    BY <1>1 DEF Classify
  <2>2. batch'[p] = batch[p] \ {o}
    BY <2>1
  <2>3. QED
    BY <2>2
<1>2. CASE FinishRun(p) \/ Extract(p) \/ StoreSpec(p) \/ VerifyPriceBasis(p)
  BY <1>2 DEF FinishRun, Extract, StoreSpec, VerifyPriceBasis
<1>3. CASE Upsert(p)
  <2>1. pc[p] = "upsert" /\ pc'[p] \in {"next", "enqueue", "verify"} /\ UNCHANGED batch
    BY <1>3 DEF Upsert
  <2>2. QED
    BY <2>1
<1>4. CASE Enqueue(p) \/ SendOk(p) \/ Record(p)
  <2>1. CASE Enqueue(p) \/ Record(p)
    <3>1. pc[p] \in {"enqueue", "record"} /\ pc'[p] = "next" /\ UNCHANGED batch
      BY <2>1 DEF Enqueue, Record
    <3>2. QED
      BY <3>1
  <2>2. CASE SendOk(p)
    <3>1. pc[p] \in {"send", "resend"} /\ pc'[p] = "record" /\ UNCHANGED batch
      BY <2>2 DEF SendOk
    <3>2. QED
      BY <3>1
  <2>3. QED
    BY <1>4, <2>1, <2>2
<1>5. CASE Decide(p)
  <2>1. pc[p] = "decide" /\ pc'[p] \in {"next", "enqueue", "send"} /\ UNCHANGED batch
    BY <1>5 DEF Decide
  <2>2. QED
    BY <2>1
<1>6. CASE SendFails(p)
  <2>1. /\ UNCHANGED batch
        /\ \/ pc[p] = "send" /\ pc'[p] = "resend"
           \/ pc[p] = "resend" /\ pc'[p] = "next"
    BY <1>6 DEF SendFails
  <2>2. QED
    BY <2>1
<1>7. CASE Crash(p)
  <2>1. pc[p] \in Steps \ {"idle", "down"} /\ pc'[p] = "down" /\ batch'[p] = {}
    BY <1>7 DEF Crash
  <2>2. QED
    BY <2>1 DEF Steps
<1>8. QED
  BY <1>1, <1>2, <1>3, <1>4, <1>5, <1>6, <1>7 DEF Handle

LEMMA BatchIsOwn ==
  ASSUME TypeInv, [Next]_vars, NEW p \in Procs, batch'[p] # batch[p] \/ pc'[p] # pc[p]
  PROVE  StepOf(p)
<1>1. \E q \in Procs : StepOf(q)
  BY SomeoneSteps DEF local
<1>2. ASSUME NEW q \in Procs \ {p}, StepOf(q)
      PROVE  FALSE
  <2>1. batch' = batch \/ \E S : batch' = [batch EXCEPT ![q] = S]
    BY <1>2 DEF StepOf, Handle, Fetch, Classify, FinishRun, Extract, StoreSpec, Upsert, Enqueue,
       VerifyPriceBasis, Decide, SendOk, Record, DrainLlm, SendFails, Crash, Restart, Drop, local
  <2>2. batch'[p] = batch[p] /\ pc'[p] = pc[p]
    BY <1>2, <2>1, OthersUntouched DEF TypeInv, TypeOK
  <2>3. QED
    BY <2>2
<1>3. QED
  BY <1>1, <1>2

(* The part of BatchIsHandled that no fairness is needed for.              *)
THEOREM HandlingAlwaysProgresses == Spec => HandlingProgresses
<1>1. TypeInv /\ [Next]_vars =>
          [\A p \in Procs :
               /\ Handle(p) \/ SendFails(p) \/ Crash(p) => Progress(p)
               /\ batch'[p] # batch[p] \/ pc'[p] # pc[p] => StepOf(p)]_vars
  BY HandleProgress, BatchIsOwn
<1>2. QED
  BY <1>1, InitTypeInv, StepTypeInv, PTL DEF Spec, HandlingProgresses
=============================================================================
