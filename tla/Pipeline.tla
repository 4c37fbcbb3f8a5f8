------------------------------ MODULE Pipeline -------------------------------
(***************************************************************************)
(* A collection cycle of RamTracker (runtime/pipeline.py): what run_source *)
(* and _process do with the listings one fetch returned, one SQL statement *)
(* or one network call at a time.  The connection is in autocommit mode,   *)
(* so a crash between two statements leaves what the first ones wrote.     *)
(*                                                                         *)
(* Several processes may run cycles over the same database: the service    *)
(* (`ramtracker loop') and the command line (`run-once', `backfill').      *)
(* Their state in memory is lost when they crash.                          *)
(*                                                                         *)
(* A listing is an ad at one observed price and text.  The text is         *)
(* abstracted to the key its spec_hash is and to the phrases it is made    *)
(* of, which Extraction reads; what the model makes of it is a constant.   *)
(* A row keeps the words of its first sight next to its current hash.      *)
(***************************************************************************)
EXTENDS Extraction

CONSTANTS
    NoRow,          \* no row in the table, nothing in hand
    Procs,          \* processes that run cycles
    Ads,            \* (source, external_id)
    AdInfo,         \* ad -> what never changes about it (see AdRecord)
    Texts,          \* spec_hash values
    TextsOf,        \* ad -> the texts its seller may give it
    Prices,         \* prices an ad may be observed at
    Wording,        \* text -> its phrases
    Index,          \* the market index, bucket -> p50
    Observation,    \* in_observation_mode
    LlmSpec,        \* text -> what the model, then qualify, make of it
    BatchSize,      \* llm.batch_size
    MinDropPct,     \* spam.re_alert_min_drop_pct
    DailyCap,       \* spam.daily_cap_urgent
    DayTicks,       \* length of a day
    MuteTicks,      \* _MUTE_HOURS
    MaxClock,       \* bound: the clock stops there
    MaxFetches,     \* bound: cycles started
    MaxBatch,       \* bound: listings in one fetch
    MaxFaults       \* bound: crashes and failed sends

VARIABLES
    listings,   \* table listings: ad -> NoRow or a Row
    cache,      \* table spec_cache: text -> NoRow or a spec
    queue,      \* table llm_queue: text -> NoRow or its lane
    alerts,     \* table alerts, in order of insertion
    clock,      \* wall clock, in ticks
    pc,         \* process -> the statement it is at
    now,        \* process -> the `now' of its run
    batch,      \* process -> listings of the fetch not handled yet
    cur,        \* process -> the listing in hand
    spec,       \* process -> its spec
    deal,       \* process -> the deal being notified
    fetches,    \* history: cycles started
    faults,     \* history: crashes and failed sends
    pushed      \* history: ad -> notifications its owner received

db == << listings, cache, queue, alerts >>
local == << pc, now, batch, cur, spec, deal >>
vars == << db, clock, local, fetches, faults, pushed >>

Lanes == {"urgent", "deferred"}
Steps == {"idle", "next", "extract", "store", "upsert", "enqueue", "verify", "decide",
          "send", "resend", "record", "down"}
Observations == {o \in [ad : Ads, price : Prices, text : Texts] :
                     o.text \in TextsOf[o.ad]}

(* price and spec_hash as last stored, title and description as first.     *)
Row == [price : Prices, text : Texts, words : Texts]

AdRecord == [ seller : STRING, currency : STRING, shipping : Nat \cup {NoAmount},
              sale : {"fixed", "auction"}, endsAt : Int, eligible : BOOLEAN,
              hint : {"multi", "lot", "none"} ]

(* What evaluate_detailed reads of an observed ad.                         *)
ListingOf(o, at) ==
    [ price |-> o.price, bid |-> NoAmount, currency |-> AdInfo[o.ad].currency,
      shipping |-> AdInfo[o.ad].shipping, sale |-> AdInfo[o.ad].sale,
      left |-> AdInfo[o.ad].endsAt - at, seller |-> AdInfo[o.ad].seller ]

(* cascade.run, without a model.                                           *)
Extracted(o) == Cascade(Wording[o.text], o.price)

(* Urgent below half the ceiling (urgent_lane_margin is 0.50).             *)
LaneFor(o) ==
    IF OptimisticTotalGb(Wording[o.text]) > 0
       /\ 2 * BestCasePerGb(Wording[o.text], o.price) < HardCeiling
    THEN "urgent" ELSE "deferred"

IsNew(ad) == listings[ad] = NoRow

(* Mutant: any known ad counts as cheaper.                                 *)
PriceDroppedOrNot(o) == ~IsNew(o.ad)

(* The price is compared with the stored one.                              *)
PriceDropped(o) ==
    /\ ~IsNew(o.ad)
    /\ listings[o.ad].price > 0
    /\ DropReaches(listings[o.ad].price, o.price, MinDropPct)

ASSUME PipelineAssumption ==
    /\ NoRow \notin Observations /\ NoRow \notin MemorySpec
    /\ NoRow \notin Lanes /\ NoRow \notin Row
    /\ IsFiniteSet(Procs) /\ Procs # {}
    /\ AdInfo \in [Ads -> AdRecord]
    /\ TextsOf \in [Ads -> SUBSET Texts]
    /\ Wording \in [Texts -> SUBSET Phrasings]
    /\ LlmSpec \in [Texts -> {s \in MemorySpec : s.llm}] /\ BatchSize \in Nat
    /\ Prices \subseteq Nat \ {0}
    /\ Observation \in BOOLEAN
    /\ MinDropPct \in Nat \ {0} /\ DailyCap \in Nat
    /\ DayTicks \in Nat \ {0} /\ MuteTicks \in Nat
    /\ MaxClock \in Nat /\ MaxFetches \in Nat
    /\ MaxBatch \in Nat /\ MaxFaults \in Nat

-----------------------------------------------------------------------------
(* notify/ratelimit.py                                                     *)

RowsOfFp(fp) == {i \in DOMAIN alerts : alerts[i].fp = fp}

(* Mutant: ORDER BY sent_at ASC.                                           *)
FirstAlert(fp) ==
    alerts[CHOOSE i \in RowsOfFp(fp) :
               \A j \in RowsOfFp(fp) :
                   \/ alerts[i].sentAt < alerts[j].sentAt
                   \/ alerts[i].sentAt = alerts[j].sentAt /\ i <= j]

(* ORDER BY sent_at DESC LIMIT 1; the index yields the last inserted of    *)
(* equal dates first.                                                      *)
LastAlert(fp) ==
    alerts[CHOOSE i \in RowsOfFp(fp) :
               \A j \in RowsOfFp(fp) :
                   \/ alerts[j].sentAt < alerts[i].sentAt
                   \/ alerts[j].sentAt = alerts[i].sentAt /\ j <= i]

Day(t) == t \div DayTicks

UrgentOn(day) == {i \in DOMAIN alerts : alerts[i].urgency = "immediate"
                                         /\ Day(alerts[i].sentAt) = day}

(* Mutant: a mute is not looked at.                                        *)
FreshThoughMuted(d, price, at) ==
    RowsOfFp(d.fp) # {} /\ LastAlert(d.fp).price > 0 =>
        DropReaches(LastAlert(d.fp).price, price, MinDropPct)

(* Mutant: any lower price is alerted again.                               *)
FreshIfCheaper(d, price, at) ==
    RowsOfFp(d.fp) # {} =>
        ~(at < LastAlert(d.fp).mutedUntil) /\ price < LastAlert(d.fp).price

(* Not muted, and cheaper enough than the last alert of the fingerprint.   *)
FreshForFp(d, price, at) ==
    RowsOfFp(d.fp) # {} =>
        LET last == LastAlert(d.fp)
        IN  /\ ~(at < last.mutedUntil)
            /\ last.price > 0 => DropReaches(last.price, price, MinDropPct)

(* Mutant: the cap is compared with <=.                                    *)
AllowedUpToCap(d, price, at) ==
    /\ FreshForFp(d, price, at)
    /\ d.urgency = "immediate" => Cardinality(UrgentOn(Day(at))) <= DailyCap

Allowed(d, price, at) ==
    /\ FreshForFp(d, price, at)
    /\ d.urgency = "immediate" => Cardinality(UrgentOn(Day(at))) < DailyCap

-----------------------------------------------------------------------------
Init ==
    /\ listings = [a \in Ads |-> NoRow]
    /\ cache = [t \in Texts |-> NoRow]
    /\ queue = [t \in Texts |-> NoRow]
    /\ alerts = << >>
    /\ clock = 0
    /\ pc = [p \in Procs |-> "idle"]
    /\ now = [p \in Procs |-> 0]
    /\ batch = [p \in Procs |-> {}]
    /\ cur = [p \in Procs |-> NoRow]
    /\ spec = [p \in Procs |-> NoRow]
    /\ deal = [p \in Procs |-> NoRow]
    /\ fetches = 0
    /\ faults = 0
    /\ pushed = [a \in Ads |-> 0]

Goto(p, step) == pc' = [pc EXCEPT ![p] = step]

(* The process is done with the listing in hand.                           *)
Drop(p) ==
    /\ Goto(p, "next")
    /\ cur' = [cur EXCEPT ![p] = NoRow]
    /\ spec' = [spec EXCEPT ![p] = NoRow]
    /\ deal' = [deal EXCEPT ![p] = NoRow]
    /\ UNCHANGED << now, batch >>

(* fetch_recent returned: the same ad may come twice, from two             *)
(* marketplaces.  `now' was read when the run began.                       *)
Fetch(p) ==
    /\ pc[p] = "idle" /\ fetches < MaxFetches
    /\ \E S \in SUBSET Observations :
           /\ Cardinality(S) \in 1..MaxBatch
           /\ batch' = [batch EXCEPT ![p] = S]
    /\ now' = [now EXCEPT ![p] = clock]
    /\ Goto(p, "next")
    /\ fetches' = fetches + 1
    /\ UNCHANGED << db, clock, cur, spec, deal, faults, pushed >>

(* The SELECTs of is_new and price_dropped; a listing that is neither new  *)
(* nor cheaper only has its last_seen refreshed.                           *)
Classify(p) ==
    /\ pc[p] = "next"
    /\ \E o \in batch[p] :
           /\ batch' = [batch EXCEPT ![p] = @ \ {o}]
           /\ IF IsNew(o.ad) \/ PriceDropped(o)
              THEN Goto(p, "extract") /\ cur' = [cur EXCEPT ![p] = o]
              ELSE UNCHANGED << pc, cur >>
    /\ UNCHANGED << db, clock, now, spec, deal, fetches, faults, pushed >>

(* The cycle's row goes to source_runs; the process sleeps or exits.       *)
FinishRun(p) ==
    /\ pc[p] = "next" /\ batch[p] = {}
    /\ Goto(p, "idle")
    /\ now' = [now EXCEPT ![p] = 0]
    /\ UNCHANGED << db, clock, batch, cur, spec, deal, fetches, faults, pushed >>

(* Mutant: the spec is stored by nobody.                                   *)
ExtractUnstored(p) ==
    /\ pc[p] = "extract"
    /\ spec' = [spec EXCEPT ![p] = Extracted(cur[p])]
    /\ Goto(p, "upsert")
    /\ UNCHANGED << db, clock, now, batch, cur, deal, fetches, faults, pushed >>

(* Mutant: the cache is not looked up.                                     *)
ExtractAfresh(p) ==
    /\ pc[p] = "extract"
    /\ spec' = [spec EXCEPT ![p] = Extracted(cur[p])]
    /\ Goto(p, "store")
    /\ UNCHANGED << db, clock, now, batch, cur, deal, fetches, faults, pushed >>

(* The spec cached for the text, else the cascade's, still to be stored.   *)
Extract(p) ==
    /\ pc[p] = "extract"
    /\ LET cached == cache[cur[p].text]
       IN  IF cached # NoRow
           THEN spec' = [spec EXCEPT ![p] = cached] /\ Goto(p, "upsert")
           ELSE spec' = [spec EXCEPT ![p] = Extracted(cur[p])] /\ Goto(p, "store")
    /\ UNCHANGED << db, clock, now, batch, cur, deal, fetches, faults, pushed >>

(* INSERT OR REPLACE, whatever was stored since the SELECT.                *)
StoreSpec(p) ==
    /\ pc[p] = "store"
    /\ cache' = [cache EXCEPT ![cur[p].text] = spec[p]]
    /\ Goto(p, "upsert")
    /\ UNCHANGED << listings, queue, alerts, clock, now, batch, cur, spec, deal,
                    fetches, faults, pushed >>

(* The row an upsert leaves: ON CONFLICT the title and the description     *)
(* stay as they were.                                                      *)
Updated(o) ==
    [ price |-> o.price, text |-> o.text,
      words |-> IF IsNew(o.ad) THEN o.text ELSE listings[o.ad].words ]

(* After the upsert an ineligible listing is done with, an ambiguous one   *)
(* goes to the LLM queue, the others are judged.                           *)
Upsert(p) ==
    /\ pc[p] = "upsert"
    /\ listings' = [listings EXCEPT ![cur[p].ad] = Updated(cur[p])]
    /\ IF ~AdInfo[cur[p].ad].eligible THEN Drop(p)
       ELSE /\ Goto(p, IF spec[p].reject = "low_confidence" /\ LlmEnabled
                       THEN "enqueue" ELSE "verify")
            /\ UNCHANGED << now, batch, cur, spec, deal >>
    /\ UNCHANGED << cache, queue, alerts, clock, fetches, faults, pushed >>

(* INSERT OR IGNORE: the first lane stays.                                 *)
Enqueue(p) ==
    /\ pc[p] = "enqueue"
    /\ queue' = [queue EXCEPT
           ![cur[p].text] = IF @ = NoRow THEN LaneFor(cur[p]) ELSE @]
    /\ Drop(p)
    /\ UNCHANGED << listings, cache, alerts, clock, fetches, faults, pushed >>

(* Mutant: the ad is asked about although its text settles the basis.      *)
AskedWhenSettled(s) == s.reject = "none" /\ s.count > 1

Asked(s) == s.reject = "none" /\ s.count > 1 /\ s.basis # "unit"

(* quantity_hint: None on an error.  A basis it changes is stored under    *)
(* the text, for every listing that has it.                                *)
VerifyPriceBasis(p) ==
    /\ pc[p] = "verify"
    /\ LET s == spec[p]
           Resolved(hint) == CASE hint = "multi" -> "unit"
                               [] hint = "lot" -> "lot"
                               [] OTHER -> s.basis
       IN  \E hint \in IF Asked(s) THEN {AdInfo[cur[p].ad].hint, "none"} ELSE {"none"} :
               IF Resolved(hint) = s.basis THEN UNCHANGED << spec, cache >>
               ELSE LET updated == [s EXCEPT !.basis = Resolved(hint)]
                    IN  /\ spec' = [spec EXCEPT ![p] = updated]
                        /\ cache' = [cache EXCEPT ![cur[p].text] = updated]
    /\ Goto(p, "decide")
    /\ UNCHANGED << listings, queue, alerts, clock, now, batch, cur, deal,
                    fetches, faults, pushed >>

Verdict(p) == EvaluateDetailed(ListingOf(cur[p], now[p]), spec[p], Index, Observation)

(* Mutant: an implausible price has the text extracted again.              *)
DecideAgain(p) ==
    /\ pc[p] = "decide" /\ Verdict(p).kind # "error"
    /\ CASE Verdict(p).kind = "llm" ->
                Goto(p, "extract") /\ UNCHANGED << now, batch, cur, spec, deal >>
         [] Verdict(p).kind = "deal" /\ Allowed(Verdict(p), cur[p].price, now[p]) ->
                /\ Goto(p, "send")
                /\ deal' = [deal EXCEPT ![p] = Verdict(p)]
                /\ UNCHANGED << now, batch, cur, spec >>
         [] OTHER -> Drop(p)
    /\ UNCHANGED << db, clock, fetches, faults, pushed >>

(* evaluate_detailed, then ratelimit.decide.                               *)
Decide(p) ==
    /\ pc[p] = "decide" /\ Verdict(p).kind # "error"
    /\ CASE Verdict(p).kind = "llm" /\ LlmEnabled ->
                Goto(p, "enqueue") /\ UNCHANGED << now, batch, cur, spec, deal >>
         [] Verdict(p).kind = "deal" /\ Allowed(Verdict(p), cur[p].price, now[p]) ->
                /\ Goto(p, "send")
                /\ deal' = [deal EXCEPT ![p] = Verdict(p)]
                /\ UNCHANGED << now, batch, cur, spec >>
         [] OTHER -> Drop(p)
    /\ UNCHANGED << db, clock, fetches, faults, pushed >>

Received(p) == pushed' = [pushed EXCEPT ![cur[p].ad] = @ + 1]

(* Mutant: the retry is made whether or not the first send failed.         *)
SendTwice(p) ==
    /\ pc[p] \in {"send", "resend"}
    /\ Received(p)
    /\ Goto(p, IF pc[p] = "send" THEN "resend" ELSE "record")
    /\ UNCHANGED << db, clock, now, batch, cur, spec, deal, fetches, faults >>

(* notifier.send returned.                                                 *)
SendOk(p) ==
    /\ pc[p] \in {"send", "resend"}
    /\ Received(p)
    /\ Goto(p, "record")
    /\ UNCHANGED << db, clock, now, batch, cur, spec, deal, fetches, faults >>

(* notifier.send raised; the server may have taken the message before the  *)
(* answer was lost.  One retry, then the alert is given up.                *)
SendFails(p) ==
    /\ pc[p] \in {"send", "resend"} /\ faults < MaxFaults
    /\ faults' = faults + 1
    /\ Received(p) \/ UNCHANGED pushed
    /\ IF pc[p] = "send"
       THEN Goto(p, "resend") /\ UNCHANGED << now, batch, cur, spec, deal >>
       ELSE Drop(p)
    /\ UNCHANGED << db, clock, fetches >>

(* Mutant: the column holds the price per gigabyte.                        *)
RecordPerGb(p) ==
    /\ pc[p] = "record"
    /\ alerts' = Append(alerts,
           [ fp |-> deal[p].fp, ad |-> cur[p].ad,
             price |-> ListingPerGb(ListingOf(cur[p], now[p]), spec[p]),
             urgency |-> deal[p].urgency, sentAt |-> now[p], mutedUntil |-> 0 ])
    /\ Drop(p)
    /\ UNCHANGED << listings, cache, queue, clock, fetches, faults, pushed >>

(* INSERT INTO alerts, with the price as listed.                           *)
Record(p) ==
    /\ pc[p] = "record"
    /\ alerts' = Append(alerts,
           [ fp |-> deal[p].fp, ad |-> cur[p].ad, price |-> cur[p].price,
             urgency |-> deal[p].urgency, sentAt |-> now[p], mutedUntil |-> 0 ])
    /\ Drop(p)
    /\ UNCHANGED << listings, cache, queue, clock, fetches, faults, pushed >>

(* The process dies: killed, or an exception nothing catches.              *)
Crash(p) ==
    /\ pc[p] \notin {"idle", "down"}
    /\ \/ faults < MaxFaults
       \/ pc[p] = "decide" /\ Verdict(p).kind = "error"
    /\ pc' = [pc EXCEPT ![p] = "down"]
    /\ now' = [now EXCEPT ![p] = 0]
    /\ batch' = [batch EXCEPT ![p] = {}]
    /\ cur' = [cur EXCEPT ![p] = NoRow]
    /\ spec' = [spec EXCEPT ![p] = NoRow]
    /\ deal' = [deal EXCEPT ![p] = NoRow]
    /\ faults' = faults + 1
    /\ UNCHANGED << db, clock, fetches, pushed >>

(* The MoneyError of a currency without a rate, which cannot be avoided.   *)
Raise(p) == pc[p] = "decide" /\ Verdict(p).kind = "error" /\ Crash(p)

(* systemd: Restart=on-failure.                                            *)
Restart(p) ==
    /\ pc[p] = "down"
    /\ Goto(p, "idle")
    /\ UNCHANGED << db, clock, now, batch, cur, spec, deal, fetches, faults, pushed >>

(* llm_queue.drain on the deferred lane, the only lane anything drains, in *)
(* the transaction of _post_cycle, which holds the write lock throughout.  *)
(* An entry whose text no listing has any more takes a place and stays;    *)
(* when the model is busy or unreachable nothing changes.  The order is    *)
(* that of the TEXT column best_case; the model leaves it open.  For each  *)
(* entry the words of a row that has its hash are asked about (the row     *)
(* seen last; the model leaves that open too): they may be older than the  *)
(* hash the answer is stored under.                                        *)
Deferred == {t \in Texts : queue[t] = "deferred"}

(* What the rows of a hash were first seen to say.                         *)
WordsUnder(t) ==
    {listings[a].words : a \in {b \in Ads : listings[b] # NoRow /\ listings[b].text = t}}

DrainLlm(p) ==
    /\ pc[p] = "idle" /\ LlmEnabled
    /\ \E rows \in SUBSET Deferred :
           LET known == {t \in rows : WordsUnder(t) # {}}
           IN  /\ Cardinality(rows) <= BatchSize /\ known # {}
               /\ rows = Deferred \/ Cardinality(rows) = BatchSize
               /\ \E words \in [known -> Texts] :
                      /\ \A t \in known : words[t] \in WordsUnder(t)
                      /\ cache' = [t \in Texts |->
                             IF t \in known THEN LlmSpec[words[t]] ELSE cache[t]]
               /\ queue' = [t \in Texts |-> IF t \in known THEN NoRow ELSE queue[t]]
    /\ UNCHANGED << listings, alerts, clock, local, fetches, faults, pushed >>

(* POST /mute/{fingerprint}: every alert of the fingerprint, one UPDATE.   *)
Mute(fp) ==
    /\ RowsOfFp(fp) # {}
    /\ alerts' = [i \in DOMAIN alerts |->
           IF i \in RowsOfFp(fp)
           THEN [alerts[i] EXCEPT !.mutedUntil = clock + MuteTicks]
           ELSE alerts[i]]
    /\ UNCHANGED << listings, cache, queue, clock, local, fetches, faults, pushed >>

Tick ==
    /\ clock < MaxClock
    /\ clock' = clock + 1
    /\ UNCHANGED << db, local, fetches, faults, pushed >>

-----------------------------------------------------------------------------
(* The steps a process takes by itself once a fetch has returned.          *)
Handle(p) ==
    \/ Classify(p) \/ FinishRun(p) \/ Extract(p) \/ StoreSpec(p) \/ Upsert(p)
    \/ Enqueue(p) \/ VerifyPriceBasis(p) \/ Decide(p) \/ SendOk(p) \/ Record(p)

Next ==
    \/ \E p \in Procs :
           Fetch(p) \/ Handle(p) \/ DrainLlm(p) \/ SendFails(p) \/ Crash(p) \/ Restart(p)
    \/ \E i \in DOMAIN alerts : Mute(alerts[i].fp)
    \/ Tick

Spec == Init /\ [][Next]_vars

(* A process that is running keeps running, if only to raise, and systemd  *)
(* restarts one that died; nothing obliges a fetch, another failure, a     *)
(* mute or the clock.                                                      *)
FairSpec ==
    Spec /\ \A p \in Procs : WF_vars(Handle(p)) /\ WF_vars(Raise(p)) /\ WF_vars(Restart(p))

-----------------------------------------------------------------------------
AlertRow == [ fp : Fingerprints, ad : Ads, price : Prices,
              urgency : {"immediate", "quiet"}, sentAt : Nat, mutedUntil : Nat ]

TypeOK ==
    /\ listings \in [Ads -> Row \cup {NoRow}]
    /\ cache \in [Texts -> MemorySpec \cup {NoRow}]
    /\ queue \in [Texts -> Lanes \cup {NoRow}]
    /\ alerts \in Seq(AlertRow)
    /\ clock \in Nat
    /\ pc \in [Procs -> Steps]
    /\ now \in [Procs -> Nat]
    /\ batch \in [Procs -> SUBSET Observations]
    /\ cur \in [Procs -> Observations \cup {NoRow}]
    /\ spec \in [Procs -> MemorySpec \cup {NoRow}]
    /\ deal \in [Procs -> Deal \cup {NoRow}]
    /\ fetches \in Nat /\ faults \in Nat
    /\ pushed \in [Ads -> Nat]

(* The foreign keys the data model draws: a stored listing, and a text     *)
(* waiting for the LLM, always have a spec, whichever statement a crash    *)
(* or another process falls between.                                       *)
CacheCoversListings ==
    /\ \A a \in Ads : listings[a] # NoRow => cache[listings[a].text] # NoRow
    /\ \A t \in Texts : queue[t] # NoRow => cache[t] # NoRow

RowsOfAd(a) == {i \in DOMAIN alerts : alerts[i].ad = a}
Recording(a) == {p \in Procs : pc[p] = "record" /\ cur[p].ad = a}

(* Every alert on record was delivered, and every delivery beyond the      *)
(* records is owed to a crash or to a send whose answer was lost.          *)
PushesAccounted ==
    \A a \in Ads :
        LET rows == Cardinality(RowsOfAd(a)) + Cardinality(Recording(a))
        IN  rows <= pushed[a] /\ pushed[a] <= rows + faults

(* The cap is read before the send and the row written after it: every     *)
(* other process can be in between, and none can be there twice.           *)
UrgentCap ==
    \A i \in DOMAIN alerts :
        Cardinality(UrgentOn(Day(alerts[i].sentAt)))
            <= DailyCap + Cardinality(Procs) - 1

(* One process: the successive alerts of one ad are each cheaper than all  *)
(* those before it by the re-alert threshold, whatever prices were seen in *)
(* between and whatever fingerprints, specs and crashes came with them.    *)
AdAlertsDecrease ==
    \A i, j \in DOMAIN alerts :
        i < j /\ alerts[i].ad = alerts[j].ad =>
            DropReaches(alerts[i].price, alerts[j].price, MinDropPct)

(* One process: so are the successive alerts of one fingerprint, although  *)
(* they may be of several ads, the rate limit looks at the last of them    *)
(* only, and the check is made before the send.                            *)
FingerprintAlertsDecrease ==
    \A i, j \in DOMAIN alerts :
        i < j /\ alerts[i].fp = alerts[j].fp =>
            DropReaches(alerts[i].price, alerts[j].price, MinDropPct)

(* A drop that may be alerted on leaves a price band this high.            *)
HighBand(fp) == MinDropPct * (fp[4] * FpBucket) > 100 * (FpBucket - 1)
InEur(ad) == AdInfo[ad].currency = "EUR"

(* One process: a fingerprint of single modules whose band is high is      *)
(* alerted on once, as far as the ads are in euros: the rate limit         *)
(* compares listed prices, the band is one of total prices converted.      *)
HighBandAlertsOnce ==
    \A i, j \in DOMAIN alerts :
        /\ i < j /\ alerts[i].fp = alerts[j].fp /\ alerts[i].fp[3] = 1
        /\ InEur(alerts[i].ad) /\ InEur(alerts[j].ad)
        => ~HighBand(alerts[i].fp)

(* One process: the stored price of an ad never goes up, so a later view   *)
(* is compared with the lowest price that was acted upon.                  *)
StoredPriceOnlyDrops ==
    [][ \A a \in Ads : listings[a] # NoRow =>
            listings'[a] # NoRow /\ listings'[a].price <= listings[a].price ]_vars

(* One process: what the model said of a text, paid for with a call, is    *)
(* never replaced by what the rules say.                                   *)
LlmVerdictKept ==
    [][ \A t \in Texts :
            cache[t] # NoRow /\ cache[t].llm => cache'[t] # NoRow /\ cache'[t].llm ]_vars

(* Every fetched listing is handled, or its process died with it.          *)
BatchIsHandled == \A p \in Procs : batch[p] # {} ~> batch[p] = {}

Notifies(p) == pc[p] = "decide" /\ pc'[p] = "send"

(* "cooldown 24 h": a fingerprint is notified while one of its alerts is   *)
(* muted only behind a later alert the mute came too late for, one checked *)
(* before the mute and recorded after it (feedback.mute, ratelimit.decide, *)
(* _send).                                                                 *)
MutedIsSilent ==
    [][ \A p \in Procs : Notifies(p) =>
            LET rows == RowsOfFp(deal'[p].fp)
            IN  \A i \in rows : alerts[i].mutedUntil > now[p] =>
                    \E j \in rows :
                        /\ j > i /\ alerts[j].mutedUntil < alerts[i].mutedUntil
                        /\ alerts[j].sentAt <= alerts[i].mutedUntil - MuteTicks ]_vars

-----------------------------------------------------------------------------
(* What the documentation says and the code does not do: the runs that     *)
(* check these find a counterexample.                                      *)

(* "Le prefiltre n'a le droit d'exister que parce qu'il ne peut pas        *)
(* ecarter une vraie affaire": the prefilter's rejection depends on the    *)
(* price, but is cached under the text alone.                              *)
NoFalseNegative ==
    \A a \in Ads : listings[a] # NoRow =>
        LET o == [ad |-> a, price |-> listings[a].price, text |-> listings[a].text]
        IN  cache[o.text].reject = "best_case_above_ceiling" =>
                RuledOut(Wording[o.text], o.price)

(* "reste <= gate_minutes -> evaluer": an auction seen again in its window *)
(* whose verdict is a deal is not passed over while nothing was notified.  *)
PassedOver(p, o) == pc[p] = "next" /\ pc'[p] = "next" /\ o \in batch[p] \ batch'[p]

WindowEvaluated ==
    [][ \A p \in Procs, o \in Observations :
            PassedOver(p, o) /\ AdInfo[o.ad].sale = "auction" /\ cache[o.text] # NoRow =>
                LET verdict == EvaluateDetailed(ListingOf(o, now[p]), cache[o.text],
                                                Index, Observation)
                IN  verdict.kind = "deal" => RowsOfFp(verdict.fp) # {} ]_vars
=============================================================================
