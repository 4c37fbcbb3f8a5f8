# A TLA+ model of RamTracker

RamTracker watches second-hand marketplaces for underpriced DDR4 ECC memory: it
collects listings, extracts a memory specification from their text, computes a
price per gigabyte, judges it against an absolute ceiling and a market index,
and pushes a notification. This directory holds TLA+ modules translated from
that code, TLC configurations that check them on small instances, and proofs,
checked by TLAPS, that hold for every value of the constants. `PROJECT.json`
says for each definition which source lines it models; source paths below are
relative to `src/ramtracker/` unless they begin with `deploy/`.

## 1. The system

### Components

| Component | State it keeps | Operations | What makes it correct |
|---|---|---|---|
| **Pipeline** `runtime/pipeline.py` | tables `listings`, `spec_cache`, `llm_queue`, `alerts`; in memory, the batch of the run | `run_source`, `_process`, `_handle_listing`, `_store_spec`, `_upsert_listing`, `_verify_price_basis`, `_send` | every listing of a batch is handled; every stored listing has a spec; an alert is recorded when it was delivered; no re-alert without a real drop |
| **Dedupe and rate limit** `decide/dedupe.py`, `notify/ratelimit.py` | reads `listings`, `alerts` | `is_new`, `price_dropped`, `decide` | daily cap, mute, re-alert threshold |
| **Decide** `decide/thresholds.py`, `auction.py`, `core/money.py`, `core/hashing.py` | none | `evaluate_detailed`, `gate`, `max_bid`, `eur_per_gb`, `fingerprint` | the barriers hold after rounding; equal offers get equal verdicts |
| **Market index** `decide/market.py` | table `market_stats` | `compute_stats`, `refresh_index`, `latest_index`, `reference_for` | quartiles in order, of what was sampled; the reference is a price per gigabyte in euros |
| **Extraction** `extract/*` | none | part numbers, grammar, coherence, qualify, prefilter | never a guess; the prefilter never rejects a real deal |
| **LLM** `extract/llm.py`, `runtime/llm_queue.py` | table `llm_queue` | `enqueue`, `drain`, the gate, the call | what is ambiguous is asked about or lost to a death; a drain is as if done at once; what is asked is answered |
| **Supervisor** `runtime/cli.py` (`loop`), `scheduler.py`, `breaker.py`, `watchdog.py` | `_next`, breaker state (memory); `source_runs` (table) | the loop, `mark_ran`, `allow`, `record_failure`, `record_success`, `check` | every source keeps being tried, every run has a row, silence is reported |
| **Account deletion** `runtime/ebay_deletion.py`, `deploy/worker/src/worker.js` | KV queue and allow-list, per-isolate cache; tables `listings`, `account_deletion_events`; a marker file | notification, allow-list push, drain, erasure, acknowledgment | an accepted request is carried out unless its week runs out first, and stays carried out |
| **Feedback** `runtime/feedback.py` | `alerts.muted_until`, `outcome` | `mute`, `bought` | a muted fingerprint is silent |
| **Collectors** `collect/*` | eBay's token in memory and in a file, Reddit's bearer | `fetch_recent`, `quantity_hint`, tokens and pages | a token does not expire on its way; an authentication error is real; a collector recovers by itself |
| **Notification** `notify/ntfy.py`, `templates.py` | none | `send` | one delivery, or an error |
| **Core** `core/db.py`, `config.py`, ... | the connection, the write lock | migrations, transactions | autocommit except under `session_scope`; the lock is released |
| **Reports** `runtime/cli.py` (`status`, `replay`, `explain`) | none | read only | |

### How they interact

The loop calls `run_source` for each source that is due. The breaker may refuse
it. The collector returns a batch or raises; the batch goes to `_process`, which
reads the last market index once and then takes the listings one after the
other: dedupe, cache or cascade, `_store_spec`, `_upsert_listing`, LLM queue or
verdict, rate limit, two attempts to send, `INSERT INTO alerts`. The connection
is in autocommit mode, so **each statement is a step of its own** and a crash
keeps what came before it. After a pass, `_post_cycle` pushes the allow-list,
drains the deletions, runs the watchdog, refreshes the index and drains the
deferred lane of the LLM queue, the last three in one transaction. The feedback
endpoint writes `alerts` from the phone. The `run-once` and `backfill` commands
run the same pipeline in another process over the same database file.

### What is hard about it

- *Between two statements*: a crash, a mute, another process. What the rate
  limit read before the send is used after it.
- *Lost answers*: of ntfy (the push was delivered), of the worker (the list was
  published, the acknowledgment was not taken).
- *Stale values*: a spec cached under a text and reused at another price; the
  stored price a later sight is compared with; an allow-list cached by an
  isolate; a page fetched before an account was closed.
- *Order*: an auction seen too early; a mute between a check and an INSERT.
- *Progress*: backoffs against schedules, a source that raises what nothing
  catches, a source that goes quiet.
- *Shared texts*: what one ad's `getItem` said is cached for every ad of the text.
- *Numbers*: three roundings before a comparison, unit against lot prices,
  currencies, interpolated percentiles.

`PROJECT.json` lists these one by one, at the line where each bites, with the
properties that cover it or the reason none does yet.

## 2. The modules

| Module | Lines are about | Extends |
|---|---|---|
| `Deals` | money, fingerprint, auction gate, the ordered rules of a verdict: pure operators | `Integers` |
| `Extraction` | what the rules read in a text: keywords, part number, grammar, coherence, matrix, prefilter, and their cascade: pure operators | `Deals` |
| `Wares` | what is sold and the phrases that are true of it | `Extraction` |
| `Titles` | a seller who writes and edits an ad truthfully, in any phrases the grammar knows | `Wares` |
| `Pipeline` | a collection cycle, one SQL statement or one HTTP call at a time, for any number of processes | `Extraction` |
| `Bargains` | the pipeline from what is sold to the alert | `Pipeline`, `Wares` |
| `Market` | the index, and the verdicts given with it | `Deals` |
| `Supervisor` | the endless loop: schedule, breaker, run table, watchdog | |
| `AccountDeletion` | eBay, the worker's isolates, RamTracker's side of the deletions | |
| `Erasure` | the abstract specification of the deletions; `AccountDeletion` implements it | |
| `LlmQueue` | the LLM queue, the transaction it is drained in, the write lock of the database, for any number of processes | |
| `Questions` | the abstract specification of the LLM queue; `LlmQueue` implements it | |
| `Collectors` | tokens, requests and errors of the three sources | |
| `MCPipeline`, `MCBargains`, `MCTitles`, `MCMarket`, `MCSupervisor`, `MCAccountDeletion`, `MCLlmQueue` | constants of the runs | the above |
| `RulesProofs` (of `Deals`, `Extraction`, `Wares`), `TitlesProofs`, `PipelineProofs` (with `Bargains`), `MarketProofs`, `SupervisorProofs`, `AccountDeletionProofs`, `LlmQueueProofs`, `CollectorsProofs` | theorems and proofs | the above, `TLAPS` |

Operators named after a mutation (`ExtractUnstored`, `AckEarly`, ...) stand
before the definition they vary and are used by no specification. Each is a
plausible bug of that definition, and each checked property fails when its one
is put in (`mutants` in `PROJECT.json`).

### Deals

Amounts are integers in one money unit, prices per gigabyte in units of
`1/PerGbScale` of it, so the code's quantizations are explicit: `HalfUp` for
`ROUND_HALF_UP` (`core/money.py`), `HalfEven` for `quantize` without a mode
(`max_bid`, the percentiles, the prefilter). `EvaluateDetailed` keeps the order
of the rules and their reasons; a `MoneyError` (a currency without a rate) is
the outcome `"error"`, which the pipeline turns into the death of the process.
The discount is computed in exact arithmetic where the code uses a float.

### Extraction, Wares and Titles

The patterns of `extract/` tell apart *what* a text says, not how: a phrase is
one match of a pattern, with the number and the capacity it captures, and a text
is the set of its phrases. Which phrase each pattern takes, in which order the
patterns are tried and what overrules what is translated; the regular expressions
are not. Patterns that capture the same thing in other words are one (`lot de 4`
and `kit de 4`), vendors' tables are collapsed to the capacity and speed they
give, ranks and brands are left out. Confidence is in thousandths, with the one
sum whose float differs from its decimals (0.60 + 0.10 + 0.10 is below 0.80).

`Wares` is the world the text is about: a lot is sold (how many, how large, which
kind, priced by the module or not), some phrases are true of it, and a text tells
more or less of it. In `Titles` the seller adds and removes such phrases. The properties compare what `Rules` and the prefilter make of the
text with the lot, for every text on the way.

### Pipeline

`pc[p]` names the statement process `p` is at:

    idle -Fetch-> next -Classify-> extract -Extract-> store -StoreSpec-> upsert
    upsert -Upsert-> next (not eligible) | enqueue (ambiguous) | verify
    enqueue -Enqueue-> next
    verify -VerifyPriceBasis-> decide
    decide -Decide-> enqueue (implausible, LLM) | send (allowed deal) | next
    send -SendOk-> record, -SendFails-> resend -SendFails-> next (given up)
    record -Record-> next -FinishRun-> idle;  Crash -> down -Restart-> idle

A listing is an ad at one observed price and text. The text is a model value,
the key its `spec_hash` is; `Wording` gives its phrases, which the cascade and the
prefilter of `Extraction` read (`Extracted`, `LaneFor`). What the model makes of a
text is a constant, `LlmSpec`. A row keeps the words of its first sight while its price and
hash follow the ad (`Updated`), so the drain may ask about other words than the hash
it stores the answer under (`WordsUnder`). `pushed` and `faults`
are history: what the owner's phone received, and the crashes and failed sends
so far. `SendFails` may or may not have delivered the message. `now` is read at
the start of a run and used for every date of it, as in the code, while the
clock moves on. `DrainLlm` is one step here; that a drain may be seen so, although
it lasts as long as its calls to the model, is what `LlmQueue` shows.

### Bargains

`LotOf` says what is sold with each ad. An ad is `Honest` when its text is true, tells
the size of a module, and tells that the price is one module's when it is; it is a
`Bargain` when, delivered, it costs less than the ceiling for what is sold. Nothing is
assumed of the other ads, which may share the text and sell something else, nor of
what `getItem` answers, although its answer for one ad is cached for all. The property
follows a listing through all of the code: reading, cache, resolved basis, verdict,
alert. Modules sold one by one share the shipping, so `Bargain` asks for some number of
those that are for sale.

### Market

An offer is a stored listing joined with the spec cached for its text; the ad
seen again changes the columns the upsert changes and only on a price drop
(`Reprice`), a spec may be replaced alone (`Respec`), an offer ages. `Refresh`
recomputes and persists the rows of the buckets that have a sample; verdicts
read the rows of the last refresh, the observation mode the last row of its
bucket, however old, as the two queries do.

### Supervisor

Timers count down from the `now` of the pass, which is when the code compares
them; `elapsed` is what has passed since. The breaker's failures saturate at the
length of the backoff table and the watchdog's rows at what it reads of them,
which loses nothing the code tells apart. A death empties schedule and breaker
and leaves the table.

### AccountDeletion and Erasure

Three parties, each with its memory: eBay (`closed`, `due`), the worker (`left`, the
days each entry of the queue has left, and `allowlist` in KV, `cached` per isolate) and
RamTracker (`stored`, `events`, `marker`). Each HTTP call may be lost before or after it
took effect. A listing of the KV store returns at most `ListLimit` keys, the reserved
key of the allow-list among them, so one `pending` may leave entries for the next.

KV lets go of an entry after seven days by itself (`expirationTtl`), pulled or not:
`Day` is a day that passes for all entries, at any moment, and `QueueDays` how many an
entry has. A delivery that eBay repeats puts the entry again with all its days. An
entry may expire while a process has it in hand; it is then erased all the same, as
the process holds its copy. `expired` is history: the sellers an entry of which went so.

`Erasure` says what the parties promise together: an accepted request is carried out
*unless its time runs out*, once, and carrying it out leaves nothing stored of the
seller. The refinement maps *accepted* to what is in the queue, on record or expired,
*erased* to what is on record, *lapsed* to what expired and is neither in the queue nor
on record, *holdings* to the sellers that have rows. A request lapses when the service is
off for a week or its pulls fail for one.

### LlmQueue and Questions

A cycle writes in autocommit (`Sight`, `Store`, `Upsert`, `Enqueue`); a post-cycle is
one transaction:

    idle -Open-> watch -Refresh-> probe -Free-> ask -Reply, Reply, ...-> ask
    ask -Save-> idle;  probe or ask -Unavailable-> idle;  Locked, Fault -> idle

SQLite in WAL mode is modelled by what the code can see of it. A transaction reads
the database as it was at its first query: `Open` fixes what the drain will find,
and a commit of another process makes the transactions that are open `stale`. The
first write takes the lock (`lock`), unless somebody has it or the reader is
stale; then, after `busy_timeout`, the statement raises "database is locked", which
nothing catches (`Locked`). The tables are as committed: what a transaction writes
appears with its `Commit`, so `Save` is the answers and the COMMIT together, and a
death before it leaves nothing.

`best_case` is a number in the order of the query, which is that of the text of the
column ("10.2" before "9.8"), with NULL last; which one an entry gets is free, and
whether it is below the urgent margin decides the lane. Listings are those that may
alert. The attempts counter is left out, since nothing reads it: counting one is a
write like another. A text is a hash; a row may keep older words than its hash is of
(see `Pipeline`), which changes what the model is asked and not what is queued, answered
or lost: the answer is a free choice. `lost` is history: the texts a death kept from
being queued.

`Questions` knows the three tables and nothing of processes, locks or time. Its
`Answer` takes the first entries of the deferred lane *as they are*, stores what the
model says of those a listing still has, and removes them. That `LlmQueue` implements
it says that the answers of a drain, given minutes after its questions were read,
were still asked when they were stored.

### Collectors

Time passes in ticks of the skew by which eBay's token is renewed early (300 s), and a
request, whose timeout is 20 s, lasts at most one. A token is its remaining life and
whether eBay still honours it; it is in memory (`mem`) and in a file that a restarted
process reads and another process may overwrite or leave damaged (`AnotherStores`). A
fetch is a sequence of `Pages` requests; `MintToken`, `Items`, `Unauthorized`
(one retry with a new token) and `Fails` are the answers of eBay. `quantity_hint` asks
for the token outside of the `try` of `run_source`: an error there is a restart
(`Raise`). Reddit's bearer is asked for once and never renewed. Leboncoin is one
request, classified by `Scraped`, which looks for a challenge before the status.

## 3. The runs

All are exhaustive. State counts are distinct states.

| Run | Bounds | Shows |
|---|---|---|
| `PipelineLoop` (1 414 895) | one process, two ads of one seller and text, prices 58, 52, 38, 30, a required drop of 20 %, two days, 3 fetches of up to 2, one fault, one mute | types; cache covers listings; pushes accounted for; daily cap; successive alerts of an ad, and of a fingerprint, each cheaper by the threshold; a fingerprint in a high band alerted on once; stored prices only drop; a muted fingerprint is notified only behind an alert the mute came too late for |
| `PipelineTexts` (198 751) | one process, four ads of four modules by the module or as a lot, texts that two of them share each, an ambiguous one, prices 240 and 60, the LLM enabled, `getItem` answering or not, a currency without a rate, an ad that may not be alerted on, 2 fetches of up to 2, one fault | what the model said is kept; every batch ends; whatever the cache holds, an alert about an honest ad is a bargain |
| `Titles` (95 224) | fourteen lots of 1 to 16 modules of 4 to 128 GB, fitting the board or not, one of a size the grammar does not know; every text of up to five phrases; five prices around the ceiling | no ad is read as more than it sells; hard rejections are of modules that do not fit; the bound of the prefilter holds what is sold, and what it rules out is no deal |
| `Market` (225 832) | two ads, three kinds of listing at three prices, five specs, two buckets, one refresh | deals under the ceiling, unit and lot agree, max bid is useful, quartiles ordered, cheaper stays a deal |
| `Supervisor` (117 000) | two sources, the first fails in every handled way, the last may raise what nothing catches, backoffs of 1 to 4 ticks, one kill | every run has a row, breaker and table agree, every source is tried for ever, silence is reported |
| `AccountDeletion` (694 560) | two sellers, two isolates, one process, listings of two keys, entries kept two days, two pages, two lost calls or crashes | erased stays erased; before its last day an entry leaves the queue only when its erasure is on record; the list settles; `Erasure` is implemented (liveness included) |
| `LlmQueue` (401 408) | the service and a command line, two ads, three texts, batches of two, three sightings, other writes, command-line rounds or faults | what is ambiguous is asked or lost to a death; `Questions` is implemented; a question is answered unless orphans fill the batch; the lock is released |
| `Collectors` (21 156) | one process, tokens of three ticks, fetches of two requests, two revocations, withdrawn credentials or deaths | the skew covers a request; an authentication error is real; eBay's collector recovers, Reddit's too unless its bearer is dead |

Why the bounds are enough to meet the interesting cases: in `PipelineLoop` 58 and
52 are in one price band and within the threshold, 38 and 30 in another and apart by
it, so a drift below the threshold, a drop that leaves a band and a drop within one
all occur; two days reset the cap.
In `PipelineTexts` one text settles that the price is one module's, one is read as a
lot's whoever uses it, one is ambiguous and for the model; 240 is a bargain for four
modules, far from one for a single module and above the prefilter's bar, 60 is one for
a single module and implausible for four; the currency without a rate is met after
`getItem` changed what is cached for the others. In `Titles` five
phrases leave room for a count, a capacity, a total, a price basis and a kind at
once. In `Market` a quantum
of a price per gigabyte is as coarse as the money unit, so nearly every division
rounds, and the auction's bid of 41 leaves little room under the ceiling. In
`Supervisor` a backoff may be shorter and longer than an interval, a pass may
take longer than both, and three failures open the breaker with room for a
fourth. In `AccountDeletion` two faults lose an answer and then its retry, two
entries and the reserved key do not fit one listing, and two days are enough for an
entry to be renewed before its last, to expire unpulled or in hand, and to lapse and
be delivered again. In `LlmQueue` three texts do
not fit a batch of two, two of them can be orphans that fill it, and three events are
enough for a sighting on either side of a drain and a fault, or for two transactions
that read and one that writes between them. In `Collectors` a token of three ticks can be
fresh, within the skew and expired, a fetch renews it between two pages, and two
faults revoke it and then the one the retry asked for.

More than one process of `Pipeline` is covered by the proofs, which hold for any
number (`CacheCovers`, `CapHolds`, `PushesAreAccounted`, `MutedOnlyOvertaken`,
`HonestAlertsAlwaysBargains`, `HandlingAlwaysProgresses`), not by a run. The
theorems that assume one process say so; section 4 says what goes wrong with two.

Deadlock is checked where the system never stops (`Supervisor`,
`AccountDeletion`, `Titles`, `LlmQueue`, `Collectors`); the `Pipeline` and `Market` runs end when their fetches,
clock or refreshes are used up and say `CHECK_DEADLOCK FALSE`.

### Findings

Four runs check what a document or a comment of the repository says and TLC
finds that the code does otherwise.

| Run | The statement | The behaviour |
|---|---|---|
| `PipelineFalseNegative` | the prefilter cannot reject a real deal (`blueprint/08-TESTING.md:58`) | its rejection depends on the price but is cached under the text; after a price drop the old rejection is reused |
| `PipelineAuction` | an auction in its last minutes is evaluated (`blueprint/wp/WP04-decide.md:98`) | one that was first seen earlier is neither new nor cheaper, and is passed over |
| `MarketIndex` | the index is the median price per gigabyte in euros (`blueprint/wp/WP04-decide.md:51`) | listed prices are taken as they are: other currencies, unit prices |
| `SupervisorIsolation` | a failing source never interrupts the others (`blueprint/wp/WP06-runtime.md:90`) | an exception that is not a `SourceError` kills the loop, and after the restart the same source comes first again |

### Fairness

- `Pipeline!FairSpec`: a process that is handling a batch goes on (`Handle`), if only to
  die of a currency without a rate (`Raise`), and
  systemd restarts one that died (`deploy/ramtracker.service`). Fetches,
  failures, mutes, the drain and the clock are not obliged to happen.
- `Supervisor!FairSpec`: the loop's own steps, the end of a fetch (every HTTP
  client has a timeout) and of the sleep. Which outcome a fetch has is free, so
  is whether a source ever succeeds.
- `AccountDeletion!FairSpec`: the loop comes back to its post-cycle. eBay is not
  obliged to deliver, nor an isolate to be recycled; faults are finite because
  they are bounded. Nothing says that the loop comes back before an entry has lived its
  days, so `Erasure` promises an erasure only of what does not lapse.

These are weak fairness on actions of one process, which a running process and a
supervisor with `Restart=on-failure` give. Two need more:

- `LlmQueue!FairSpec`: every process goes on (every call has a timeout) and a service
  comes back to its post-cycle, weakly. Strongly, for a service: the probe of the server
  finds it free (`Free`) and each place of a batch gets a reply (`Reply(p, i)`) if they are
  tried again and again. Weak fairness would not do, because a drain that fails gives
  up and starts over. The property is thus: *if* the server is not busy for ever and no
  place of the batch fails for ever, a question is answered. Nothing obliges a
  sighting, another write, a round of the command line or a fault.
- `Collectors!FairSpec`: an answer comes and withdrawn credentials are seen to, weakly.
  Strongly: the loop comes back to each source, and no one request of a fetch, for the
  token or for a page, ends for ever with an error that says nothing of the token (a
  timeout, a 429, an unknown form). Whether the token is good, expired or revoked is not
  assumed: that is what the properties are about.

## 4. The proofs

Constants are only what the `ASSUME`s of the modules say: `DealsAssumption`,
`ExtractionAssumption`, `WaresAssumption`, `TitlesAssumption`, `PipelineAssumption`,
`BargainsAssumption`, `MarketAssumption`,
`SupervisorAssumption`, `DeletionAssumption`, `LlmAssumption`, `CollectAssumption` and
`TokenAssumption`. TLC evaluates each of them in the runs of its module. Each safety property
that a passing run checks is a theorem too; some assume one process
or euros, as their statement says.

**Verdicts** (`RulesProofs`, `MarketProofs`). `DealIsUnderBarrier`: whatever the
listing, the spec, the index and the configuration, what the rules alert on
costs strictly less than the ceiling in exact arithmetic. The argument is that
a quotient rounded half up is under a bound only if it is (`HalfUpUnder`).
`DealsUnderCeiling` is the property the `Market` run checks, from it and from
the type of the offers (`OffersOK`). `UnitAgreesWithLot` compares the two verdicts rule by
rule. `MaxBidUseful` holds when the ceiling is a whole number of money units, as the
configured 2.00 is: `max_bid` is then exact, and no rounding remains to pass it by.
`CheaperIsStillADeal`: conversion, shipping and price per gigabyte are monotone in the
listed price, and the gates of the reference are on the same side of a lower one.

**Quartiles** (`MarketProofs`). `QuartilesAlwaysOrdered`, for samples of any size. The
value of a rank exists (`OrderStatisticIs`) because a finite set of samples has a
smallest set of those up to a value that is large enough: the strict subset ordering
of a finite set is well founded, which stands in for an induction. It grows with the
rank (`OrderStatisticMonotone`); interpolating between two neighbouring ranks stays between
them, and rounding half to even keeps the order.

**Readings** (`RulesProofs`, `TitlesProofs`). The invariant is that what is written is true of the
lot (`Truthful`); from it, for texts of any length and any lots of at most
sixteen modules of 4 GB and more (`TitlesAssumption`):
`NeverOverreadAlways`, that an accepted ad is not read as more than it sells. A
count that is read is the lot's (`CountIsReal`); where the size of a module is
told, it is read or nothing is (`CapacityIsReal`), because no size the grammar
does not know times at most 16 gives one it knows (`KnownMultiples`); and what is
accepted above 0.75 has a total that is their product or lacks a capacity
(`AcceptedIsCoherent`). `BoundAlwaysAdmissible`, the prefilter's I1: each candidate
of the bound is what is sold or a multiple of a capacity by a count that is
enough (`PlausibleIsEnough`). `NoEuroDealRuledOut` follows from it and from
rounding half to even (`HalfEvenAbove`); its assumption that prices are in euros
is needed: the prefilter divides the listed price unconverted
(`extract/prefilter.py:69`), so an ad in dollars just under the ceiling is ruled out.
`HardRejectIsAlwaysReal`: what a keyword, a reference or the matrix rejects does not fit,
because kinds, speeds and capacities are read as they are or not at all.
`TitlesTypeOK` says that what is read is a spec the verdict can work with.

**Types and cache** (`PipelineProofs`). `TypeOK` is not inductive, since it lets a
process be at a step without the listing, spec or deal the step works on.
`TypeInv` adds `HandOK`, what is in hand at each step; it gives `TypeCorrect`.
`CacheInv` adds `SpecStored`: from the moment a spec was found or stored, until
the process is done with the listing, the text in hand has one in the cache.
It gives `CacheCovers` for any number of processes and any crashes, because
no statement removes a spec.

**Alerts** (`PipelineProofs`). `CapHolds`: with `N` processes the urgent alerts of a
day pass the cap by at most `N - 1`. `UrgentCap` alone is not inductive: alerts
that were decided and not recorded yet must be counted. `CapInv` bounds, for
each day, the rows plus the processes that are sending by `DailyCap + N - 1`; the
process that decides saw fewer than `DailyCap` rows and all that send are among
the `N - 1` others. `PushesAreAccounted`: rows and pending records on one side,
deliveries on the other, differ by at most the faults; it is inductive with
`TypeInv`.

**Prices of one process** (`PipelineProofs`). `PriceInv`: no alert of an ad is at less
than its stored price, and the listing in hand is new, or cheaper by the threshold
than what is stored and than every alert of its ad; after its upsert it is what is
stored. A drop by the threshold from one price is one from any higher price
(`DropFromHigher`), which carries the property from the stored price to the alerts above
it. It gives `AdAlertsAlwaysDecrease` and `StoredPriceAlwaysDrops`. `FpInv` does the same for a
fingerprint: the rate limit reads the last alert by date, and with one process dates
never go back (`DatesOK`), so that is the last inserted (`LastIsLast`), under all the others.
`VerdictInv`, the spec in hand is the cached one and what is about to be stored replaces
nothing, gives `LlmVerdictAlwaysKept`. Each assumes `Procs = {only}`; with two processes each is
false, as two can take up the same listing.

**High bands** (`PipelineProofs`). `HighBandAlwaysAlertsOnce`, for one process: a band high
enough that the required drop is wider than it holds one alert of a fingerprint.
`BandInv` says that the band of a fingerprint of one module, alerted on or about to be, is that of
the listed price if that is in euros; `DropLeavesHighBand`, about integer division,
that two prices apart by the threshold are then in different bands. `FpInv` gives the drop.
The two restrictions, single modules and euros, are where the code keeps what
`blueprint/08-TESTING.md:54` says under I5, one alert unless the price drops; beyond them
the property is false, because the rate limit compares listed prices: a lot at 100 and
then at 25 the module has one total price and one fingerprint, and is alerted on twice.

**Mutes** (`PipelineProofs`). The rate limit reads the mute of the last alert only. `MutesOK`
says why that is nearly enough: of two rows of a fingerprint the later is never
muted for longer, and where it is muted for less it came too late for the mute of
the earlier (`Overtaken`); and what is being sent is late for the mute of every row, or that row
is overtaken (`PendingIsLate`). A mute writes all rows of the fingerprint to the same
date (`MuteMutesOK`); a record adds a row that is not muted (`RecordMutesOK`). It gives
`MutedOnlyOvertaken` for any number of processes and, with the dates of `FpInv`, the
property of the run for one (`MutedAlwaysSilent`).

**Bargains** (`PipelineProofs`). `ReadInv`, for any number of processes: what the cache
holds for a text, and what a process holds for its listing, is what the rules read in
that text, but for a basis that was resolved and a rejection by the prefilter, unless
the model had a part in it; and a text that settles by itself that the price is one
module's is never resolved otherwise, because `_verify_price_basis` does not ask then.
That is the guard the mutant drops. `HonestDealIsBargain` puts `NeverOverread`'s lemmas
and `DealIsUnderBarrier` together, and `HonestAlertsAlwaysBargains` is the property.

**Progress** (`PipelineProofs`). `HandlingAlwaysProgresses` is the half of `BatchIsHandled`
that needs no fairness: each step of a process that handles a batch, failed sends and
deaths included, leaves fewer listings, or as many and fewer statements for the one in hand (`Rank`), and no step of another
process, the phone, the drain or the clock touches either. With weak fairness of
`Handle` and `Raise` the batch comes to its end; that last inference stays with TLC.

**Supervisor** (`SupervisorProofs`). `RunsHaveRows` and `BreakerAgreesWithTable` from
`HandOK`: only the source that was just fetched is owed a row, and a breaker opened by a
run that has no row yet is that of a run that returned nothing.

**Deletions** (`AccountDeletionProofs`). `ImplementsErasure`: initial states and
steps of `AccountDeletion` are initial states and steps, or stutters, of
`Erasure`, for any number of processes and of days. It needs `HeldOK`: what a process
pulled stays in the queue, is on record or expired, whoever acknowledges it meanwhile.
`ErasedForGood` needs one process and `PageOK`: no page in hand holds an erased
seller, because a page is stored before the same process erases, and no page
of an account that is closed is fetched. `AckedIsErased`: an entry
that is not in its last day leaves the queue by an acknowledgment only, and that of
what is on record. `DeletionTypeCorrect` completes the module. That a listing is cut short changes
nothing of the safety, since what is pulled is any part of the queue.

**Questions** (`LlmQueueProofs`). `LlmDrainIsAtomic`, for any number of processes: every
step of `LlmQueue` is a step of `Questions` or changes no table. The work is in `Save`,
which must be an `Answer` about the tables of that moment. `QueueInv` says why it is:
who holds the lock is in a transaction and not stale (`LockOK`), and the batch of a
transaction that is not stale is of the first entries as they are (`BatchOK`), because a
commit by anybody else makes it stale. `LlmAskedOrLost` adds that a text in hand with
the ambiguous spec of the rules goes to the queue or, by a death, to `lost`.

**Tokens** (`CollectorsProofs`). `CollectInv` says what a token was when it was taken: a
request is sent with at least two ticks left, is late with at least one, and after a
401 the token is one just asked for. `CollectSkew` and `CollectAuthError` follow.

**What stays with TLC.** Liveness (`BatchIsHandled`, `EverySourceIsTried`,
`SilenceIsReported`, `AllowlistSettles`, the fairness of `Erasure`, `QuestionIsAnswered`,
`LockIsReleased`, `EbayRecovers`, `RedditRecoversOrIsStuck`): temporal reasoning with
fairness and `ENABLED` is beyond the installed provers. Every safety property that a run
checks is proved. The type invariants of `Titles` and `Collectors` are proved and not run.

## 5. Not modelled, and why

- Texts with phrases that are not true of the lot (a wrong total, another part
  for sale in the same ad), the overlap of matches inside one wording, ranks and
  brands of the matrix. Lots of 17 to 32 modules, which the grammar reads, are
  beyond the bound of the prefilter, which caps a count at the sixteen of the board.
- The model and its answers: a constant per text in `Pipeline`, a free choice in
  `LlmQueue`. Prompt, fields of the answer, and the remote fallback, which only the
  urgent lane would use and nothing drains. That an answer may be of older words than the
  hash it is stored under is in `Pipeline`; no property judges the answers, so none
  speaks of it.
- The attempts counter, which nothing reads. A reply without choices, which raises what
  nothing catches (`extract/llm.py:176`), is one of the bounded faults.
- A notification about a seller stored since the last publication is answered and
  dropped by the worker's filter; `Erasure` promises what the worker queued.
- `quantity_hint` raising in the middle of a batch (`collect/ebay.py:223`) is a restart in
  `Collectors`; that it ends the service although its docstring says it never raises is on
  the list of hazards, and no property is about it.
- Collectors: which fields of an answer become which of a listing, and filters on
  them. Sessions and proxies.
- The worker's signature check and its key cache; the FastAPI endpoint that can stand in for the worker. With two processes that
  publish, `AllowlistSettles` does not hold: the first to send may be the last to write its
  marker. It is a hazard on the list.
- `run-once` and `backfill` as commands: the rows of `source_runs` they do not write. As
  processes over the same database they are those of `Pipeline` and `LlmQueue`.
- Technical alerts, quiet hours (they change a priority only), wording, layout.
- Migrations, logging, configuration, reports. Checkpoints of the WAL.

## 6. Plan

Done, in this order: `Deals`, `Pipeline`, `Market`, `Supervisor`, `AccountDeletion` with
`Erasure`, `Extraction` with `Wares` and `Titles`, `LlmQueue` with `Questions`, `Collectors`, `Bargains`, and the
proofs above. Next:

1. *Account deletion*: two publishing processes, the key cache of the signature check,
   the FastAPI endpoint.
2. *Pipeline*: an abstract ledger of alerts refined by the pipeline; `run-once` and
   `backfill` with the rows they do not write.
3. *Supervisor with Collectors*: the errors of a fetch as the outcomes of the loop.
4. *Proofs*: the steps of the other liveness properties that need no fairness, as
   `HandlingAlwaysProgresses` is for `BatchIsHandled`.
