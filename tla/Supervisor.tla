------------------------------ MODULE Supervisor ------------------------------
(***************************************************************************)
(* The service's endless loop (`ramtracker loop', runtime/cli.py): passes  *)
(* over the sources in a fixed order, each due by its own schedule         *)
(* (runtime/scheduler.py) and allowed by its own breaker                   *)
(* (runtime/breaker.py), then now and then the post-cycle work, where the  *)
(* watchdog (runtime/watchdog.py) reads what the runs wrote to             *)
(* source_runs.  Schedule and breaker are in memory; the table is not.     *)
(*                                                                         *)
(* `now' is read once a pass.  The timers count ticks from that `now', and *)
(* `elapsed' what has passed since; a tick is the 30 seconds of the sleep, *)
(* or what one waits for a source.                                         *)
(***************************************************************************)
EXTENDS Integers, Sequences, FiniteSets

CONSTANTS
    Order,          \* the sources, in the order deps.collectors lists them
    Outcomes,       \* source -> how its fetches may end
    Intervals,      \* ticks to the next run of a source, jitter included
    Backoff,        \* _BACKOFF_MINUTES, in ticks
    BackoffJitter,  \* what the jitter may add to a backoff
    PostInterval,   \* market_index.refresh_interval_min
    EmptyCycles,    \* watchdog.empty_cycles_before_alert
    MinPrior,       \* watchdog.min_prior_activity
    MaxElapsed,     \* bound: ticks one pass and its sleep may last
    MaxKills        \* bound: kills of the process, and NotifyErrors in post

VARIABLES
    pc,         \* what the process is at
    at,         \* the source of the pass it has come to, an index of Order
    raw,        \* raw_count of the run whose row is to be written
    elapsed,    \* ticks since the `now' of the pass
    dueIn,      \* scheduler._next
    failures,   \* breaker failures, up to the length of Backoff
    openIn,     \* breaker open_until
    postIn,     \* the next post-cycle
    recent,     \* table source_runs: source -> raw_count of its last rows
    prior,      \* and the sum of all of them, up to MinPrior
    alarms,     \* history: sources the last watchdog check reported
    owed,       \* history: sources fetched in this pass, without a row yet
    kills       \* history: kills and NotifyErrors

memory == << dueIn, failures, openIn, postIn >>
table == << recent, prior >>
supVars == << pc, at, raw, elapsed, memory, table, alarms, owed, kills >>

Sources == {Order[i] : i \in DOMAIN Order}
FailureKinds == {"blocked", "auth", "unavailable", "schema"}

ASSUME SupervisorAssumption ==
    /\ Order \in Seq(Sources) /\ Order # << >>
    /\ \A i, j \in DOMAIN Order : i # j => Order[i] # Order[j]
    /\ Outcomes \in
           [Sources -> SUBSET (FailureKinds \cup {"listings", "empty", "exception"})]
    /\ Intervals \subseteq Nat \ {0}
    /\ Backoff \in Seq(Nat) /\ Len(Backoff) > 3
    /\ BackoffJitter \subseteq Nat
    /\ PostInterval \in Nat /\ EmptyCycles \in Nat \ {0} /\ MinPrior \in Nat
    /\ MaxElapsed \in Nat \ {0} /\ MaxKills \in Nat

FailuresBeforeOpen == 3

-----------------------------------------------------------------------------
(* apply_migrations, build_deps, and a post-cycle that is due at once.     *)
Fresh ==
    /\ dueIn' = [s \in Sources |-> 0]
    /\ failures' = [s \in Sources |-> 0]
    /\ openIn' = [s \in Sources |-> 0]
    /\ postIn' = 0

Init ==
    /\ pc = "scan" /\ at = 1 /\ raw = 0 /\ elapsed = 0
    /\ dueIn = [s \in Sources |-> 0]
    /\ failures = [s \in Sources |-> 0]
    /\ openIn = [s \in Sources |-> 0]
    /\ postIn = 0
    /\ recent = [s \in Sources |-> << >>]
    /\ prior = [s \in Sources |-> 0]
    /\ alarms = {} /\ owed = {} /\ kills = 0

Here == Order[at]

Advance ==
    IF at < Len(Order) THEN at' = at + 1 /\ pc' = "scan"
    ELSE at' = 1 /\ pc' = IF postIn = 0 THEN "post" ELSE "sleep"

(* mark_ran, whatever became of the run.                                   *)
MarkRan(s) == \E n \in Intervals : dueIn' = [dueIn EXCEPT ![s] = n]

(* Not due: the next source.                                               *)
NotDue ==
    /\ pc = "scan" /\ dueIn[Here] > 0
    /\ Advance
    /\ UNCHANGED << raw, elapsed, memory, table, alarms, owed, kills >>

(* Due, but the breaker does not allow it: the run is skipped, no row.     *)
Skip ==
    /\ pc = "scan" /\ dueIn[Here] = 0 /\ openIn[Here] > 0
    /\ MarkRan(Here)
    /\ Advance
    /\ UNCHANGED << raw, elapsed, failures, openIn, postIn, table, alarms, owed, kills >>

(* run_source: the fetch begins.                                           *)
Attempt ==
    /\ pc = "scan" /\ dueIn[Here] = 0 /\ openIn[Here] = 0
    /\ pc' = "fetch"
    /\ owed' = owed \cup {Here}
    /\ UNCHANGED << at, raw, elapsed, memory, table, alarms, kills >>

(* record_success closes the breaker before the listings are processed.    *)
FetchSucceeds ==
    /\ pc = "fetch"
    /\ \E outcome \in Outcomes[Here] \cap {"listings", "empty"} :
           raw' = IF outcome = "listings" THEN 1 ELSE 0
    /\ failures' = [failures EXCEPT ![Here] = 0]
    /\ openIn' = [openIn EXCEPT ![Here] = 0]
    /\ pc' = "row"
    /\ UNCHANGED << at, elapsed, dueIn, postIn, table, alarms, owed, kills >>

(* record_failure, counted from the `now' of the pass; a changed schema    *)
(* leaves the breaker alone.                                               *)
FetchFails ==
    /\ pc = "fetch"
    /\ raw' = 0
    /\ \E outcome \in Outcomes[Here] \cap FailureKinds :
           IF outcome = "schema" THEN UNCHANGED << failures, openIn >>
           ELSE LET n == IF failures[Here] < Len(Backoff)
                         THEN failures[Here] + 1 ELSE Len(Backoff)
                IN  /\ failures' = [failures EXCEPT ![Here] = n]
                    /\ \E j \in BackoffJitter :
                           openIn' = [openIn EXCEPT ![Here] = Backoff[n] + j]
    /\ pc' = "row"
    /\ UNCHANGED << at, elapsed, dueIn, postIn, table, alarms, owed, kills >>

(* Mutant: persist_failed_run is not called.                               *)
WriteRowOfSuccess ==
    /\ pc = "row"
    /\ IF openIn[Here] > 0 THEN UNCHANGED << table, owed >>
       ELSE /\ recent' = [recent EXCEPT ![Here] =
                  LET rows == Append(@, raw)
                  IN  IF Len(rows) > EmptyCycles THEN Tail(rows) ELSE rows]
            /\ prior' = [prior EXCEPT ![Here] = IF @ + raw > MinPrior THEN @ ELSE @ + raw]
            /\ owed' = owed \ {Here}
    /\ MarkRan(Here)
    /\ Advance
    /\ UNCHANGED << raw, elapsed, failures, openIn, postIn, alarms, kills >>

(* The row, by _process or by persist_failed_run; then the schedule.       *)
WriteRow ==
    /\ pc = "row"
    /\ recent' = [recent EXCEPT ![Here] =
           LET rows == Append(@, raw)
           IN  IF Len(rows) > EmptyCycles THEN Tail(rows) ELSE rows]
    /\ prior' = [prior EXCEPT ![Here] = IF @ + raw > MinPrior THEN @ ELSE @ + raw]
    /\ owed' = owed \ {Here}
    /\ MarkRan(Here)
    /\ Advance
    /\ UNCHANGED << raw, elapsed, failures, openIn, postIn, alarms, kills >>

Anomalies ==
    {s \in Sources : /\ prior[s] >= MinPrior
                     /\ Len(recent[s]) >= EmptyCycles
                     /\ \A i \in DOMAIN recent[s] : recent[s][i] = 0}

(* _post_cycle: the watchdog, its notifications sent, the index refreshed. *)
PostCycle ==
    /\ pc = "post"
    /\ alarms' = Anomalies
    /\ postIn' = PostInterval
    /\ pc' = "sleep"
    /\ UNCHANGED << at, raw, elapsed, dueIn, failures, openIn, table, owed, kills >>

(* Mutant: a time that is past stays in the past.                          *)
MinusBelow(n) == n - elapsed

Minus(n) == IF n > elapsed THEN n - elapsed ELSE 0

(* Mutant: the breaker is compared with the `now' of the failure.          *)
WakeInThePast ==
    /\ pc = "sleep" /\ elapsed > 0
    /\ pc' = "scan" /\ elapsed' = 0 /\ owed' = {}
    /\ dueIn' = [s \in Sources |-> Minus(dueIn[s])]
    /\ postIn' = Minus(postIn)
    /\ UNCHANGED << at, raw, failures, openIn, table, alarms, kills >>

(* The sleep is over: a new `now'.                                         *)
Wake ==
    /\ pc = "sleep" /\ elapsed > 0
    /\ pc' = "scan" /\ elapsed' = 0 /\ owed' = {}
    /\ dueIn' = [s \in Sources |-> Minus(dueIn[s])]
    /\ openIn' = [s \in Sources |-> Minus(openIn[s])]
    /\ postIn' = Minus(postIn)
    /\ UNCHANGED << at, raw, failures, table, alarms, kills >>

Tick ==
    /\ pc \in {"fetch", "sleep"} /\ elapsed < MaxElapsed
    /\ elapsed' = elapsed + 1
    /\ UNCHANGED << pc, at, raw, memory, table, alarms, owed, kills >>

Die ==
    /\ pc' = "down" /\ at' = 1 /\ raw' = 0 /\ elapsed' = 0 /\ owed' = {}
    /\ Fresh
    /\ UNCHANGED << table, alarms >>

(* An exception that is not a SourceError, in the fetch or in what is done *)
(* with its listings: a body that is not JSON, a missing key, a listing    *)
(* the model refuses, a currency without a rate.  Nothing catches it.      *)
FetchRaises ==
    /\ pc = "fetch" /\ "exception" \in Outcomes[Here]
    /\ Die /\ UNCHANGED kills

(* A kill, or the NotifyError of a watchdog notification.                  *)
Kill ==
    /\ pc # "down" /\ kills < MaxKills
    /\ kills' = kills + 1
    /\ Die

(* systemd: Restart=on-failure, RestartSec=30.                             *)
Restart ==
    /\ pc = "down"
    /\ pc' = "scan"
    /\ UNCHANGED << at, raw, elapsed, memory, table, alarms, owed, kills >>

Fetched == FetchSucceeds \/ FetchFails \/ FetchRaises
Work == NotDue \/ Skip \/ Attempt \/ WriteRow \/ PostCycle \/ Wake \/ Restart
Next == Work \/ Fetched \/ Tick \/ Kill

Spec == Init /\ [][Next]_supVars

(* Every call to a source has a timeout, the sleep ends, systemd restarts. *)
FairSpec ==
    Spec /\ WF_supVars(Work) /\ WF_supVars(Fetched)
         /\ WF_supVars(pc = "sleep" /\ Tick)

-----------------------------------------------------------------------------
TypeOK ==
    /\ pc \in {"scan", "fetch", "row", "post", "sleep", "down"}
    /\ at \in DOMAIN Order /\ raw \in {0, 1} /\ elapsed \in 0..MaxElapsed
    /\ dueIn \in [Sources -> Nat] /\ openIn \in [Sources -> Nat]
    /\ failures \in [Sources -> 0..Len(Backoff)] /\ postIn \in 0..PostInterval
    /\ recent \in [Sources -> Seq({0, 1})] /\ prior \in [Sources -> 0..MinPrior]
    /\ alarms \subseteq Sources /\ owed \subseteq Sources /\ kills \in 0..MaxKills

Attempted(s) == pc = "fetch" /\ Here = s
Productive(s) == recent[s] # << >> /\ recent[s][Len(recent[s])] = 1

(* "Une ligne ecrite meme en echec": when a pass is over every source that *)
(* was fetched in it has its row, however the fetch ended.                 *)
EveryRunHasARow == pc \in {"post", "sleep"} => owed = {}

(* The breaker, in memory, and the table agree: it holds a source back     *)
(* only if that source's last row is that of a run that returned nothing.  *)
BreakerHasItsRow ==
    \A s \in Sources :
        openIn[s] > 0 /\ ~(pc = "row" /\ Here = s) =>
            recent[s] # << >> /\ ~Productive(s)

(* "Leboncoin bloque ne doit jamais empecher eBay de tourner": no failure  *)
(* of any source, and no backoff, keeps a source from being tried again,   *)
(* nor does an exception nothing catches, if only the last source has one. *)
EverySourceIsTried == \A s \in Sources : []<>Attempted(s)

(* The inverted watchdog: a source that has produced and then returns      *)
(* nothing any more, because it is empty, fails or is held back, is        *)
(* reported, unless it comes back or the process dies; after a restart it  *)
(* is owed the report again.                                               *)
SilenceIsReported ==
    \A s \in Sources :
        prior[s] >= MinPrior /\ ~Productive(s) ~>
            s \in alarms \/ Productive(s) \/ pc = "down"

-----------------------------------------------------------------------------
(* "Une source en echec n'interrompt jamais le cycle des autres": with one *)
(* source whose fetch raises, the others are still tried.                  *)
OthersAreTried ==
    \A s \in Sources : "exception" \notin Outcomes[s] => []<>Attempted(s)
=============================================================================
