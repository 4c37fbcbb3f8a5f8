------------------------------- MODULE LlmQueue --------------------------------
(***************************************************************************)
(* The LLM queue (runtime/llm_queue.py, extract/llm.py) and the            *)
(* transaction of the post-cycle it is drained in (runtime/cli.py,         *)
(* core/db.py).  A cycle writes one statement at a time; a post-cycle is   *)
(* one transaction: the watchdog reads and notifies, the index is written, *)
(* the deferred lane is drained, one call to the model after the other.    *)
(*                                                                         *)
(* SQLite, in WAL mode: a transaction reads the database as it was at its  *)
(* first query; its first write takes the write lock, which it keeps to    *)
(* its end, and fails at once if another connection committed since that   *)
(* query; one that finds the lock taken fails after busy_timeout.  Nothing *)
(* catches these errors: the process dies and the transaction is undone.   *)
(*                                                                         *)
(* A listing is one that may alert, and a text one the rules leave         *)
(* ambiguous.  A text is a spec_hash: a row keeps the words of its first   *)
(* sight when its hash changes, so the words asked about may be of another *)
(* hash (Pipeline says of which); here the answer is any, either way.  The *)
(* counter of attempts, which nothing reads, is left out: counting one is  *)
(* a write like another.                                                   *)
(***************************************************************************)
EXTENDS Naturals, Sequences, FiniteSets

CONSTANTS
    NoRow,          \* no row, nothing in hand, no answer
    Nobody,         \* nobody holds the write lock
    Procs,          \* processes over the database
    Services,       \* those that come back to their post-cycle for ever
    Ads,            \* (source, external_id)
    Texts,          \* spec_hash values
    Unknown,        \* best_case values are 0..Unknown, in the order of the query:
                    \* that of their text, NULL last
    Urgent,         \* lane_for: those that go to the urgent lane
    BatchSize,      \* llm.batch_size
    MaxEvents       \* bound: sightings, other writes, rounds of the command line, faults

VARIABLES
    listings,   \* table listings: ad -> its text
    cache,      \* table spec_cache: text -> "vague", the rules' word, or an answer
    queue,      \* table llm_queue: text -> the best_case of its entry, hence its lane
    lock,       \* who holds the write lock
    stale,      \* processes whose transaction reads what is not the last state
    pc,         \* process -> what it is at
    hand,       \* process -> the listing it handles
    batch,      \* process -> the texts its drain has to ask about
    answers,    \* process -> what the model said of the first ones
    lost,       \* history: texts whose enqueueing a death prevented
    events      \* history: sightings, other writes, rounds of the command line, faults

db == << listings, cache, queue >>
memory == << hand, batch, answers >>
llmVars == << db, lock, stale, pc, memory, lost, events >>

(* Refinement: the tables, as committed.                                   *)
Promise == INSTANCE Questions

Answers == Promise!Answers
Transaction == {"watch", "probe", "ask"}
Statements == {"store", "upsert", "enqueue"}
Hand == [ad : Ads, text : Texts, spec : {"vague"} \cup Answers]

ASSUME LlmAssumption ==
    /\ NoRow \notin Texts \cup Answers \cup {"vague"} /\ NoRow \notin Hand
    /\ NoRow \notin 0..Unknown /\ Unknown \in Nat /\ Urgent \subseteq 0..Unknown \ {Unknown}
    /\ Nobody \notin Procs /\ Services \subseteq Procs /\ IsFiniteSet(Texts)
    /\ BatchSize \in Nat \ {0} /\ MaxEvents \in Nat

-----------------------------------------------------------------------------
Init ==
    /\ Promise!Init
    /\ lock = Nobody /\ stale = {}
    /\ pc = [p \in Procs |-> "idle"]
    /\ hand = [p \in Procs |-> NoRow]
    /\ batch = [p \in Procs |-> << >>]
    /\ answers = [p \in Procs |-> << >>]
    /\ lost = {} /\ events = 0

Goto(p, step) == pc' = [pc EXCEPT ![p] = step]
Spend == events < MaxEvents /\ events' = events + 1

(* Mutant: statements on their own, without a transaction.                 *)
CanWriteAnyway(p) == lock \in {p, Nobody}

(* The lock is had, or can be had and the transaction, if there is one,    *)
(* has read the last state.                                                *)
CanWrite(p) == lock = p \/ (lock = Nobody /\ p \notin stale)

(* COMMIT of what was written: transactions that are open read the past.   *)
Commit(p) ==
    /\ lock' = Nobody
    /\ stale' = (stale \cup {q \in Procs : pc[q] \in Transaction}) \ {p}

(* COMMIT of nothing.                                                      *)
Close(p) == stale' = stale \ {p} /\ UNCHANGED lock

-----------------------------------------------------------------------------
(* A cycle, in autocommit.                                                 *)

(* A listing that is new or cheaper, and the spec cached for its text or   *)
(* the one the rules give.                                                 *)
Sight(p) ==
    /\ pc[p] = "idle" /\ Spend
    /\ \E a \in Ads, t \in Texts :
           LET found == cache[t] # NoRow
           IN  /\ hand' = [hand EXCEPT ![p] =
                      [ad |-> a, text |-> t, spec |-> IF found THEN cache[t] ELSE "vague"]]
               /\ Goto(p, IF found THEN "upsert" ELSE "store")
    /\ UNCHANGED << db, lock, stale, batch, answers, lost >>

Store(p) ==
    /\ pc[p] = "store" /\ CanWrite(p) /\ Commit(p)
    /\ cache' = [cache EXCEPT ![hand[p].text] = "vague"]
    /\ Goto(p, "upsert")
    /\ UNCHANGED << listings, queue, memory, lost, events >>

(* An ambiguous listing goes to the queue, and so does one that is judged  *)
(* and found implausible, which the price decides; an invalid answer is a  *)
(* rejection.                                                              *)
Upsert(p) ==
    /\ pc[p] = "upsert" /\ CanWrite(p) /\ Commit(p)
    /\ listings' = [listings EXCEPT ![hand[p].ad] = hand[p].text]
    /\ \/ hand[p].spec # "invalid" /\ Goto(p, "enqueue") /\ UNCHANGED hand
       \/ hand[p].spec # "vague" /\ Goto(p, "idle") /\ hand' = [hand EXCEPT ![p] = NoRow]
    /\ UNCHANGED << cache, queue, batch, answers, lost, events >>

(* INSERT OR IGNORE, with the best case of this listing; what is ignored   *)
(* is no write.                                                            *)
Enqueue(p) ==
    /\ pc[p] = "enqueue" /\ CanWrite(p)
    /\ LET t == hand[p].text
       IN  /\ IF queue[t] = NoRow
              THEN /\ \E case \in 0..Unknown : queue' = [queue EXCEPT ![t] = case]
                   /\ Commit(p)
              ELSE UNCHANGED << queue, lock, stale >>
           /\ lost' = lost \ {t}
    /\ Goto(p, "idle")
    /\ hand' = [hand EXCEPT ![p] = NoRow]
    /\ UNCHANGED << listings, cache, batch, answers, events >>

(* Any other statement: last_seen, a row of source_runs, a mute.           *)
Touch(p) ==
    /\ pc[p] = "idle" /\ lock = Nobody /\ Spend
    /\ Commit(p)
    /\ UNCHANGED << db, pc, memory, lost >>

-----------------------------------------------------------------------------
(* The post-cycle, in a transaction.                                       *)

(* The texts of a set, in the order of the query.                          *)
Ordered(rows) ==
    {order \in [1..Cardinality(rows) -> rows] :
        /\ \A t \in rows : \E i \in DOMAIN order : order[i] = t
        /\ \A i, j \in DOMAIN order :
               i < j => order[i] # order[j] /\ queue[order[i]] <= queue[order[j]]}

(* Mutant: nothing is asked unless every one of the first is listed.       *)
OpenAllListed(p) ==
    /\ pc[p] = "idle"
    /\ IF p \in Services THEN UNCHANGED events ELSE Spend
    /\ \E rows \in Promise!Firsts :
           \E order \in Ordered(IF \A t \in rows : Promise!Listed(t) THEN rows ELSE {}) :
               batch' = [batch EXCEPT ![p] = order]
    /\ Goto(p, "watch")
    /\ UNCHANGED << db, lock, stale, hand, answers, lost >>

(* BEGIN and the first query, the watchdog's: what the drain will select   *)
(* is settled.  Of the first entries it takes those whose text a listing   *)
(* still has; the others keep their place.                                 *)
Open(p) ==
    /\ pc[p] = "idle"
    /\ IF p \in Services THEN UNCHANGED events ELSE Spend
    /\ \E rows \in Promise!Firsts :
           \E order \in Ordered({t \in rows : Promise!Listed(t)}) :
               batch' = [batch EXCEPT ![p] = order]
    /\ Goto(p, "watch")
    /\ UNCHANGED << db, lock, stale, hand, answers, lost >>

(* The notifications are sent; refresh_index writes if there is a sample.  *)
Refresh(p) ==
    /\ pc[p] = "watch"
    /\ \/ UNCHANGED lock
       \/ CanWrite(p) /\ lock' = p
    /\ Goto(p, "probe")
    /\ UNCHANGED << db, stale, memory, lost, events >>

Rest(p) ==
    /\ Goto(p, "idle")
    /\ batch' = [batch EXCEPT ![p] = << >>]
    /\ answers' = [answers EXCEPT ![p] = << >>]
    /\ UNCHANGED << hand, lost, events >>

(* server_busy is false: drain goes on, or has nothing to ask.             *)
Free(p) ==
    /\ pc[p] = "probe"
    /\ IF batch[p] # << >>
       THEN Goto(p, "ask") /\ UNCHANGED << lock, stale, memory, lost, events >>
       ELSE Rest(p) /\ IF lock = p THEN Commit(p) ELSE Close(p)
    /\ UNCHANGED db

(* Mutant: a reply that does not parse leaves a gap.                       *)
ReplyWithGap(p, i) ==
    /\ pc[p] = "ask" /\ i = Len(answers[p]) + 1 /\ i <= Len(batch[p])
    /\ \E said \in {"settled", NoRow} : answers' = [answers EXCEPT ![p] = Append(@, said)]
    /\ UNCHANGED << db, lock, stale, pc, hand, batch, lost, events >>

(* The model answers about the i-th listing; what does not follow the      *)
(* schema is an answer too.                                                *)
Reply(p, i) ==
    /\ pc[p] = "ask" /\ i = Len(answers[p]) + 1 /\ i <= Len(batch[p])
    /\ \E said \in Answers : answers' = [answers EXCEPT ![p] = Append(@, said)]
    /\ UNCHANGED << db, lock, stale, pc, hand, batch, lost, events >>

Asked(p, t) == \E i \in DOMAIN batch[p] : batch[p][i] = t
Place(p, t) == CHOOSE i \in DOMAIN batch[p] : batch[p][i] = t

(* Mutant: what could not be asked is dropped from the queue.              *)
UnavailableDrops(p) ==
    /\ pc[p] = "ask" /\ Len(answers[p]) < Len(batch[p])
    /\ CanWrite(p) /\ Commit(p)
    /\ queue' = [t \in Texts |-> IF Asked(p, t) THEN NoRow ELSE queue[t]]
    /\ Rest(p)
    /\ UNCHANGED << listings, cache >>

(* Mutant: it tries again in the same transaction.                         *)
UnavailableRetries(p) ==
    /\ pc[p] = "probe" \/ (pc[p] = "ask" /\ Len(answers[p]) < Len(batch[p]))
    /\ CanWrite(p)
    /\ Goto(p, "probe") /\ lock' = p
    /\ answers' = [answers EXCEPT ![p] = << >>]
    /\ UNCHANGED << db, stale, hand, batch, lost, events >>

(* The server is busy, at the first probe or at the second, or a call      *)
(* fails: what was answered in this round is dropped with the rest, and    *)
(* an attempt is counted.                                                  *)
Unavailable(p) ==
    /\ pc[p] = "probe" \/ (pc[p] = "ask" /\ Len(answers[p]) < Len(batch[p]))
    /\ CanWrite(p)
    /\ Rest(p)
    /\ IF lock = p \/ Promise!Deferred # {} THEN Commit(p) ELSE Close(p)
    /\ UNCHANGED db

(* Every listing of the batch is answered: specs stored, entries deleted,  *)
(* COMMIT.                                                                 *)
Save(p) ==
    /\ pc[p] = "ask" /\ Len(answers[p]) = Len(batch[p])
    /\ CanWrite(p) /\ Commit(p)
    /\ cache' = [t \in Texts |->
           IF Asked(p, t) THEN answers[p][Place(p, t)] ELSE cache[t]]
    /\ queue' = [t \in Texts |-> IF Asked(p, t) THEN NoRow ELSE queue[t]]
    /\ Rest(p)
    /\ UNCHANGED listings

-----------------------------------------------------------------------------
(* ROLLBACK, whatever was in hand is gone, and the service is restarted.   *)
Die(p) ==
    /\ Goto(p, "idle")
    /\ lock' = IF lock = p THEN Nobody ELSE lock
    /\ stale' = stale \ {p}
    /\ lost' = IF pc[p] \in {"upsert", "enqueue"} /\ hand[p].spec = "vague"
               THEN lost \cup {hand[p].text} ELSE lost
    /\ hand' = [hand EXCEPT ![p] = NoRow]
    /\ batch' = [batch EXCEPT ![p] = << >>]
    /\ answers' = [answers EXCEPT ![p] = << >>]
    /\ UNCHANGED db

(* "database is locked": a transaction that wants to write has read the    *)
(* past, or the lock is kept over calls that take longer than              *)
(* busy_timeout.                                                           *)
Locked(p) ==
    /\ pc[p] \in Statements \cup Transaction
    /\ \/ p \in stale
       \/ lock \in Procs \ {p} /\ pc[lock] \in {"probe", "ask"}
    /\ Die(p) /\ UNCHANGED events

(* A kill; the NotifyError of the watchdog; a reply without choices, which *)
(* raises what nothing catches.                                            *)
Fault(p) ==
    /\ pc[p] \in Statements \cup Transaction /\ Spend
    /\ Die(p)

-----------------------------------------------------------------------------
Work(p) ==
    \/ Store(p) \/ Upsert(p) \/ Enqueue(p) \/ Refresh(p) \/ Free(p) \/ Unavailable(p)
    \/ Save(p) \/ Locked(p) \/ \E i \in 1..BatchSize : Reply(p, i)

Next ==
    \E p \in Procs : Sight(p) \/ Touch(p) \/ Open(p) \/ Work(p) \/ Fault(p)

Spec == Init /\ [][Next]_llmVars

(* A process goes on, every call having a timeout; a service comes back to *)
(* its post-cycle.  The server is not busy for ever, nor fails for ever at *)
(* one place of the batch.                                                 *)
FairSpec ==
    /\ Spec
    /\ \A p \in Procs : WF_llmVars(Work(p))
    /\ \A p \in Services :
           /\ WF_llmVars(Open(p)) /\ SF_llmVars(Free(p))
           /\ \A i \in 1..BatchSize : SF_llmVars(Reply(p, i))

-----------------------------------------------------------------------------
TypeOK ==
    /\ listings \in [Ads -> Texts \cup {NoRow}]
    /\ cache \in [Texts -> {NoRow, "vague"} \cup Answers]
    /\ queue \in [Texts -> 0..Unknown \cup {NoRow}]
    /\ lock \in Procs \cup {Nobody} /\ stale \subseteq Procs
    /\ pc \in [Procs -> {"idle"} \cup Statements \cup Transaction]
    /\ hand \in [Procs -> Hand \cup {NoRow}]
    /\ batch \in [Procs -> Seq(Texts)] /\ answers \in [Procs -> Seq(Answers)]
    /\ lost \subseteq Texts /\ events \in 0..MaxEvents

(* A text whose cached spec is the ambiguous one of the rules is in the    *)
(* queue, or on its way there; only a death before the enqueue loses it,   *)
(* never a drain, a rollback or another process.                           *)
AskedOrLost ==
    \A t \in Texts : cache[t] = "vague" =>
        \/ queue[t] # NoRow
        \/ t \in lost
        \/ \E p \in Procs : /\ pc[p] \in {"upsert", "enqueue"}
                            /\ hand[p].text = t /\ hand[p].spec = "vague"

(* The drain is as if done at once: nothing it keeps was computed from     *)
(* what another process has changed since, and no entry leaves unanswered. *)
DrainIsAtomic == Promise!Spec

(* Entries of texts nobody lists any more, none of them after that of t.   *)
Orphans(t) == {u \in Promise!Deferred : ~Promise!Listed(u) /\ queue[u] <= queue[t]}

(* A question of the deferred lane that a listing still asks is answered,  *)
(* unless orphans, which are never removed, take every place of the batch. *)
(* Nothing of the kind holds of the urgent lane, which nothing drains.     *)
IsAnswered(t) ==
    t \in Promise!Deferred /\ Promise!Listed(t) ~>
        \/ queue[t] = NoRow \/ ~Promise!Listed(t)
        \/ Cardinality(Orphans(t)) >= BatchSize

(* The write lock, kept over the calls to the model, is free again and     *)
(* again: what waits for it can write, or fails and may try again.         *)
LockIsReleased == []<>(lock = Nobody)
=============================================================================
