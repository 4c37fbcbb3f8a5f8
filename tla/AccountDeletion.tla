--------------------------- MODULE AccountDeletion ----------------------------
(***************************************************************************)
(* eBay's account deletions (runtime/ebay_deletion.py and the Cloudflare   *)
(* worker, deploy/worker/src/worker.js).  eBay notifies the worker, which  *)
(* queues the notification if its seller is on the list RamTracker         *)
(* published, and answers at once; it keeps a notification for a week.     *)
(* RamTracker publishes the list when the set of its sellers changed,      *)
(* pulls the queue, erases, acknowledges.                                  *)
(*                                                                         *)
(* An account is closed once, and its notification is named by its user;   *)
(* what is stored of a seller is the rows that still bear the name.        *)
(***************************************************************************)
EXTENDS Naturals, FiniteSets

CONSTANTS
    NoList,     \* no list published, nothing cached, no marker
    Users,      \* eBay sellers
    Procs,      \* processes of RamTracker
    Isolates,   \* isolates of the worker, each with its memory
    ListLimit,  \* keys KV lists at once
    QueueDays,  \* days KV keeps an entry (QUEUE_TTL_S)
    MaxPages,   \* bound: pages fetched
    MaxFaults   \* bound: calls lost, crashes

VARIABLES
    closed,     \* eBay: accounts closed
    due,        \* eBay: notifications to deliver, again if not answered
    left,       \* KV: seller -> days its entry has left, 0 if there is none
    allowlist,  \* KV: the sellers followed, or NoList
    cached,     \* isolate -> allowlistCache.names
    stored,     \* table listings: sellers with rows that bear their name
    events,     \* table account_deletion_events
    marker,     \* state_dir/ebay_allowlist.sha256: the set it is the digest of
    pc,         \* process -> what it is at
    page,       \* process -> sellers of a fetched page not stored yet
    held,       \* process -> the set it posts, pulled or acknowledges
    expired,    \* history: sellers an entry of which KV let go by itself
    pages,      \* history: pages fetched
    faults      \* history: calls lost and crashes

world == << closed, due >>
worker == << left, allowlist, cached, expired >>
durable == << stored, events, marker >>
delVars == << world, worker, durable, pc, page, held, pages, faults >>

ASSUME DeletionAssumption ==
    /\ \A S \in SUBSET Users : NoList # S
    /\ IsFiniteSet(Procs) /\ Procs # {} /\ Isolates # {}
    /\ ListLimit \in Nat \ {0, 1} /\ QueueDays \in Nat \ {0}
    /\ MaxPages \in Nat /\ MaxFaults \in Nat

-----------------------------------------------------------------------------
Init ==
    /\ closed = {} /\ due = {} /\ allowlist = NoList
    /\ left = [u \in Users |-> 0] /\ expired = {}
    /\ cached = [i \in Isolates |-> NoList]
    /\ stored = {} /\ events = {} /\ marker = NoList
    /\ pc = [p \in Procs |-> "idle"]
    /\ page = [p \in Procs |-> {}]
    /\ held = [p \in Procs |-> {}]
    /\ pages = 0 /\ faults = 0

Goto(p, step) == pc' = [pc EXCEPT ![p] = step]
Hold(p, set) == held' = [held EXCEPT ![p] = set]
Fault == faults < MaxFaults /\ faults' = faults + 1

(* A seller closes the account: eBay takes the listings down.              *)
Close(u) ==
    /\ u \notin closed
    /\ closed' = closed \cup {u} /\ due' = due \cup {u}
    /\ UNCHANGED << worker, durable, pc, page, held, pages, faults >>

-----------------------------------------------------------------------------
(* The worker.                                                             *)

Queued == {u \in Users : left[u] > 0}

(* isTracked: what an isolate has cached or, when that is nothing or too   *)
(* old and KV can be read, what KV has; without either, anyone is tracked. *)
KnownTo(i) == {cached[i]} \cup ({allowlist} \ {NoList})

IsTracked(u, names) == names = NoList \/ u \in names

(* POST notification: queued if tracked, answered 204 either way; without  *)
(* the answer eBay sends it again, and an entry put again has all its days.*)
Deliver(u, i) ==
    /\ u \in due
    /\ \E names \in KnownTo(i) :
           /\ cached' = [cached EXCEPT ![i] = names]
           /\ left' = IF IsTracked(u, names) THEN [left EXCEPT ![u] = QueueDays] ELSE left
    /\ \/ due' = due \ {u} /\ UNCHANGED faults
       \/ Fault /\ UNCHANGED due
    /\ UNCHANGED << closed, allowlist, expired, durable, pc, page, held, pages >>

(* A day passes: KV lets go of the entries that have lived their days,     *)
(* pulled or not (expirationTtl).                                          *)
Day ==
    /\ Queued # {}
    /\ left' = [u \in Users |-> IF left[u] = 0 THEN 0 ELSE left[u] - 1]
    /\ expired' = expired \cup {u \in Users : left[u] = 1}
    /\ UNCHANGED << world, allowlist, cached, durable, pc, page, held, pages, faults >>

(* An isolate is recycled.                                                 *)
Recycle(i) ==
    /\ cached[i] # NoList
    /\ cached' = [cached EXCEPT ![i] = NoList]
    /\ UNCHANGED << world, left, expired, allowlist, durable, pc, page, held, pages, faults >>

-----------------------------------------------------------------------------
(* RamTracker.                                                             *)

(* A run of the eBay source: one page of listings of open accounts, ...    *)
FetchPage(p) ==
    /\ pc[p] = "idle" /\ pages < MaxPages
    /\ \E S \in SUBSET (Users \ closed) : S # {} /\ page' = [page EXCEPT ![p] = S]
    /\ Goto(p, "store")
    /\ pages' = pages + 1
    /\ UNCHANGED << world, worker, durable, held, faults >>

(* ... each stored in its turn.                                            *)
StoreListing(p) ==
    /\ pc[p] = "store"
    /\ \E u \in page[p] :
           /\ stored' = stored \cup {u}
           /\ page' = [page EXCEPT ![p] = @ \ {u}]
    /\ UNCHANGED << world, worker, events, marker, pc, held, pages, faults >>

(* Mutant: the names are compared with the number that was sent.           *)
ReadNamesCounted(p) ==
    /\ pc[p] \in {"idle", "store"} /\ page[p] = {}
    /\ IF marker # NoList /\ Cardinality(stored) = Cardinality(marker)
       THEN Goto(p, "pull") /\ UNCHANGED held
       ELSE Goto(p, "post") /\ Hold(p, stored)
    /\ UNCHANGED << world, worker, durable, page, pages, faults >>

(* Mutant: rows without a seller are not left out, and an erasure makes    *)
(* such rows; NoList stands for the NULL.                                  *)
ReadNamesOrNull(p) ==
    /\ pc[p] \in {"idle", "store"} /\ page[p] = {}
    /\ LET names == IF events = {} THEN stored ELSE stored \cup {NoList} IN
       IF names = marker THEN Goto(p, "pull") /\ UNCHANGED held
       ELSE Goto(p, "post") /\ Hold(p, names)
    /\ UNCHANGED << world, worker, durable, page, pages, faults >>

(* push_seller_allowlist: the names, and whether they changed.             *)
ReadNames(p) ==
    /\ pc[p] \in {"idle", "store"} /\ page[p] = {}
    /\ IF stored = marker THEN Goto(p, "pull") /\ UNCHANGED held
       ELSE Goto(p, "post") /\ Hold(p, stored)
    /\ UNCHANGED << world, worker, durable, page, pages, faults >>

(* POST /allowlist; what is not answered may or may not have arrived.      *)
PostAllowlist(p) ==
    /\ pc[p] = "post"
    /\ \/ /\ allowlist' = held[p]
          /\ \E i \in Isolates : cached' = [cached EXCEPT ![i] = held[p]]
          /\ \/ Goto(p, "mark") /\ UNCHANGED faults
             \/ Goto(p, "pull") /\ Fault
       \/ Goto(p, "pull") /\ Fault /\ UNCHANGED << allowlist, cached >>
    /\ UNCHANGED << world, left, expired, durable, page, held, pages >>

WriteMarker(p) ==
    /\ pc[p] = "mark"
    /\ marker' = held[p]
    /\ Goto(p, "pull")
    /\ UNCHANGED << world, worker, stored, events, page, held, pages, faults >>

(* The keys of one PENDING.list(): NoList stands for the key of the list,   *)
(* which is there once a list is published and takes a place like another. *)
Keys == IF allowlist = NoList THEN Queued ELSE Queued \cup {NoList}
Listed ==
    {K \in SUBSET Keys :
        Cardinality(K) <= ListLimit /\ (Cardinality(K) < ListLimit => K = Keys)}

(* GET /pending: the listed keys without the reserved one.                 *)
Pull(p) ==
    /\ pc[p] = "pull"
    /\ \/ \E K \in Listed :
              /\ Hold(p, K \ {NoList})
              /\ Goto(p, IF K \subseteq {NoList} THEN "idle" ELSE "erase")
          /\ UNCHANGED faults
       \/ Fault /\ Hold(p, {}) /\ Goto(p, "idle")
    /\ UNCHANGED << world, worker, durable, page, pages >>

(* Mutant: the event is recorded without the erasure.                      *)
RecordDeletion(p) ==
    /\ pc[p] = "erase"
    /\ \E u \in held[p] \ events : events' = events \cup {u}
    /\ UNCHANGED << world, worker, stored, marker, pc, page, held, pages, faults >>

(* process_deletion, one transaction: the rows of the seller and the event *)
(* that says so.                                                           *)
ProcessDeletion(p) ==
    /\ pc[p] = "erase"
    /\ \E u \in held[p] \ events :
           events' = events \cup {u} /\ stored' = stored \ {u}
    /\ UNCHANGED << world, worker, marker, pc, page, held, pages, faults >>

(* The entries of a set of sellers are deleted, if they are there.         *)
Delete(set) == left' = [u \in Users |-> IF u \in set THEN 0 ELSE left[u]]

(* Mutant: the acknowledgment does not wait for the erasures.              *)
AckEarly(p) ==
    /\ pc[p] = "erase"
    /\ Delete(held[p]) /\ UNCHANGED faults
    /\ Goto(p, "idle") /\ Hold(p, {})
    /\ UNCHANGED << world, allowlist, cached, expired, durable, page, pages >>

(* Mutant: the acknowledgment empties the queue.                           *)
AckQueue(p) ==
    /\ pc[p] = "erase" /\ held[p] \subseteq events
    /\ Delete(Users) /\ UNCHANGED faults
    /\ Goto(p, "idle") /\ Hold(p, {})
    /\ UNCHANGED << world, allowlist, cached, expired, durable, page, pages >>

(* POST /ack, once each entry was processed, now or before.                *)
Ack(p) ==
    /\ pc[p] = "erase" /\ held[p] \subseteq events
    /\ \/ Delete(held[p]) /\ UNCHANGED faults
       \/ Fault /\ UNCHANGED left
    /\ Goto(p, "idle") /\ Hold(p, {})
    /\ UNCHANGED << world, allowlist, cached, expired, durable, page, pages >>

(* The process dies and starts again with nothing in hand.                 *)
Crash(p) ==
    /\ pc[p] # "idle" /\ Fault
    /\ Goto(p, "idle") /\ Hold(p, {})
    /\ page' = [page EXCEPT ![p] = {}]
    /\ UNCHANGED << world, worker, durable, pages >>

PostCycle(p) ==
    \/ StoreListing(p) \/ ReadNames(p) \/ PostAllowlist(p) \/ WriteMarker(p)
    \/ Pull(p) \/ ProcessDeletion(p) \/ Ack(p)

Next ==
    \/ \E u \in Users : Close(u) \/ \E i \in Isolates : Deliver(u, i)
    \/ \E i \in Isolates : Recycle(i)
    \/ Day
    \/ \E p \in Procs : FetchPage(p) \/ PostCycle(p) \/ Crash(p)

Spec == Init /\ [][Next]_delVars

(* The service's loop comes back to its post-cycle; nothing says that it   *)
(* does so before an entry has lived its days.                             *)
FairSpec == Spec /\ \A p \in Procs : WF_delVars(PostCycle(p))

-----------------------------------------------------------------------------
TypeOK ==
    /\ closed \subseteq Users /\ due \subseteq closed
    /\ left \in [Users -> 0..QueueDays] /\ expired \subseteq Users
    /\ events \subseteq Users /\ stored \subseteq Users
    /\ allowlist \in {NoList} \cup SUBSET Users /\ marker \in {NoList} \cup SUBSET Users
    /\ cached \in [Isolates -> {NoList} \cup SUBSET Users]
    /\ pc \in [Procs -> {"idle", "store", "post", "mark", "pull", "erase"}]
    /\ page \in [Procs -> SUBSET Users] /\ held \in [Procs -> SUBSET Users]
    /\ pages \in 0..MaxPages /\ faults \in 0..MaxFaults

(* A page fetched before an account was closed is stored before the        *)
(* process that fetched it erases: nothing of an erased seller comes back. *)
ErasedStaysErased == events \cap stored = {}

(* Until its last day an entry leaves the worker's queue only when its      *)
(* erasure is on record, whatever was delivered twice, lost or crashed:    *)
(* only what is erased is acknowledged.                                    *)
AckedWasErased ==
    [][ \A u \in Users : left[u] > 1 /\ left'[u] = 0 => u \in events ]_delVars

(* With one process the list comes to hold every seller an open account of *)
(* which is stored, although answers get lost and the marker lags.         *)
AllowlistSettles ==
    <>[](allowlist # NoList /\ stored \ closed \subseteq allowlist)

(* Refinement: what the worker queued or RamTracker recorded was accepted; *)
(* what is recorded is carried out, and what is neither waiting nor        *)
(* recorded has lapsed.                                                    *)
Promise == INSTANCE Erasure WITH
    accepted <- Queued \cup events \cup expired, erased <- events,
    lapsed <- expired \ (Queued \cup events), holdings <- stored

Erasure == Promise!Spec
=============================================================================
