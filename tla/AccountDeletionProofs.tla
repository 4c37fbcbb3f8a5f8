------------------------ MODULE AccountDeletionProofs ------------------------
(***************************************************************************)
(* Proofs about AccountDeletion, for any sellers, isolates and faults.     *)
(*                                                                         *)
(* What a process pulled is waiting, on record, or has lived its days in   *)
(* the worker's queue meanwhile (HeldOK); that gives the refinement of the *)
(* safety part of Erasure for any number of processes.  That nothing of an *)
(* erased seller comes back needs one process, which stores what it        *)
(* fetched before it erases (PageOK).                                      *)
(***************************************************************************)
EXTENDS AccountDeletion, TLAPS

(* A process that pulled holds entries that are waiting, on record or      *)
(* expired.                                                                *)
HeldOK ==
    \A p \in Procs : pc[p] = "erase" => held[p] \subseteq Queued \cup events \cup expired

(* Only closed accounts are notified, queued and erased.                   *)
ClosedOK == Queued \cup expired \subseteq closed /\ events \subseteq closed

DelInv == TypeOK /\ HeldOK /\ ClosedOK

(* Nothing is published, queued, stored or in hand at first.               *)
LEMMA InitDelInv == Init => DelInv
BY DeletionAssumption DEF Init, DelInv, TypeOK, HeldOK, ClosedOK, Queued

(* The invariant is kept by every call, lost or not, and by every crash.   *)
LEMMA StepDelInv == DelInv /\ [Next]_delVars => DelInv'
<1> SUFFICES ASSUME DelInv, [Next]_delVars
             PROVE  DelInv'
  OBVIOUS
<1> USE DEF DelInv, TypeOK, HeldOK, ClosedOK, Queued, world, worker, durable, Goto, Hold,
            Fault
<1>0. MaxPages \in Nat /\ MaxFaults \in Nat /\ QueueDays \in Nat \ {0}
  BY DeletionAssumption
<1>1. ASSUME NEW u \in Users, Close(u)
      PROVE  DelInv'
  BY <1>1 DEF Close
<1>2. ASSUME NEW u \in Users, NEW i \in Isolates, Deliver(u, i)
      PROVE  DelInv'
  <2>1. PICK names \in KnownTo(i) :
            /\ cached' = [cached EXCEPT ![i] = names]
            /\ left' = IF IsTracked(u, names) THEN [left EXCEPT ![u] = QueueDays] ELSE left
    BY <1>2 DEF Deliver
  <2>2. names \in {NoList} \cup SUBSET Users
    BY <2>1 DEF KnownTo
  <2>3. cached' \in [Isolates -> {NoList} \cup SUBSET Users]
    BY <2>1, <2>2
  <2>4. left' \in [Users -> 0..QueueDays] /\ Queued \subseteq Queued' /\ Queued' \subseteq closed
    BY <1>0, <1>2, <2>1 DEF Deliver
  <2>5. faults' \in 0..MaxFaults /\ due' \subseteq due
    BY <1>0, <1>2 DEF Deliver
  <2>6. QED
    BY <1>2, <2>3, <2>4, <2>5 DEF Deliver
<1>3. ASSUME NEW i \in Isolates, Recycle(i)
      PROVE  DelInv'
  BY <1>3 DEF Recycle
<1>d. CASE Day
  <2>1. left' \in [Users -> 0..QueueDays]
    BY <1>0, <1>d DEF Day
  <2>2. /\ Queued' \subseteq Queued /\ Queued \subseteq Queued' \cup expired'
        /\ expired \subseteq expired' /\ expired' \subseteq Queued \cup expired
    BY <1>0, <1>d DEF Day
  <2>3. QED
    BY <1>d, <2>1, <2>2 DEF Day
<1>4. ASSUME NEW p \in Procs, FetchPage(p)
      PROVE  DelInv'
  BY <1>0, <1>4 DEF FetchPage
<1>5. ASSUME NEW p \in Procs, StoreListing(p)
      PROVE  DelInv'
  BY <1>5 DEF StoreListing
<1>6. ASSUME NEW p \in Procs, ReadNames(p)
      PROVE  DelInv'
  BY <1>6 DEF ReadNames
<1>7. ASSUME NEW p \in Procs, PostAllowlist(p)
      PROVE  DelInv'
  <2>1. cached' \in [Isolates -> {NoList} \cup SUBSET Users]
        /\ allowlist' \in {NoList} \cup SUBSET Users /\ faults' \in 0..MaxFaults
    BY <1>0, <1>7 DEF PostAllowlist
  <2>2. pc' \in [Procs -> {"idle", "store", "post", "mark", "pull", "erase"}]
        /\ \A q \in Procs : pc'[q] = "erase" => pc[q] = "erase"
    BY <1>7 DEF PostAllowlist
  <2>3. QED
    BY <1>7, <2>1, <2>2 DEF PostAllowlist
<1>8. ASSUME NEW p \in Procs, WriteMarker(p)
      PROVE  DelInv'
  BY <1>8 DEF WriteMarker
<1>9. ASSUME NEW p \in Procs, Pull(p)
      PROVE  DelInv'
  <2>1. \/ \E K \in Listed :
              held' = [held EXCEPT ![p] = K \ {NoList}] /\ pc'[p] \in {"idle", "erase"}
        \/ held' = [held EXCEPT ![p] = {}] /\ pc'[p] = "idle"
    BY <1>9 DEF Pull
  <2>2. \A K \in Listed : K \ {NoList} \subseteq Queued
    BY DEF Listed, Keys
  <2>3. /\ held' \in [Procs -> SUBSET Users] /\ held'[p] \subseteq Queued
        /\ \A q \in Procs \ {p} : held'[q] = held[q]
    BY <2>1, <2>2
  <2>4. /\ pc' \in [Procs -> {"idle", "store", "post", "mark", "pull", "erase"}]
        /\ \A q \in Procs \ {p} : pc'[q] = pc[q]
        /\ faults' \in 0..MaxFaults
    BY <1>0, <1>9 DEF Pull
  <2>5. UNCHANGED << world, worker, durable, page, pages >>
    BY <1>9 DEF Pull
  <2>6. QED
    BY <2>3, <2>4, <2>5
<1>10. ASSUME NEW p \in Procs, ProcessDeletion(p)
       PROVE  DelInv'
  BY <1>10 DEF ProcessDeletion
<1>11. ASSUME NEW p \in Procs, Ack(p)
       PROVE  DelInv'
  <2>1. left' \in [Users -> 0..QueueDays] /\ faults' \in 0..MaxFaults
    BY <1>0, <1>11 DEF Ack, Delete
  <2>2. Queued' \subseteq Queued /\ Queued \subseteq Queued' \cup events
    BY <1>11 DEF Ack, Delete
  <2>3. /\ pc' = [pc EXCEPT ![p] = "idle"] /\ held' = [held EXCEPT ![p] = {}]
        /\ UNCHANGED << world, allowlist, cached, expired, durable, page, pages >>
    BY <1>11 DEF Ack
  <2>4. QED
    BY <2>1, <2>2, <2>3
<1>12. ASSUME NEW p \in Procs, Crash(p)
       PROVE  DelInv'
  BY <1>0, <1>12 DEF Crash
<1>13. CASE UNCHANGED delVars
  BY <1>13 DEF delVars
<1>14. QED
  BY <1>1, <1>2, <1>3, <1>d, <1>4, <1>5, <1>6, <1>7, <1>8, <1>9, <1>10, <1>11, <1>12, <1>13
     DEF Next, PostCycle

(* The queue, the tables and the memory of every process hold sellers.     *)
THEOREM DeletionTypeCorrect == Spec => []TypeOK
<1>1. DelInv => TypeOK
  BY DEF DelInv
<1>2. QED
  BY <1>1, InitDelInv, StepDelInv, PTL DEF Spec

-----------------------------------------------------------------------------
(* An entry that is on record stays in what was accepted when it is taken  *)
(* out of the queue: the acknowledgment is a stutter of Erasure, the       *)
(* delivery is an acceptance, each row of a page something held, and a day *)
(* lets the entries lapse that have no other and are not on record.        *)
LEMMA StepIsPromised ==
  DelInv /\ [Next]_delVars => [Promise!Next]_(Promise!erasureVars)
<1> SUFFICES ASSUME DelInv, [Next]_delVars
             PROVE  [Promise!Next]_(Promise!erasureVars)
  OBVIOUS
<1> USE DEF Promise!erasureVars, Queued, world, worker, durable
<1>0. QueueDays \in Nat \ {0} /\ left \in [Users -> 0..QueueDays]
  BY DeletionAssumption DEF DelInv, TypeOK
<1>1. ASSUME NEW u \in Users, NEW i \in Isolates, Deliver(u, i)
      PROVE  [Promise!Next]_(Promise!erasureVars)
  <2>1. (Queued' = Queued \/ Queued' = Queued \cup {u}) /\ UNCHANGED << expired, durable >>
    BY <1>0, <1>1 DEF Deliver
  <2>2. CASE u \in Queued \cup events \/ Queued' = Queued
    BY <2>1, <2>2
  <2>3. CASE u \notin Queued \cup events /\ Queued' = Queued \cup {u}
    <3>1. Promise!Accept(u)
      BY <2>1, <2>3 DEF Promise!Accept
    <3>2. QED
      BY <3>1 DEF Promise!Next
  <2>4. QED
    BY <2>1, <2>2, <2>3
<1>2. ASSUME NEW p \in Procs, StoreListing(p)
      PROVE  [Promise!Next]_(Promise!erasureVars)
  <2>1. PICK u \in page[p] : stored' = stored \cup {u}
    BY <1>2 DEF StoreListing
  <2>2. u \in Users
    BY DEF DelInv, TypeOK
  <2>3. Promise!Hold(u)
    BY <1>2, <2>1 DEF StoreListing, Promise!Hold
  <2>4. QED
    BY <2>2, <2>3 DEF Promise!Next
<1>3. ASSUME NEW p \in Procs, ProcessDeletion(p)
      PROVE  [Promise!Next]_(Promise!erasureVars)
  <2>1. PICK u \in held[p] \ events : events' = events \cup {u} /\ stored' = stored \ {u}
    BY <1>3 DEF ProcessDeletion
  <2>2. pc[p] = "erase" /\ UNCHANGED << Queued, expired >>
    BY <1>3 DEF ProcessDeletion
  <2>3. u \in Queued \cup expired /\ u \in Users
    BY <2>1, <2>2 DEF DelInv, HeldOK, TypeOK
  <2>4. Promise!Erase(u)
    BY <2>1, <2>2, <2>3 DEF Promise!Erase
  <2>5. QED
    BY <2>3, <2>4 DEF Promise!Next
<1>4. ASSUME NEW p \in Procs, Ack(p)
      PROVE  [Promise!Next]_(Promise!erasureVars)
  <2>1. /\ Queued' \subseteq Queued /\ Queued \ Queued' \subseteq held[p]
        /\ UNCHANGED << expired, durable >>
    BY <1>4 DEF Ack, Delete
  <2>2. held[p] \subseteq events
    BY <1>4 DEF Ack
  <2>3. QED
    BY <2>1, <2>2
<1>d. ASSUME Day
      PROVE  [Promise!Next]_(Promise!erasureVars)
  <2>1. PICK late \in SUBSET Users : late = {u \in Users : left[u] = 1} \ events
    OBVIOUS
  <2>2. /\ Queued' = Queued \ {u \in Users : left[u] = 1} /\ UNCHANGED durable
        /\ expired' = expired \cup {u \in Users : left[u] = 1}
    BY <1>0, <1>d DEF Day
  <2>3. CASE late = {}
    BY <1>0, <2>1, <2>2, <2>3
  <2>4. CASE late # {}
    <3>1. Promise!Lapse(late)
      BY <1>0, <2>1, <2>2, <2>4 DEF Promise!Lapse
    <3>2. QED
      BY <3>1 DEF Promise!Next
  <2>5. QED
    BY <2>3, <2>4
<1>5. ASSUME \/ \E u \in Users : Close(u)
             \/ \E i \in Isolates : Recycle(i)
             \/ \E p \in Procs : FetchPage(p) \/ ReadNames(p) \/ PostAllowlist(p)
                                 \/ WriteMarker(p) \/ Pull(p) \/ Crash(p)
             \/ UNCHANGED delVars
      PROVE  UNCHANGED Promise!erasureVars
  BY <1>5 DEF Close, Recycle, FetchPage, ReadNames, PostAllowlist, WriteMarker, Pull,
              Crash, delVars
<1>6. QED
  BY <1>1, <1>2, <1>3, <1>4, <1>d, <1>5 DEF Next, PostCycle

(* Every history of the worker and of any number of processes, with lost   *)
(* answers and crashes, is one in which only an accepted request is        *)
(* carried out, at most once, even one whose entry expired in hand; that   *)
(* removes the seller; and a request is dropped by its days running out    *)
(* only.                                                                   *)
THEOREM ImplementsErasure ==
  Spec => Promise!Init /\ [][Promise!Next]_(Promise!erasureVars)
<1>1. Init => Promise!Init
  BY DEF Init, Promise!Init, Queued
<1>2. QED
  BY <1>1, InitDelInv, StepDelInv, StepIsPromised, PTL DEF Spec

(* Until its last day an entry leaves the queue only when its erasure is   *)
(* on record: what is acknowledged was erased, by any number of processes. *)
THEOREM AckedIsErased == Spec => AckedWasErased
<1>1. DelInv /\ [Next]_delVars
      => [\A u \in Users : left[u] > 1 /\ left'[u] = 0 => u \in events]_delVars
  <2> SUFFICES ASSUME DelInv, Next, NEW u \in Users, left[u] > 1, left'[u] = 0
               PROVE  u \in events
    OBVIOUS
  <2>0. QueueDays \in Nat \ {0} /\ left \in [Users -> 0..QueueDays]
    BY DeletionAssumption DEF DelInv, TypeOK
  <2>1. ASSUME NEW p \in Procs, Ack(p)
        PROVE  u \in events
    BY <2>0, <2>1 DEF Ack, Delete
  <2>2. ASSUME NEW v \in Users, NEW i \in Isolates, Deliver(v, i)
        PROVE  FALSE
    BY <2>0, <2>2 DEF Deliver
  <2>3. CASE Day
    BY <2>0, <2>3 DEF Day
  <2>4. CASE \/ \E v \in Users : Close(v)
             \/ \E i \in Isolates : Recycle(i)
             \/ \E p \in Procs : FetchPage(p) \/ StoreListing(p) \/ ReadNames(p)
                    \/ PostAllowlist(p) \/ WriteMarker(p) \/ Pull(p)
                    \/ ProcessDeletion(p) \/ Crash(p)
    BY <2>4 DEF Close, Recycle, FetchPage, StoreListing, ReadNames, PostAllowlist,
                WriteMarker, Pull, ProcessDeletion, Crash, world, worker
  <2>5. QED
    BY <2>1, <2>2, <2>3, <2>4 DEF Next, PostCycle
<1>2. QED
  BY <1>1, InitDelInv, StepDelInv, PTL DEF Spec, AckedWasErased

-----------------------------------------------------------------------------
(* A page in hand holds no erased seller, and only a process that is       *)
(* storing has one.                                                        *)
PageOK ==
    \A p \in Procs : /\ page[p] \cap events = {}
                     /\ pc[p] # "store" => page[p] = {}

ErasureInv == DelInv /\ PageOK /\ ErasedStaysErased

(* One process stores its page before it erases.                           *)
LEMMA StepErasureInv ==
  ASSUME NEW loop, Procs = {loop}
  PROVE  ErasureInv /\ [Next]_delVars => ErasureInv'
<1> SUFFICES ASSUME ErasureInv, [Next]_delVars
             PROVE  ErasureInv'
  OBVIOUS
<1>0. DelInv'
  BY StepDelInv DEF ErasureInv
<1> USE DEF ErasureInv, DelInv, TypeOK, ClosedOK, PageOK, ErasedStaysErased, world,
            worker, durable, Goto, Hold
<1>1. CASE \/ \E u \in Users : Close(u) \/ \E i \in Isolates : Deliver(u, i)
           \/ \E i \in Isolates : Recycle(i)
           \/ Day \/ UNCHANGED delVars
  BY <1>0, <1>1 DEF Close, Deliver, Recycle, Day, delVars
<1>2. CASE FetchPage(loop)
  BY <1>0, <1>2 DEF FetchPage
<1>3. CASE StoreListing(loop)
  BY <1>0, <1>3 DEF StoreListing
<1>4. CASE ReadNames(loop) \/ PostAllowlist(loop) \/ WriteMarker(loop)
  <2>1. UNCHANGED << page, stored, events >> /\ page[loop] = {}
    BY <1>4 DEF ReadNames, PostAllowlist, WriteMarker
  <2>2. QED
    BY <1>0, <2>1
<1>5. CASE Pull(loop) \/ Ack(loop) \/ Crash(loop)
  <2>1. UNCHANGED << stored, events >> /\ page'[loop] = {}
    BY <1>5 DEF Pull, Ack, Crash
  <2>2. QED
    BY <1>0, <2>1
<1>6. CASE ProcessDeletion(loop)
  BY <1>0, <1>6 DEF ProcessDeletion
<1>7. QED
  BY <1>1, <1>2, <1>3, <1>4, <1>5, <1>6 DEF Next, PostCycle

(* With one process nothing of an erased seller is ever stored again,      *)
(* whatever was fetched before the account was closed.                     *)
THEOREM ErasedForGood ==
  ASSUME NEW loop, Procs = {loop}
  PROVE  Spec => []ErasedStaysErased
<1>1. Init => ErasureInv
  BY InitDelInv DEF Init, ErasureInv, PageOK, ErasedStaysErased
<1>2. ErasureInv /\ [Next]_delVars => ErasureInv'
  BY StepErasureInv
<1>3. ErasureInv => ErasedStaysErased
  BY DEF ErasureInv
<1>4. QED
  BY <1>1, <1>2, <1>3, PTL DEF Spec
=============================================================================
