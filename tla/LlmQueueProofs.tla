--------------------------- MODULE LlmQueueProofs ---------------------------
(***************************************************************************)
(* Proofs about LlmQueue, for any processes, listings, texts and bounds.   *)
(*                                                                         *)
(* A drain is as if done at once because the batch a transaction read at   *)
(* its start is still the one it would read (BatchOK): whoever changes the *)
(* tables commits, and a commit makes every open transaction stale, hence  *)
(* unable to write unless it holds the lock; a holder is never stale       *)
(* (LockOK), since nobody else commits meanwhile.                          *)
(***************************************************************************)
EXTENDS LlmQueue, FiniteSetTheorems, SequenceTheorems, TLAPS

(* The holder of the write lock is in a transaction that read the last state. *)
LockOK == \A p \in Procs : lock = p => pc[p] \in {"probe", "ask"} /\ p \notin stale

(* A process at a statement of a cycle has a listing in hand, and stores    *)
(* only the word of the rules.                                             *)
HandOK ==
    \A p \in Procs : pc[p] \in Statements =>
        /\ hand[p] \in Hand
        /\ pc[p] = "store" => hand[p].spec = "vague"

(* The texts of a batch are those of these entries that some listing has.  *)
IsBatch(p, rows) == \A t \in Texts : Asked(p, t) <=> t \in rows /\ Promise!Listed(t)

BatchOK ==
    \A p \in Procs : pc[p] \in Transaction /\ p \notin stale =>
        \E rows \in Promise!Firsts : IsBatch(p, rows)

QueueInv == TypeOK /\ LockOK /\ HandOK /\ BatchOK

-----------------------------------------------------------------------------
LEMMA InitQueueInv == Init => QueueInv
BY LlmAssumption DEF Init, Promise!Init, QueueInv, TypeOK, LockOK, HandOK, BatchOK,
   Statements, Transaction, Answers, Promise!Answers

(* An answer is a member of the sequence at the place of its text.         *)
LEMMA PlaceInBatch ==
    ASSUME NEW p \in Procs, NEW t \in Texts, Asked(p, t)
    PROVE  Place(p, t) \in DOMAIN batch[p] /\ batch[p][Place(p, t)] = t
BY DEF Asked, Place

(* The batch of a query asks the texts of the set it orders, and no other. *)
LEMMA OrderedIsBatch ==
    ASSUME NEW rows \in Promise!Firsts,
           NEW order \in Ordered({t \in rows : Promise!Listed(t)}),
           NEW t \in Texts
    PROVE  (\E i \in DOMAIN order : order[i] = t) <=> t \in rows /\ Promise!Listed(t)
<1> DEFINE named == {u \in rows : Promise!Listed(u)}
<1>1. order \in [1..Cardinality(named) -> named]
  BY DEF Ordered
<1>2. \A u \in named : \E i \in DOMAIN order : order[i] = u
  BY DEF Ordered
<1>3. \A i \in DOMAIN order : order[i] \in named
  BY <1>1
<1> QED
  BY <1>2, <1>3

(* What is ordered is a sequence of texts.                                 *)
LEMMA OrderedIsSeq ==
    ASSUME NEW rows \in Promise!Firsts,
           NEW order \in Ordered({t \in rows : Promise!Listed(t)})
    PROVE  order \in Seq(Texts)
<1> DEFINE named == {u \in rows : Promise!Listed(u)}
<1>1. named \subseteq Texts
  BY DEF Promise!Firsts, Promise!Deferred
<1>2. Cardinality(named) \in Nat
  BY <1>1, LlmAssumption, FS_Subset, FS_CardinalityType
<1>3. order \in [1..Cardinality(named) -> named]
  BY DEF Ordered
<1>4. \A i \in 1..Cardinality(named) : order[i] \in Texts
  BY <1>1, <1>3
<1> QED
  BY <1>2, <1>3, <1>4, SeqDef

-----------------------------------------------------------------------------
(* A step of another process leaves a transaction as it was, or stale.     *)
Undisturbed(p) ==
    \A q \in Procs \ {p} :
        /\ pc'[q] = pc[q] /\ hand'[q] = hand[q] /\ batch'[q] = batch[q]
        /\ lock' # q \/ (lock' = lock /\ stale' \ {p} = stale \ {p})
        /\ \/ stale' \ {p} = stale \ {p} /\ UNCHANGED db
           \/ pc[q] \in Transaction => q \in stale'

(* What the invariant says of the process that moves.                      *)
OwnOK(p) ==
    /\ lock' = p => pc'[p] \in {"probe", "ask"} /\ p \notin stale'
    /\ pc'[p] \in Statements =>
           hand'[p] \in Hand /\ (pc'[p] = "store" => hand'[p].spec = "vague")
    /\ pc'[p] \in Transaction /\ p \notin stale' =>
           \E rows \in Promise!Firsts' : IsBatch(p, rows)'

(* The same question has the same answers while the tables are the same.   *)
LEMMA SameFirsts ==
    ASSUME UNCHANGED db
    PROVE  Promise!Firsts' = Promise!Firsts /\ \A t : Promise!Listed(t)' <=> Promise!Listed(t)
BY DEF db, Promise!Firsts, Promise!Deferred, Promise!Listed

(* A batch that does not change stays one while the tables do not change.  *)
LEMMA SameBatch ==
    ASSUME NEW q \in Procs, UNCHANGED db, batch'[q] = batch[q],
           \E rows \in Promise!Firsts : IsBatch(q, rows)
    PROVE  \E rows \in Promise!Firsts' : IsBatch(q, rows)'
<1>1. PICK rows \in Promise!Firsts : IsBatch(q, rows)
  OBVIOUS
<1>2. rows \in Promise!Firsts'
  BY <1>1, SameFirsts
<1>3. \A t \in Texts : (\E i \in DOMAIN batch'[q] : batch'[q][i] = t)
                        <=> t \in rows /\ Promise!Listed(t)'
  BY <1>1, SameFirsts DEF IsBatch, Asked
<1> QED
  BY <1>2, <1>3 DEF IsBatch, Asked

(* The invariant of all from that of the one that moves.                   *)
LEMMA OthersOK ==
    ASSUME QueueInv, NEW p \in Procs, Undisturbed(p), OwnOK(p)
    PROVE  LockOK' /\ HandOK' /\ BatchOK'
<1>1. LockOK'
  <2> SUFFICES ASSUME NEW q \in Procs \ {p}, lock' = q
               PROVE  pc'[q] \in {"probe", "ask"} /\ q \notin stale'
    BY DEF LockOK, OwnOK
  <2> QED
    BY DEF LockOK, QueueInv, Undisturbed
<1>2. HandOK'
  BY DEF HandOK, QueueInv, Undisturbed, OwnOK
<1>3. BatchOK'
  <2> SUFFICES ASSUME NEW q \in Procs \ {p}, pc'[q] \in Transaction, q \notin stale'
               PROVE  \E rows \in Promise!Firsts' : IsBatch(q, rows)'
    BY DEF BatchOK, OwnOK
  <2>1. q \notin stale /\ pc[q] \in Transaction /\ batch'[q] = batch[q] /\ UNCHANGED db
    BY DEF Undisturbed
  <2> QED
    BY <2>1, SameBatch DEF BatchOK, QueueInv
<1> QED
  BY <1>1, <1>2, <1>3

-----------------------------------------------------------------------------
(* Types, action by action.                                                *)
LEMMA StepTypeOK == QueueInv /\ [Next]_llmVars => TypeOK'
<1> SUFFICES ASSUME QueueInv, [Next]_llmVars
             PROVE  TypeOK'
  OBVIOUS
<1> USE DEF TypeOK, db, memory, Goto, Commit, Close
<1>0. TypeOK /\ HandOK /\ Nobody \notin Procs /\ Unknown \in Nat /\ MaxEvents \in Nat
  BY LlmAssumption DEF QueueInv
<1>1. ASSUME Spend PROVE events' \in 0..MaxEvents
  BY <1>0, <1>1 DEF Spend
<1>2. ASSUME NEW p \in Procs, Sight(p) PROVE TypeOK'
  <2>1. PICK a \in Ads, t \in Texts :
            /\ hand' = [hand EXCEPT ![p] = [ad |-> a, text |-> t,
                             spec |-> IF cache[t] # NoRow THEN cache[t] ELSE "vague"]]
            /\ pc' = [pc EXCEPT ![p] = IF cache[t] # NoRow THEN "upsert" ELSE "store"]
    BY <1>2 DEF Sight
  <2>2. (IF cache[t] # NoRow THEN cache[t] ELSE "vague") \in {"vague"} \cup Answers
    BY <1>0
  <2>3. hand' \in [Procs -> Hand \cup {NoRow}]
    BY <1>0, <2>1, <2>2 DEF Hand
  <2>4. pc' \in [Procs -> {"idle"} \cup Statements \cup Transaction]
    BY <1>0, <2>1 DEF Statements
  <2> QED
    BY <1>0, <1>1, <1>2, <2>3, <2>4 DEF Sight
<1>3. ASSUME NEW p \in Procs, Touch(p) PROVE TypeOK'
  BY <1>0, <1>1, <1>3 DEF Touch
<1>4. ASSUME NEW p \in Procs, Open(p) PROVE TypeOK'
  <2>1. events' \in 0..MaxEvents
    BY <1>0, <1>1, <1>4 DEF Open
  <2>2. PICK rows \in Promise!Firsts :
            \E order \in Ordered({t \in rows : Promise!Listed(t)}) :
                batch' = [batch EXCEPT ![p] = order]
    BY <1>4 DEF Open
  <2>3. batch' \in [Procs -> Seq(Texts)]
    BY <1>0, <2>2, OrderedIsSeq
  <2> QED
    BY <1>0, <1>4, <2>1, <2>3 DEF Open, Transaction
<1>5. ASSUME NEW p \in Procs, Store(p) PROVE TypeOK'
  <2>1. hand[p].text \in Texts
    BY <1>0, <1>5 DEF Store, HandOK, Hand, Statements
  <2> QED
    BY <1>0, <1>5, <2>1 DEF Store, Statements
<1>6. ASSUME NEW p \in Procs, Upsert(p) PROVE TypeOK'
  <2>1. hand[p].text \in Texts /\ hand[p].ad \in Ads
    BY <1>0, <1>6 DEF Upsert, HandOK, Hand, Statements
  <2>2. listings' \in [Ads -> Texts \cup {NoRow}]
    BY <1>0, <1>6, <2>1 DEF Upsert
  <2>3. hand' \in [Procs -> Hand \cup {NoRow}]
    BY <1>0, <1>6 DEF Upsert
  <2> QED
    BY <1>0, <1>6, <2>2, <2>3 DEF Upsert, Statements
<1>7. ASSUME NEW p \in Procs, Enqueue(p) PROVE TypeOK'
  <2>1. hand[p].text \in Texts
    BY <1>0, <1>7 DEF Enqueue, HandOK, Hand, Statements
  <2>2. queue' \in [Texts -> 0..Unknown \cup {NoRow}]
    BY <1>0, <1>7, <2>1 DEF Enqueue
  <2>3. lock' \in Procs \cup {Nobody} /\ stale' \subseteq Procs /\ lost' \subseteq Texts
    BY <1>0, <1>7 DEF Enqueue
  <2> QED
    BY <1>0, <1>7, <2>2, <2>3 DEF Enqueue
<1>8. ASSUME NEW p \in Procs, Refresh(p) PROVE TypeOK'
  BY <1>0, <1>8 DEF Refresh, Transaction
<1>9. ASSUME NEW p \in Procs, Free(p) PROVE TypeOK'
  <2>1. lock' \in Procs \cup {Nobody} /\ stale' \subseteq Procs
    BY <1>0, <1>9 DEF Free
  <2>2. CASE batch[p] # << >>
    BY <1>0, <1>9, <2>1, <2>2 DEF Free, Transaction
  <2>3. CASE batch[p] = << >>
    <3>1. Rest(p) /\ UNCHANGED db
      BY <1>9, <2>3 DEF Free
    <3> QED
      BY <1>0, <2>1, <3>1 DEF Rest
  <2> QED
    BY <2>2, <2>3
<1>10. ASSUME NEW p \in Procs, Unavailable(p) PROVE TypeOK'
  <2>1. lock' \in Procs \cup {Nobody} /\ stale' \subseteq Procs
    BY <1>0, <1>10 DEF Unavailable
  <2> QED
    BY <1>0, <1>10, <2>1 DEF Unavailable, Rest
<1>11. ASSUME NEW p \in Procs, NEW i \in 1..BatchSize, Reply(p, i) PROVE TypeOK'
  BY <1>0, <1>11 DEF Reply
<1>12. ASSUME NEW p \in Procs, Save(p) PROVE TypeOK'
  <2>1. ASSUME NEW t \in Texts, Asked(p, t)
        PROVE  answers[p][Place(p, t)] \in Answers
    <3>1. Place(p, t) \in 1..Len(answers[p])
      BY <1>0, <1>12, <2>1, PlaceInBatch DEF Save
    <3> QED
      BY <1>0, <3>1
  <2>2. cache' \in [Texts -> {NoRow, "vague"} \cup Answers]
    BY <1>0, <1>12, <2>1 DEF Save
  <2>3. queue' \in [Texts -> 0..Unknown \cup {NoRow}]
    BY <1>0, <1>12 DEF Save
  <2> QED
    BY <1>0, <1>12, <2>2, <2>3 DEF Save, Rest
<1>13. ASSUME NEW p \in Procs, pc[p] \in Statements \cup Transaction, Die(p),
              events' \in 0..MaxEvents
       PROVE  TypeOK'
  <2>1. lost' \subseteq Texts
    BY <1>0, <1>13 DEF Die, HandOK, Hand, Statements
  <2>2. lock' \in Procs \cup {Nobody} /\ stale' \subseteq Procs
    BY <1>0, <1>13 DEF Die
  <2> QED
    BY <1>0, <1>13, <2>1, <2>2 DEF Die
<1>14. ASSUME NEW p \in Procs, Locked(p) \/ Fault(p) PROVE TypeOK'
  BY <1>0, <1>1, <1>13, <1>14 DEF Locked, Fault
<1>15. CASE UNCHANGED llmVars
  BY <1>0, <1>15 DEF llmVars
<1> QED
  BY <1>2, <1>3, <1>4, <1>5, <1>6, <1>7, <1>8, <1>9, <1>10, <1>11, <1>12, <1>14, <1>15
     DEF Next, Work

-----------------------------------------------------------------------------
(* What a batch is for a process that has just read it.                    *)
LEMMA OpenBatch ==
    ASSUME QueueInv, NEW p \in Procs, Open(p)
    PROVE  \E rows \in Promise!Firsts' : IsBatch(p, rows)'
<1>1. PICK rows \in Promise!Firsts :
          \E order \in Ordered({t \in rows : Promise!Listed(t)}) :
              batch' = [batch EXCEPT ![p] = order]
  BY DEF Open
<1>2. PICK order \in Ordered({t \in rows : Promise!Listed(t)}) :
          batch' = [batch EXCEPT ![p] = order]
  BY <1>1
<1>3. batch'[p] = order
  BY <1>2 DEF QueueInv, TypeOK
<1>4. UNCHANGED db
  BY DEF Open
<1>5. \A t \in Texts : (\E i \in DOMAIN batch'[p] : batch'[p][i] = t)
                        <=> t \in rows /\ Promise!Listed(t)'
  BY <1>3, <1>4, OrderedIsBatch, SameFirsts
<1>6. rows \in Promise!Firsts'
  BY <1>4, SameFirsts
<1> QED
  BY <1>5, <1>6 DEF IsBatch, Asked

(* A process that goes on in its transaction keeps its batch.              *)
LEMMA GoOn ==
    ASSUME QueueInv, NEW p \in Procs, pc[p] \in Transaction, UNCHANGED << db, stale, batch >>
    PROVE  p \notin stale' => \E rows \in Promise!Firsts' : IsBatch(p, rows)'
BY SameBatch DEF QueueInv, BatchOK

(* A process touches its own part of the state only, and what it commits   *)
(* makes the others stale.                                                 *)
Act(p) == Sight(p) \/ Touch(p) \/ Open(p) \/ Work(p) \/ Fault(p)

LEMMA ActUndisturbed ==
    ASSUME QueueInv, NEW p \in Procs, Act(p)
    PROVE  Undisturbed(p) /\ OwnOK(p)
<1> USE DEF TypeOK, db, memory, Goto
<1>0. TypeOK /\ HandOK /\ LockOK /\ Nobody \notin Procs
  BY LlmAssumption DEF QueueInv
<1>1. ASSUME Commit(p), lock \in {p, Nobody},
             \A q \in Procs \ {p} : /\ pc'[q] = pc[q] /\ hand'[q] = hand[q]
                                     /\ batch'[q] = batch[q]
      PROVE  Undisturbed(p)
  BY <1>0, <1>1 DEF Undisturbed, Commit
<1>2. ASSUME Sight(p) PROVE Undisturbed(p) /\ OwnOK(p)
  <2>1. PICK a \in Ads, t \in Texts :
            /\ hand' = [hand EXCEPT ![p] = [ad |-> a, text |-> t,
                             spec |-> IF cache[t] # NoRow THEN cache[t] ELSE "vague"]]
            /\ pc' = [pc EXCEPT ![p] = IF cache[t] # NoRow THEN "upsert" ELSE "store"]
    BY <1>2 DEF Sight
  <2>2. (IF cache[t] # NoRow THEN cache[t] ELSE "vague") \in {"vague"} \cup Answers
    BY <1>0
  <2>3. hand'[p] \in Hand
    BY <1>0, <2>1, <2>2 DEF Hand
  <2>4. pc'[p] \in {"upsert", "store"} /\ (pc'[p] = "store" => hand'[p].spec = "vague")
    BY <1>0, <2>1
  <2>5. Undisturbed(p)
    BY <1>0, <1>2, <2>1 DEF Sight, Undisturbed
  <2>6. lock' # p
    BY <1>0, <1>2 DEF Sight, LockOK
  <2> QED
    BY <2>3, <2>4, <2>5, <2>6 DEF OwnOK, Transaction
<1>3. ASSUME Touch(p) PROVE Undisturbed(p) /\ OwnOK(p)
  <2>1. Undisturbed(p)
    BY <1>1, <1>3 DEF Touch
  <2> QED
    BY <1>0, <1>3, <2>1 DEF Touch, OwnOK, Commit, Statements, Transaction
<1>4. ASSUME Open(p) PROVE Undisturbed(p) /\ OwnOK(p)
  <2>1. Undisturbed(p)
    BY <1>0, <1>4 DEF Open, Undisturbed
  <2>2. lock' # p
    BY <1>0, <1>4 DEF Open, LockOK
  <2>3. pc'[p] = "watch"
    BY <1>0, <1>4 DEF Open
  <2> QED
    BY <1>4, <2>1, <2>2, <2>3, OpenBatch DEF OwnOK, Statements
<1>5. ASSUME Store(p) PROVE Undisturbed(p) /\ OwnOK(p)
  <2>1. lock \in {p, Nobody} /\ Commit(p)
    BY <1>5 DEF Store, CanWrite
  <2>2. Undisturbed(p)
    BY <1>0, <1>1, <1>5, <2>1 DEF Store
  <2>3. hand'[p] \in Hand /\ pc'[p] = "upsert"
    BY <1>0, <1>5 DEF Store, HandOK, Statements
  <2> QED
    BY <1>0, <2>1, <2>2, <2>3 DEF OwnOK, Commit, Transaction
<1>6. ASSUME Upsert(p) PROVE Undisturbed(p) /\ OwnOK(p)
  <2>1. lock \in {p, Nobody} /\ Commit(p)
    BY <1>6 DEF Upsert, CanWrite
  <2>2. Undisturbed(p)
    BY <1>0, <1>1, <1>6, <2>1 DEF Upsert
  <2>3. pc'[p] = "idle" \/ (pc'[p] = "enqueue" /\ hand'[p] \in Hand)
    BY <1>0, <1>6 DEF Upsert, HandOK, Statements
  <2> QED
    BY <1>0, <2>1, <2>2, <2>3 DEF OwnOK, Commit, Transaction, Statements
<1>7. ASSUME Enqueue(p) PROVE Undisturbed(p) /\ OwnOK(p)
  <2>1. lock \in {p, Nobody} /\ lock # p
    BY <1>0, <1>7 DEF Enqueue, CanWrite, LockOK
  <2>2. Commit(p) \/ UNCHANGED << queue, lock, stale >>
    BY <1>7 DEF Enqueue
  <2>3. Undisturbed(p)
    <3>1. CASE Commit(p)
      BY <1>0, <1>1, <1>7, <2>1, <3>1 DEF Enqueue
    <3>2. CASE UNCHANGED << queue, lock, stale >>
      BY <1>0, <1>7, <3>2 DEF Enqueue, Undisturbed
    <3> QED
      BY <2>2, <3>1, <3>2
  <2>4. pc'[p] = "idle" /\ lock' # p
    BY <1>0, <1>7, <2>1, <2>2 DEF Enqueue, Commit
  <2> QED
    BY <2>3, <2>4 DEF OwnOK, Transaction, Statements
<1>8. ASSUME Refresh(p) PROVE Undisturbed(p) /\ OwnOK(p)
  <2>1. Undisturbed(p)
    BY <1>0, <1>8 DEF Refresh, Undisturbed
  <2>2. pc'[p] = "probe" /\ (lock' = p => p \notin stale')
    BY <1>0, <1>8 DEF Refresh, CanWrite, LockOK
  <2>3. p \notin stale' => \E rows \in Promise!Firsts' : IsBatch(p, rows)'
    BY <1>8, GoOn DEF Refresh, Transaction
  <2> QED
    BY <2>1, <2>2, <2>3 DEF OwnOK, Statements
<1>9. ASSUME Free(p) PROVE Undisturbed(p) /\ OwnOK(p)
  <2>1. CASE batch[p] # << >>
    <3>1. Undisturbed(p)
      BY <1>0, <1>9, <2>1 DEF Free, Undisturbed
    <3>2. pc'[p] = "ask" /\ (lock' = p => p \notin stale')
      BY <1>0, <1>9, <2>1 DEF Free, LockOK
    <3>3. p \notin stale' => \E rows \in Promise!Firsts' : IsBatch(p, rows)'
      BY <1>9, <2>1, GoOn DEF Free, Transaction
    <3> QED
      BY <3>1, <3>2, <3>3 DEF OwnOK, Statements
  <2>2. CASE batch[p] = << >>
    <3>1. pc'[p] = "idle" /\ UNCHANGED db
      BY <1>0, <1>9, <2>2 DEF Free, Rest
    <3>2. lock' # p
      BY <1>0, <1>9, <2>2 DEF Free, Commit, Close
    <3>3. Undisturbed(p)
      <4>1. CASE lock = p
        BY <1>0, <1>1, <1>9, <2>2, <4>1 DEF Free, Rest
      <4>2. CASE lock # p
        BY <1>0, <1>9, <2>2, <4>2 DEF Free, Rest, Close, Undisturbed
      <4> QED
        BY <4>1, <4>2
    <3> QED
      BY <3>1, <3>2, <3>3 DEF OwnOK, Statements, Transaction
  <2> QED
    BY <2>1, <2>2
<1>10. ASSUME Unavailable(p) PROVE Undisturbed(p) /\ OwnOK(p)
  <2>1. lock \in {p, Nobody} /\ pc'[p] = "idle" /\ UNCHANGED db
    BY <1>0, <1>10 DEF Unavailable, CanWrite, Rest
  <2>2. Commit(p) \/ (Close(p) /\ lock # p)
    BY <1>10 DEF Unavailable
  <2>3. lock' # p
    BY <1>0, <2>2 DEF Commit, Close
  <2>4. Undisturbed(p)
    <3>1. CASE Commit(p)
      BY <1>0, <1>1, <1>10, <2>1, <3>1 DEF Unavailable, Rest
    <3>2. CASE Close(p)
      BY <1>0, <1>10, <2>1, <3>2 DEF Unavailable, Rest, Close, Undisturbed
    <3> QED
      BY <2>2, <3>1, <3>2
  <2> QED
    BY <2>1, <2>3, <2>4 DEF OwnOK, Statements, Transaction
<1>11. ASSUME NEW i \in 1..BatchSize, Reply(p, i)
       PROVE  Undisturbed(p) /\ OwnOK(p)
  <2>1. Undisturbed(p)
    BY <1>0, <1>11 DEF Reply, Undisturbed
  <2>2. pc'[p] = "ask" /\ (lock' = p => p \notin stale')
    BY <1>0, <1>11 DEF Reply, LockOK
  <2>3. p \notin stale' => \E rows \in Promise!Firsts' : IsBatch(p, rows)'
    BY <1>11, GoOn DEF Reply, Transaction
  <2> QED
    BY <2>1, <2>2, <2>3 DEF OwnOK, Statements
<1>12. ASSUME Save(p) PROVE Undisturbed(p) /\ OwnOK(p)
  <2>1. lock \in {p, Nobody} /\ Commit(p) /\ pc'[p] = "idle"
    BY <1>0, <1>12 DEF Save, CanWrite, Rest
  <2>2. Undisturbed(p)
    BY <1>0, <1>1, <1>12, <2>1 DEF Save, Rest
  <2> QED
    BY <1>0, <2>1, <2>2 DEF OwnOK, Commit, Statements, Transaction
<1>13. ASSUME Locked(p) \/ Fault(p) PROVE Undisturbed(p) /\ OwnOK(p)
  <2>1. Die(p)
    BY <1>13 DEF Locked, Fault
  <2>2. pc'[p] = "idle" /\ lock' # p
    BY <1>0, <2>1 DEF Die
  <2>3. Undisturbed(p)
    BY <1>0, <2>1 DEF Die, Undisturbed
  <2> QED
    BY <2>2, <2>3 DEF OwnOK, Statements, Transaction
<1> QED
  BY <1>2, <1>3, <1>4, <1>5, <1>6, <1>7, <1>8, <1>9, <1>10, <1>11, <1>12, <1>13
     DEF Act, Work

(* The invariant is kept by every step of every process.                   *)
LEMMA StepQueueInv == QueueInv /\ [Next]_llmVars => QueueInv'
<1>1. CASE UNCHANGED llmVars
  BY <1>1, StepTypeOK, SameFirsts
     DEF QueueInv, LockOK, HandOK, BatchOK, IsBatch, Asked, llmVars, db, memory
<1>2. ASSUME QueueInv, [Next]_llmVars, ~UNCHANGED llmVars PROVE QueueInv'
  BY <1>2, StepTypeOK, ActUndisturbed, OthersOK DEF QueueInv, Next, Act
<1> QED
  BY <1>1, <1>2

(* Types, the lock, and batches that are still what a query would return,  *)
(* in every reachable state.                                               *)
THEOREM QueueInvHolds == Spec => []QueueInv
BY InitQueueInv, StepQueueInv, PTL DEF Spec

(* Every variable of LlmQueue keeps its type: TypeOK.                      *)
THEOREM LlmTypeOK == Spec => []TypeOK
BY QueueInvHolds, PTL DEF QueueInv

-----------------------------------------------------------------------------
(* A drain that commits answers, of the entries a query would return now,  *)
(* those that are listed.                                                  *)
LEMMA SaveIsAnswer ==
    ASSUME QueueInv, NEW p \in Procs, Save(p)
    PROVE  \E rows \in Promise!Firsts, said \in [Texts -> Answers] : Promise!Answer(rows, said)
<1>1. p \notin stale /\ pc[p] = "ask"
  BY DEF Save, CanWrite, QueueInv, LockOK
<1>2. PICK rows \in Promise!Firsts : IsBatch(p, rows)
  BY <1>1 DEF QueueInv, BatchOK, Transaction
<1> DEFINE said == [t \in Texts |-> IF Asked(p, t) THEN answers[p][Place(p, t)] ELSE "settled"]
<1>3. ASSUME NEW t \in Texts, Asked(p, t)
      PROVE  answers[p][Place(p, t)] \in Answers
  <2>1. Place(p, t) \in 1..Len(answers[p])
    BY <1>3, PlaceInBatch DEF Save, QueueInv, TypeOK
  <2> QED
    BY <2>1 DEF QueueInv, TypeOK
<1>4. said \in [Texts -> Answers]
  BY <1>3 DEF Answers, Promise!Answers
<1>5. cache' = [t \in Texts |-> IF t \in rows /\ Promise!Listed(t) THEN said[t] ELSE cache[t]]
  BY <1>2 DEF Save, IsBatch
<1>6. queue' = [t \in Texts |-> IF t \in rows /\ Promise!Listed(t) THEN NoRow ELSE queue[t]]
  BY <1>2 DEF Save, IsBatch
<1>7. Promise!Answer(rows, said)
  BY <1>5, <1>6 DEF Promise!Answer, Save
<1> QED
  BY <1>4, <1>7

(* Every step on the tables is one the promise allows.                     *)
LEMMA StepRefines == QueueInv /\ [Next]_llmVars => [Promise!Next]_db
<1> SUFFICES ASSUME QueueInv, Next, ~UNCHANGED db
             PROVE  Promise!Next
  BY DEF llmVars, db
<1>0. TypeOK /\ HandOK
  BY DEF QueueInv
<1>1. ASSUME NEW p \in Procs, Store(p) PROVE Promise!Next
  <2>1. hand[p].text \in Texts
    BY <1>0, <1>1 DEF Store, HandOK, Hand, Statements
  <2> QED
    BY <1>1, <2>1 DEF Store, Promise!Next, Promise!Judge
<1>2. ASSUME NEW p \in Procs, Upsert(p) PROVE Promise!Next
  <2>1. hand[p].text \in Texts /\ hand[p].ad \in Ads
    BY <1>0, <1>2 DEF Upsert, HandOK, Hand, Statements
  <2> QED
    BY <1>2, <2>1 DEF Upsert, Promise!Next, Promise!List
<1>3. ASSUME NEW p \in Procs, Enqueue(p) PROVE Promise!Next
  <2>1. hand[p].text \in Texts
    BY <1>0, <1>3 DEF Enqueue, HandOK, Hand, Statements
  <2>2. PICK case \in 0..Unknown : Promise!Ask(hand[p].text, case)
    BY <1>3 DEF Enqueue, Promise!Ask, db
  <2> QED
    BY <2>1, <2>2 DEF Promise!Next
<1>4. ASSUME NEW p \in Procs, Save(p) PROVE Promise!Next
  BY <1>4, SaveIsAnswer DEF Promise!Next, Answers
<1>5. ASSUME NEW p \in Procs,
             \/ Sight(p) \/ Touch(p) \/ Open(p) \/ Refresh(p) \/ Free(p) \/ Unavailable(p)
             \/ Locked(p) \/ Fault(p) \/ \E i \in 1..BatchSize : Reply(p, i)
      PROVE  UNCHANGED db
  BY <1>5 DEF Sight, Touch, Open, Refresh, Free, Unavailable, Locked, Fault, Reply, Die, db
<1> QED
  BY <1>1, <1>2, <1>3, <1>4, <1>5 DEF Next, Work

(* The drain is as if done at once, for any processes: DrainIsAtomic, the  *)
(* refinement of Questions.                                                *)
THEOREM LlmDrainIsAtomic == Spec => DrainIsAtomic
<1>1. Init => Promise!Init
  BY DEF Init
<1>2. [Promise!Next]_db <=> [Promise!Next]_(Promise!db)
  BY DEF db, Promise!db
<1> QED
  BY <1>1, <1>2, StepRefines, QueueInvHolds, PTL DEF Spec, DrainIsAtomic, Promise!Spec

-----------------------------------------------------------------------------
(* Where an ambiguous text may be.                                         *)
InHand(q, t) ==
    pc[q] \in {"upsert", "enqueue"} /\ hand[q].text = t /\ hand[q].spec = "vague"

Kept(t) == queue[t] # NoRow \/ t \in lost \/ \E q \in Procs : InHand(q, t)

(* A drain stores the answers of what it takes out of the queue.           *)
LEMMA SaveAnswers ==
    ASSUME QueueInv, NEW p \in Procs, Save(p), NEW t \in Texts, cache'[t] = "vague"
    PROVE  cache[t] = "vague" /\ queue'[t] = queue[t]
<1>1. ASSUME Asked(p, t) PROVE cache'[t] \in Answers
  <2>1. Place(p, t) \in 1..Len(answers[p])
    BY <1>1, PlaceInBatch DEF Save, QueueInv, TypeOK
  <2>2. answers[p][Place(p, t)] \in Answers
    BY <2>1 DEF QueueInv, TypeOK
  <2> QED
    BY <1>1, <2>2 DEF Save
<1>2. ~Asked(p, t)
  BY <1>1 DEF Answers, Promise!Answers
<1> QED
  BY <1>2 DEF Save

(* What is in the hands of those that do not move stays there.             *)
LEMMA OthersKeep ==
    ASSUME NEW p \in Procs, Undisturbed(p), NEW t, NEW q \in Procs \ {p}, InHand(q, t)
    PROVE  InHand(q, t)'
BY DEF Undisturbed, InHand

(* An ambiguous text is kept by every step that it does not enter by.      *)
LEMMA StepKept ==
    ASSUME QueueInv, NEW p \in Procs, Act(p), NEW t \in Texts, Kept(t), cache'[t] = "vague"
    PROVE  Kept(t)'
<1> USE DEF Goto
<1>0. TypeOK /\ HandOK /\ NoRow \notin 0..Unknown
  BY LlmAssumption DEF QueueInv
<1>1. Undisturbed(p)
  BY ActUndisturbed
<1>2. ASSUME InHand(p, t) => InHand(p, t)',
             queue[t] # NoRow => queue'[t] # NoRow, t \in lost => t \in lost'
      PROVE  Kept(t)'
  <2>1. ASSUME NEW q \in Procs, InHand(q, t) PROVE InHand(q, t)'
    BY <1>1, <1>2, <2>1, OthersKeep
  <2> QED
    BY <1>2, <2>1 DEF Kept
<1>3. ASSUME Store(p) PROVE Kept(t)'
  BY <1>2, <1>3 DEF Store, InHand, memory
<1>4. ASSUME Upsert(p) PROVE Kept(t)'
  BY <1>0, <1>2, <1>4 DEF Upsert, InHand, TypeOK
<1>5. ASSUME Enqueue(p) PROVE Kept(t)'
  <2>1. hand[p].text \in Texts
    BY <1>0, <1>5 DEF Enqueue, HandOK, Hand, Statements
  <2>2. queue'[hand[p].text] # NoRow /\ (queue[t] # NoRow => queue'[t] # NoRow)
    BY <1>0, <1>5, <2>1 DEF Enqueue, TypeOK
  <2>3. CASE hand[p].text = t
    BY <2>2, <2>3 DEF Kept
  <2>4. CASE hand[p].text # t
    BY <1>2, <1>5, <2>2, <2>4 DEF Enqueue, InHand
  <2> QED
    BY <2>3, <2>4
<1>6. ASSUME Save(p) PROVE Kept(t)'
  BY <1>2, <1>6, SaveAnswers DEF Save, Rest, InHand
<1>7. ASSUME Locked(p) \/ Fault(p) PROVE Kept(t)'
  <2>1. Die(p)
    BY <1>7 DEF Locked, Fault
  <2>2. CASE InHand(p, t)
    BY <2>1, <2>2 DEF Die, InHand, Kept
  <2>3. CASE ~InHand(p, t)
    BY <1>2, <1>7, <2>1, <2>3 DEF Die, db
  <2> QED
    BY <2>2, <2>3
<1>8. ASSUME Sight(p) \/ Open(p) PROVE Kept(t)'
  BY <1>2, <1>8 DEF Sight, Open, InHand, db
<1>9. ASSUME \/ Touch(p) \/ Refresh(p) \/ Free(p) \/ Unavailable(p)
             \/ \E i \in 1..BatchSize : Reply(p, i)
      PROVE  Kept(t)'
  <2>1. UNCHANGED << db, hand, lost >>
    BY <1>9 DEF Touch, Refresh, Free, Unavailable, Reply, Rest, memory
  <2>2. ~InHand(p, t) \/ UNCHANGED pc
    BY <1>9 DEF Touch, Refresh, Free, Unavailable, Reply, InHand
  <2> QED
    BY <1>2, <1>9, <2>1, <2>2 DEF InHand, db
<1> QED
  BY <1>3, <1>4, <1>5, <1>6, <1>7, <1>8, <1>9 DEF Act, Work

(* A text is ambiguous by the word of the rules, then in hand, or was.     *)
LEMMA StepAskedOrLost == QueueInv /\ AskedOrLost /\ [Next]_llmVars => AskedOrLost'
<1> SUFFICES ASSUME QueueInv, AskedOrLost, [Next]_llmVars, NEW t \in Texts, cache'[t] = "vague"
             PROVE  Kept(t)'
  BY DEF AskedOrLost, Kept, InHand
<1>1. cache[t] = "vague" => Kept(t)
  BY DEF AskedOrLost, Kept, InHand
<1>2. CASE UNCHANGED llmVars
  BY <1>1, <1>2 DEF Kept, InHand, llmVars, db, memory
<1>3. ASSUME NEW p \in Procs, Act(p) PROVE Kept(t)'
  <2>1. CASE cache[t] = "vague"
    BY <1>1, <1>3, <2>1, StepKept
  <2>2. CASE cache[t] # "vague"
    <3>1. Store(p) /\ hand[p].text = t
      BY <1>3, <2>2, SaveAnswers
         DEF Act, Work, Sight, Store, Upsert, Enqueue, Touch, Open, Refresh, Free, Reply,
             Unavailable, Locked, Fault, Die, db, QueueInv, TypeOK
    <3>2. hand[p].spec = "vague" /\ hand' = hand
      BY <3>1 DEF Store, Statements, HandOK, QueueInv, memory
    <3>3. pc'[p] = "upsert"
      BY <3>1 DEF Store, Goto, QueueInv, TypeOK
    <3> QED
      BY <3>1, <3>2, <3>3 DEF Kept, InHand
  <2> QED
    BY <2>1, <2>2
<1> QED
  BY <1>2, <1>3 DEF Next, Act

(* No ambiguous text is lost but by a death before it is enqueued, however *)
(* many processes there are: AskedOrLost.                                  *)
THEOREM LlmAskedOrLost == Spec => []AskedOrLost
<1>1. Init => AskedOrLost
  BY LlmAssumption DEF Init, Promise!Init, AskedOrLost
<1> QED
  BY <1>1, StepAskedOrLost, QueueInvHolds, PTL DEF Spec
=============================================================================
