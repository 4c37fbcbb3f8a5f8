--------------------------- MODULE SupervisorProofs ---------------------------
(***************************************************************************)
(* Proofs about Supervisor, for any sources, schedules, backoffs and ways  *)
(* to fail.                                                                *)
(*                                                                         *)
(* Breaker and table agree because a source is only fetched while its      *)
(* breaker is closed, and a fetch that opens it leaves a row to write that *)
(* says it returned nothing (HandOK).                                      *)
(***************************************************************************)
EXTENDS Supervisor, TLAPS

(* Only the source that is being fetched, or whose row is to be written,   *)
(* is owed one; a breaker that is open then means that nothing came.       *)
HandOK ==
    /\ owed \subseteq IF pc \in {"fetch", "row"} THEN {Here} ELSE {}
    /\ pc = "row" /\ openIn[Here] > 0 => raw = 0

SupInv == TypeOK /\ HandOK /\ BreakerHasItsRow

LEMMA OrderFacts ==
  /\ Len(Order) \in Nat \ {0} /\ DOMAIN Order = 1..Len(Order)
  /\ \A i \in DOMAIN Order : Order[i] \in Sources
<1>1. Order \in Seq(Sources) /\ Order # << >>
  BY SupervisorAssumption
<1>2. QED
  BY <1>1 DEF Sources

LEMMA BoundFacts ==
  /\ PostInterval \in Nat /\ EmptyCycles \in Nat \ {0} /\ MinPrior \in Nat
  /\ MaxElapsed \in Nat /\ MaxKills \in Nat /\ Len(Backoff) \in Nat
  /\ BackoffJitter \subseteq Nat
BY SupervisorAssumption

(* The next source of the pass, or its end.                                *)
LEMMA AdvanceType ==
  ASSUME TypeOK, Advance
  PROVE  at' \in DOMAIN Order /\ pc' \in {"scan", "post", "sleep"}
BY OrderFacts DEF TypeOK, Advance

(* The last rows of a source with one more, of which the first may go.     *)
LEMMA RowAdded ==
  ASSUME NEW rows \in Seq({0, 1}), NEW n \in {0, 1}
  PROVE  LET more == Append(rows, n)
             kept == IF Len(more) > EmptyCycles THEN Tail(more) ELSE more
         IN  kept \in Seq({0, 1}) /\ kept # << >> /\ kept[Len(kept)] = n
<1> DEFINE more == Append(rows, n)
<1>1. more \in Seq({0, 1}) /\ Len(more) = Len(rows) + 1 /\ more[Len(more)] = n
  OBVIOUS
<1>2. Len(rows) \in Nat /\ EmptyCycles \in Nat \ {0}
  BY SupervisorAssumption
<1> HIDE DEF more
<1>3. CASE Len(more) > EmptyCycles
  <2>1. Len(more) > 1
    BY <1>1, <1>2, <1>3
  <2>2. /\ Tail(more) \in Seq({0, 1}) /\ Len(Tail(more)) = Len(more) - 1
        /\ Tail(more)[Len(more) - 1] = more[Len(more)]
    BY <1>1, <2>1
  <2>3. Tail(more) # << >>
    <3>1. Len(Tail(more)) # 0
      BY <1>1, <1>2, <2>1, <2>2
    <3>2. Len(<< >>) = 0
      OBVIOUS
    <3>3. QED
      BY <3>1, <3>2, Zenon
  <2>4. QED
    BY <1>1, <1>3, <2>2, <2>3 DEF more
<1>4. CASE ~(Len(more) > EmptyCycles)
  BY <1>1, <1>2, <1>4 DEF more
<1>5. QED
  BY <1>3, <1>4

LEMMA InitSupInv == Init => SupInv
BY BoundFacts, OrderFacts DEF Init, SupInv, TypeOK, HandOK, BreakerHasItsRow

(* A row is written: it is the one the breaker's word rests on.            *)
LEMMA StepWriteRow ==
  ASSUME SupInv, WriteRow
  PROVE  SupInv'
<1> DEFINE more == Append(recent[Here], raw)
           kept == IF Len(more) > EmptyCycles THEN Tail(more) ELSE more
<1>1. Here \in Sources /\ recent[Here] \in Seq({0, 1}) /\ raw \in {0, 1}
  BY OrderFacts DEF SupInv, TypeOK, Here
<1>2. kept \in Seq({0, 1}) /\ kept # << >> /\ kept[Len(kept)] = raw
  BY <1>1, RowAdded
<1>3. recent' = [recent EXCEPT ![Here] = kept]
  BY DEF WriteRow
<1> HIDE DEF kept, more
<1>4. recent' \in [Sources -> Seq({0, 1})] /\ recent'[Here] = kept
      /\ \A s \in Sources \ {Here} : recent'[s] = recent[s]
  BY <1>1, <1>2, <1>3 DEF SupInv, TypeOK
<1>5. prior' \in [Sources -> 0..MinPrior]
  <2>1. (IF prior[Here] + raw > MinPrior THEN prior[Here] ELSE prior[Here] + raw) \in 0..MinPrior
    <3>1. prior[Here] \in 0..MinPrior
      BY <1>1 DEF SupInv, TypeOK
    <3>2. QED
      BY <1>1, <3>1, BoundFacts
  <2>2. QED
    BY <2>1 DEF WriteRow, SupInv, TypeOK
<1>6. dueIn' \in [Sources -> Nat]
  BY SupervisorAssumption DEF WriteRow, MarkRan, SupInv, TypeOK
<1>7. at' \in DOMAIN Order /\ pc' \in {"scan", "post", "sleep"}
  BY AdvanceType DEF WriteRow, SupInv
<1>8. owed' = {}
  BY DEF WriteRow, SupInv, HandOK
<1>9. TypeOK'
  BY <1>4, <1>5, <1>6, <1>7, <1>8 DEF WriteRow, SupInv, TypeOK
<1>10. HandOK'
  BY <1>7, <1>8 DEF HandOK
<1>11. BreakerHasItsRow'
  <2> SUFFICES ASSUME NEW s \in Sources, openIn[s] > 0
               PROVE  recent'[s] # << >> /\ ~Productive(s)'
    BY DEF BreakerHasItsRow, WriteRow
  <2>1. CASE s = Here
    <3>1. raw = 0
      BY <2>1 DEF WriteRow, SupInv, HandOK
    <3>2. QED
      BY <1>2, <1>4, <2>1, <3>1 DEF Productive
  <2>2. CASE s # Here
    <3>1. recent'[s] = recent[s]
      BY <1>4, <2>2
    <3>2. recent[s] # << >> /\ ~Productive(s)
      BY <2>2 DEF SupInv, BreakerHasItsRow
    <3>3. QED
      BY <3>1, <3>2 DEF Productive
  <2>3. QED
    BY <2>1, <2>2
<1>12. QED
  BY <1>9, <1>10, <1>11 DEF SupInv

(* A fetch ends: its source's breaker was closed, and opens with raw = 0.  *)
LEMMA StepFetched ==
  ASSUME SupInv, FetchSucceeds \/ FetchFails
  PROVE  SupInv'
<1>1. Here \in Sources
  BY OrderFacts DEF SupInv, TypeOK, Here
<1>2. UNCHANGED << at, elapsed, dueIn, postIn, table, alarms, owed, kills >> /\ pc = "fetch"
      /\ pc' = "row"
  BY DEF FetchSucceeds, FetchFails
<1>3. \A s \in Sources \ {Here} : openIn'[s] = openIn[s]
  BY DEF FetchSucceeds, FetchFails, SupInv, TypeOK
<1>4. /\ raw' \in {0, 1} /\ failures' \in [Sources -> 0..Len(Backoff)]
      /\ openIn' \in [Sources -> Nat] /\ (openIn'[Here] > 0 => raw' = 0)
  <2>1. CASE FetchSucceeds
    <3>1. failures' = [failures EXCEPT ![Here] = 0] /\ openIn' = [openIn EXCEPT ![Here] = 0]
          /\ raw' \in {0, 1}
      BY <2>1 DEF FetchSucceeds
    <3>2. Len(Backoff) \in Nat
      BY SupervisorAssumption
    <3>3. QED
      BY <1>1, <3>1, <3>2 DEF SupInv, TypeOK
  <2>2. CASE FetchFails
    <3> DEFINE n == IF failures[Here] < Len(Backoff) THEN failures[Here] + 1 ELSE Len(Backoff)
    <3>1. raw' = 0
      BY <2>2 DEF FetchFails
    <3>2. n \in 1..Len(Backoff) /\ Backoff[n] \in Nat
      <4>1. Len(Backoff) \in Nat /\ Len(Backoff) > 3 /\ Backoff \in Seq(Nat)
        BY SupervisorAssumption
      <4>2. failures[Here] \in 0..Len(Backoff)
        BY <1>1 DEF SupInv, TypeOK
      <4>3. n \in 1..Len(Backoff)
        BY <4>1, <4>2
      <4> HIDE DEF n
      <4>4. QED
        BY <4>1, <4>3
    <3>3. \/ UNCHANGED << failures, openIn >>
          \/ /\ failures' = [failures EXCEPT ![Here] = n]
             /\ \E j \in BackoffJitter : openIn' = [openIn EXCEPT ![Here] = Backoff[n] + j]
      BY <2>2 DEF FetchFails
    <3> HIDE DEF n
    <3>4. \A j \in BackoffJitter : Backoff[n] + j \in Nat
      BY <3>2, BoundFacts
    <3>5. failures \in [Sources -> 0..Len(Backoff)] /\ openIn \in [Sources -> Nat]
      BY DEF SupInv, TypeOK
    <3>6. failures' \in [Sources -> 0..Len(Backoff)]
      <4>1. n \in 0..Len(Backoff)
        BY <3>2, BoundFacts
      <4>2. QED
        BY <3>3, <3>5, <4>1
    <3>7. openIn' \in [Sources -> Nat]
      BY <3>3, <3>4, <3>5
    <3>8. QED
      BY <3>1, <3>6, <3>7
  <2>3. QED
    BY <2>1, <2>2
<1>5. TypeOK'
  BY <1>2, <1>4 DEF SupInv, TypeOK, table
<1>6. Here' = Here
  BY <1>2 DEF Here
<1>7. HandOK'
  BY <1>2, <1>4, <1>6 DEF SupInv, HandOK
<1>8. BreakerHasItsRow'
  <2> SUFFICES ASSUME NEW s \in Sources, openIn'[s] > 0, s # Here
               PROVE  recent[s] # << >> /\ ~Productive(s)
    BY <1>2, <1>6 DEF BreakerHasItsRow, Productive, table
  <2>1. openIn[s] > 0
    BY <1>3
  <2>2. QED
    BY <1>2, <2>1 DEF SupInv, BreakerHasItsRow
<1>9. QED
  BY <1>5, <1>7, <1>8 DEF SupInv

(* The loop's own steps between two fetches.                               *)
LEMMA StepLoop ==
  ASSUME SupInv, NotDue \/ Skip \/ Attempt \/ PostCycle \/ Wake \/ Tick
  PROVE  SupInv'
<1>1. EmptyCycles \in Nat /\ MinPrior \in Nat /\ MaxElapsed \in Nat /\ PostInterval \in Nat
  BY BoundFacts
<1>2. Here \in Sources
  BY OrderFacts DEF SupInv, TypeOK, Here
<1>3. \A n \in Nat : Minus(n) \in Nat /\ Minus(n) <= n
  BY <1>1 DEF SupInv, TypeOK, Minus
<1>4. CASE NotDue
  <2>1. at' \in DOMAIN Order /\ pc' \in {"scan", "post", "sleep"} /\ owed' = {} /\ pc = "scan"
    BY <1>4, AdvanceType DEF NotDue, SupInv, HandOK
  <2>2. QED
    BY <1>4, <2>1 DEF NotDue, SupInv, TypeOK, HandOK, BreakerHasItsRow, Productive, memory, table
<1>5. CASE Skip
  <2>1. at' \in DOMAIN Order /\ pc' \in {"scan", "post", "sleep"} /\ owed' = {} /\ pc = "scan"
    BY <1>5, AdvanceType DEF Skip, SupInv, HandOK
  <2>2. dueIn' \in [Sources -> Nat]
    BY <1>5, SupervisorAssumption DEF Skip, MarkRan, SupInv, TypeOK
  <2>3. QED
    BY <1>5, <2>1, <2>2 DEF Skip, SupInv, TypeOK, HandOK, BreakerHasItsRow, Productive, table
<1>6. CASE Attempt
  BY <1>2, <1>6 DEF Attempt, SupInv, TypeOK, HandOK, BreakerHasItsRow, Productive, Here,
                    memory, table
<1>7. CASE PostCycle
  <2>1. Anomalies \subseteq Sources
    BY DEF Anomalies
  <2>2. QED
    BY <1>1, <1>7, <2>1 DEF PostCycle, SupInv, TypeOK, HandOK, BreakerHasItsRow, Productive, table
<1>8. CASE Wake
  <2>1. /\ dueIn' \in [Sources -> Nat] /\ openIn' \in [Sources -> Nat]
        /\ \A s \in Sources : openIn'[s] > 0 => openIn[s] > 0
    <3>1. /\ dueIn' = [s \in Sources |-> Minus(dueIn[s])]
          /\ openIn' = [s \in Sources |-> Minus(openIn[s])]
      BY <1>8 DEF Wake
    <3>2. \A s \in Sources : dueIn[s] \in Nat /\ openIn[s] \in Nat
      BY DEF SupInv, TypeOK
    <3>3. QED
      BY <1>3, <3>1, <3>2
  <2>2. postIn' \in 0..PostInterval
    BY <1>1, <1>3, <1>8 DEF Wake, SupInv, TypeOK
  <2>3. pc = "sleep" /\ pc' = "scan" /\ elapsed' = 0 /\ owed' = {}
        /\ UNCHANGED << at, raw, failures, table, alarms, kills >>
    BY <1>8 DEF Wake
  <2>4. QED
    BY <1>1, <2>1, <2>2, <2>3 DEF SupInv, TypeOK, HandOK, BreakerHasItsRow, Productive, table
<1>9. CASE Tick
  <2>1. elapsed' \in 0..MaxElapsed
    BY <1>1, <1>9 DEF Tick, SupInv, TypeOK
  <2>2. QED
    BY <1>9, <2>1 DEF Tick, SupInv, TypeOK, HandOK, BreakerHasItsRow, Productive, Here, memory, table
<1>10. QED
  BY <1>4, <1>5, <1>6, <1>7, <1>8, <1>9

LEMMA StepSupInv == SupInv /\ [Next]_supVars => SupInv'
<1> SUFFICES ASSUME SupInv, [Next]_supVars
             PROVE  SupInv'
  OBVIOUS
<1>1. CASE FetchRaises \/ Kill
  <2>1. Die /\ kills' \in 0..MaxKills
    <3>1. kills \in 0..MaxKills
      BY DEF SupInv, TypeOK
    <3>2. Die /\ (kills' = kills \/ (kills < MaxKills /\ kills' = kills + 1))
      BY <1>1 DEF FetchRaises, Kill
    <3>3. QED
      BY <3>1, <3>2, BoundFacts
  <2>2. /\ 1 \in DOMAIN Order /\ MaxElapsed \in Nat /\ PostInterval \in Nat
        /\ Len(Backoff) \in Nat
    BY OrderFacts, BoundFacts
  <2>3. QED
    BY <2>1, <2>2 DEF Die, Fresh, SupInv, TypeOK, HandOK, BreakerHasItsRow, table
<1>2. CASE Restart \/ UNCHANGED supVars
  BY <1>2 DEF Restart, supVars, SupInv, TypeOK, HandOK, BreakerHasItsRow, Productive, Here,
              memory, table
<1>3. QED
  BY <1>1, <1>2, StepWriteRow, StepFetched, StepLoop DEF Next, Work, Fetched

(* Schedule, breaker, table and the place in the pass stay what the code   *)
(* puts there.                                                             *)
THEOREM SupervisorTypeOK == Spec => []TypeOK
<1>1. SupInv => TypeOK
  BY DEF SupInv
<1>2. QED
  BY <1>1, InitSupInv, StepSupInv, PTL DEF Spec

(* However a fetch ends and whatever dies, when a pass is over every       *)
(* source that was fetched in it has its row.                              *)
THEOREM RunsHaveRows == Spec => []EveryRunHasARow
<1>1. SupInv => EveryRunHasARow
  BY DEF SupInv, HandOK, EveryRunHasARow
<1>2. QED
  BY <1>1, InitSupInv, StepSupInv, PTL DEF Spec

(* A source is held back only after a row that says it returned nothing,   *)
(* whatever was killed and restarted since.                                *)
THEOREM BreakerAgreesWithTable == Spec => []BreakerHasItsRow
<1>1. SupInv => BreakerHasItsRow
  BY DEF SupInv
<1>2. QED
  BY <1>1, InitSupInv, StepSupInv, PTL DEF Spec
=============================================================================
