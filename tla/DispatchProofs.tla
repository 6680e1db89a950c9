--------------------------- MODULE DispatchProofs ---------------------------
(***************************************************************************)
(* The guarantees of Dispatch for any number of events and sinks, any      *)
(* retry configuration and any row limit.                                  *)
(***************************************************************************)
EXTENDS Dispatch, NumberFacts

-----------------------------------------------------------------------------
(* Arithmetic of the retry time.                                           *)

\* A retry is due at least one tick later, unless the clock has saturated.
LEMMA RetryLater ==
  ASSUME NEW t \in 0..MaxTime, NEW n \in Nat
  PROVE  NextRetryAt(t, n) \in 0..MaxTime /\ (t < MaxTime => NextRetryAt(t, n) > t)
<1>1. {BaseDelay, MaxDelay, MaxTime} \subseteq Nat /\ MaxDelay > 0
  BY DispatchAssumption DEF DispatchAssumption
<1> DEFINE m == Max({n - 1, 0})
           k == Min({m, 31})
           b == Max({BaseDelay, 1})
           p == b * 2^k
<1>2. m \in Nat
  BY MaxPair
<1>3. k \in 0..31
  <2> HIDE DEF m
  <2> QED BY <1>2, MinPair
<1>4. 2^k \in Nat \ {0}
  BY <1>3, PowerPositive
<1>5. b \in Nat \ {0}
  BY <1>1, MaxPair
<1> HIDE DEF k, b
<1>6. p \in Nat \ {0}
  <2> DEFINE q == 2^k
  <2>1. q \in Nat /\ q >= 1 /\ b \in Nat /\ b >= 1
    BY <1>4, <1>5
  <2> HIDE DEF q
  <2>2. b * q >= 1 /\ b * q \in Nat
    BY <2>1
  <2> QED BY <2>2 DEF q
<1> HIDE DEF p
<1>7. RetryDelay(n) \in Nat \ {0}
  <2>1. RetryDelay(n) = Min({p, MaxDelay})
    BY DEF RetryDelay, p, b, k
  <2> QED BY <2>1, <1>1, <1>6, MinPair
<1> HIDE DEF RetryDelay
<1> QED BY <1>1, <1>7, MinPair DEF NextRetryAt

-----------------------------------------------------------------------------
(* Types.                                                                  *)

RowType == [state : States, attempts : Nat, next : {Null} \cup 0..MaxTime, updated : 0..MaxTime]

LEMMA StepKinds ==
  ASSUME [Next]_vars
  PROVE  \/ StartDispatch \/ Record \/ NextSink \/ EndDispatch \/ LoseRun \/ Tick
         \/ \E r \in Rows : CloseAlert(r)
         \/ \E r \in Rows, o \in Results, a \in BOOLEAN : Attempt(r, o, a)
         \/ \E e \in Events : Ingest(e)
         \/ \E s \in Sinks : ReleaseBlocked(s)
         \/ UNCHANGED vars
BY DEF Next, RunStep

LEMMA ConstantTypes ==
  /\ RowLimit \in Nat \ {0} /\ MaxTime \in Nat /\ MaxAttempts \in Nat
  /\ Len(SinkOrder) \in Nat /\ DOMAIN SinkOrder = 1..Len(SinkOrder)
  /\ \A i \in DOMAIN SinkOrder : SinkOrder[i] \in Sinks
<1>1. SinkOrder \in Seq(Sinks)
  BY DispatchAssumption DEF DispatchAssumption, Sinks
<1>2. {RowLimit, MaxAttempts, MaxTime} \subseteq Nat /\ RowLimit > 0
  BY DispatchAssumption DEF DispatchAssumption
<1> QED BY <1>1, <1>2

LEMMA RecordedType ==
  ASSUME TypeOK, NEW r \in Rows, NEW o \in Results
  PROVE  /\ Recorded(r, o) \in RowType
         /\ Recorded(r, o).attempts = row[r].attempts + 1
         /\ Recorded(r, o).updated = now
<1>1. row[r].attempts + 1 \in Nat /\ now \in 0..MaxTime
  BY DEF TypeOK
<1>2. NextRetryAt(now, row[r].attempts + 1) \in 0..MaxTime
  BY <1>1, RetryLater
<1> HIDE DEF NextRetryAt
<1> QED BY <1>1, <1>2 DEF Recorded, RowType, States

\* What the result of an attempt makes of the row's state.
LEMMA RecordedState ==
  ASSUME NEW r, NEW o \in Results
  PROVE  /\ Recorded(r, o).state = "acked" <=> o = "ok"
         /\ Recorded(r, o).state = "pending" <=> o = "retryable" /\ CanRetry(row[r].attempts + 1)
         /\ Recorded(r, o).state = "pending" => Recorded(r, o).next = NextRetryAt(now, row[r].attempts + 1)
         /\ Recorded(r, o).state \in {"acked", "pending", "blocked", "dead"}
BY DEF Recorded, Results

LEMMA NoRowType == NoRow \in RowType /\ [NoRow EXCEPT !.state = "pending"] \in RowType
BY ConstantTypes DEF NoRow, RowType, States, Null

LEMMA TypeStep ==
  ASSUME TypeOK, [Next]_vars
  PROVE  TypeOK'
<1> USE ConstantTypes
<1>0. row \in [Rows -> RowType] /\ clock \in 0..MaxTime
  BY DEF TypeOK, RowType
<1>1. CASE StartDispatch
  BY <1>1 DEF StartDispatch, TypeOK
<1>2. CASE Record
  <2>1. PICK f \in flight : row' = [row EXCEPT ![f[1]] = Recorded(f[1], f[2])]
    BY <1>2 DEF Record
  <2>2. f[1] \in Rows /\ f[2] \in Results
    BY DEF TypeOK
  <2>3. Recorded(f[1], f[2]) \in RowType
    BY <2>2, RecordedType
  <2>4. row' \in [Rows -> RowType]
    BY <1>0, <2>1, <2>3
  <2> QED BY <1>2, <2>4 DEF Record, TypeOK, RowType
<1>3. CASE NextSink
  BY <1>3 DEF NextSink, TypeOK
<1>4. CASE EndDispatch
  BY <1>4 DEF EndDispatch, TypeOK
<1>5. CASE LoseRun
  <2>1. losses' \in [Rows -> Nat]
    BY <1>5 DEF LoseRun, TypeOK
  <2> QED BY <2>1, <1>5 DEF LoseRun, TypeOK
<1>6. CASE Tick
  BY <1>6 DEF Tick, runVars, TypeOK
<1>7. ASSUME NEW r \in Rows, CloseAlert(r) PROVE TypeOK'
  <2>1. Recorded(r, "permanent") \in RowType
    BY RecordedType DEF Results
  <2>2. row' \in [Rows -> RowType]
    BY <1>0, <1>7, <2>1 DEF CloseAlert
  <2>3. r[2] \in Sinks
    BY DEF Rows
  <2> QED BY <1>7, <2>2, <2>3 DEF CloseAlert, TypeOK, RowType
<1>8. ASSUME NEW r \in Rows, NEW o \in Results, NEW a \in BOOLEAN, Attempt(r, o, a) PROVE TypeOK'
  <2>1. r[2] \in Sinks
    BY DEF Rows
  <2> QED BY <1>8, <2>1 DEF Attempt, TypeOK
<1>9. ASSUME NEW e \in Events, Ingest(e) PROVE TypeOK'
  <2>1. [NoRow EXCEPT !.state = "pending", !.updated = clock] \in RowType
    BY <1>0 DEF NoRow, RowType, States, Null
  <2>2. row' \in [Rows -> RowType]
    BY <1>0, <1>9, <2>1 DEF Ingest
  <2> QED BY <1>9, <2>2 DEF Ingest, runVars, TypeOK, RowType
<1>10. ASSUME NEW s \in Sinks, ReleaseBlocked(s) PROVE TypeOK'
  <2>1. ASSUME NEW r \in Rows
        PROVE  [row[r] EXCEPT !.state = "pending", !.next = clock, !.updated = clock] \in RowType
    BY <1>0 DEF RowType, States
  <2>2. row' \in [Rows -> RowType]
    BY <1>0, <1>10, <2>1 DEF ReleaseBlocked
  <2>3. releases' \in [Sinks -> Nat] /\ sent' \subseteq Rows
    <3>1. releases' = [releases EXCEPT ![s] = releases[s] + 1] /\ sent' \subseteq sent
      BY <1>10 DEF ReleaseBlocked
    <3>2. releases \in [Sinks -> Nat] /\ sent \subseteq Rows
      BY DEF TypeOK
    <3> QED BY <3>1, <3>2
  <2>4. UNCHANGED <<clock, received, now, turn, used, flight, served, sends, losses>>
    BY <1>10 DEF ReleaseBlocked
  <2> QED BY <2>2, <2>3, <2>4 DEF TypeOK, RowType
<1>11. CASE UNCHANGED vars
  BY <1>11 DEF vars, TypeOK
<1> QED BY StepKinds, <1>1, <1>2, <1>3, <1>4, <1>5, <1>6, <1>7, <1>8, <1>9, <1>10, <1>11

LEMMA TypeInit == Init => TypeOK
BY ConstantTypes, NoRowType DEF Init, TypeOK, RowType

\* Every variable of Dispatch keeps its type; in particular no retry time passes
\* the end of the clock, whatever the delay and the number of attempts.
THEOREM DispatchTypeCorrect == Spec => []TypeOK
BY TypeInit, TypeStep, PTL DEF Spec

-----------------------------------------------------------------------------
(* The retry budget.                                                       *)

Budget == Max({MaxAttempts, 1})
Flying(r) == \E f \in flight : f[1] = r

\* At most one row is in flight, only while its sink has the turn; nothing else
\* moves it, and a positive result means that the receiver has the event.
OneFlight ==
  /\ \A f, g \in flight : f = g
  /\ flight # {} => turn \in DOMAIN SinkOrder
  /\ \A f \in flight : /\ row[f[1]].state = "pending"
                       /\ f[2] = "ok" => f[1] \in received

\* The attempts recorded in a row account for what was sent and neither lost nor
\* in flight, and an open row has one attempt left.
Accounted ==
  \A r \in Rows :
    /\ row[r].state = "none" => row[r].attempts = 0
    /\ sends[r] <= row[r].attempts + losses[r] + (IF Flying(r) THEN 1 ELSE 0)
    /\ row[r].attempts <= Budget + releases[r[2]]
    /\ row[r].state = "pending" => row[r].attempts < Budget + releases[r[2]]

LEMMA BudgetPositive == Budget \in Nat /\ Budget >= 1
BY ConstantTypes, MaxPair DEF Budget

LEMMA OneFlightStep ==
  ASSUME TypeOK, OneFlight, [Next]_vars
  PROVE  OneFlight'
<1> USE DEF OneFlight
<1>1. CASE StartDispatch
  BY <1>1, ConstantTypes DEF StartDispatch, TypeOK
<1>2. CASE Record
  BY <1>2 DEF Record
<1>3. CASE NextSink
  BY <1>3 DEF NextSink
<1>4. CASE EndDispatch
  BY <1>4, ConstantTypes DEF EndDispatch, TypeOK
<1>5. CASE LoseRun
  BY <1>5 DEF LoseRun
<1>6. CASE Tick
  BY <1>6 DEF Tick, runVars
<1>7. ASSUME NEW r \in Rows, CloseAlert(r) PROVE OneFlight'
  BY <1>7 DEF CloseAlert
<1>8. ASSUME NEW r \in Rows, NEW o \in Results, NEW a \in BOOLEAN, Attempt(r, o, a)
      PROVE  OneFlight'
  <2>1. /\ turn \in DOMAIN SinkOrder /\ row[r].state = "pending" /\ (o = "ok" => a)
        /\ flight' = {<<r, o>>} /\ UNCHANGED <<turn, row>>
        /\ a => r \in received'
    BY <1>8 DEF Attempt, NextReady, Ready
  <2> QED BY <2>1
<1>9. ASSUME NEW e \in Events, Ingest(e) PROVE OneFlight'
  <2>1. flight = {}
    BY <1>9, ConstantTypes DEF Ingest
  <2> QED BY <1>9, <2>1 DEF Ingest, runVars
<1>10. ASSUME NEW s \in Sinks, ReleaseBlocked(s) PROVE OneFlight'
  <2>1. UNCHANGED <<flight, turn, received>>
    BY <1>10 DEF ReleaseBlocked
  <2>2. ASSUME NEW f \in flight PROVE row'[f[1]] = row[f[1]]
    <3>1. f[1] \in Rows /\ row[f[1]].state = "pending"
      BY DEF TypeOK
    <3> QED BY <3>1, <1>10 DEF ReleaseBlocked
  <2> QED BY <2>1, <2>2
<1>11. CASE UNCHANGED vars
  BY <1>11 DEF vars
<1> QED BY StepKinds, <1>1, <1>2, <1>3, <1>4, <1>5, <1>6, <1>7, <1>8, <1>9, <1>10, <1>11

LEMMA AccountedStep ==
  ASSUME TypeOK, OneFlight, Accounted, [Next]_vars
  PROVE  Accounted'
<1> USE BudgetPositive
<1>0. ASSUME UNCHANGED <<row, sends, releases, losses, flight>> PROVE Accounted'
  BY <1>0 DEF Accounted, Flying, Budget
<1>1. CASE StartDispatch
  BY <1>0, <1>1 DEF StartDispatch
<1>2. CASE Record
  <2>1. PICK f \in flight : row' = [row EXCEPT ![f[1]] = Recorded(f[1], f[2])]
    BY <1>2 DEF Record
  <2>2. UNCHANGED <<sends, releases, losses>> /\ flight' = {}
    BY <1>2 DEF Record
  <2>3. f[1] \in Rows /\ f[2] \in Results /\ row[f[1]].state = "pending"
    BY DEF TypeOK, OneFlight
  <2> SUFFICES ASSUME NEW r \in Rows
               PROVE  /\ row'[r].state = "none" => row'[r].attempts = 0
                      /\ sends[r] <= row'[r].attempts + losses[r] + (IF Flying(r)' THEN 1 ELSE 0)
                      /\ row'[r].attempts <= Budget + releases[r[2]]
                      /\ row'[r].state = "pending" => row'[r].attempts < Budget + releases[r[2]]
    BY <2>2 DEF Accounted, Budget
  <2>4. /\ sends[r] \in Nat /\ losses[r] \in Nat /\ row[r].attempts \in Nat
        /\ releases[r[2]] \in Nat /\ ~Flying(r)'
    BY <2>2 DEF TypeOK, Rows, Flying
  <2>5. CASE r = f[1]
    <3>1. row'[r] = Recorded(r, f[2])
      BY <2>1, <2>3, <2>5 DEF TypeOK
    <3>2. row'[r].attempts = row[r].attempts + 1 /\ row'[r].state # "none"
      BY <3>1, <2>3, <2>5, RecordedType, RecordedState
    <3>3. row'[r].state = "pending" => row[r].attempts + 1 < Budget
      BY <3>1, <2>3, RecordedState DEF CanRetry, Budget
    <3>4. sends[r] <= row[r].attempts + losses[r] + 1 /\ row[r].attempts < Budget + releases[r[2]]
      BY <2>3, <2>4, <2>5 DEF Accounted
    <3> QED BY <3>2, <3>3, <3>4, <2>4
  <2>6. CASE r # f[1]
    <3>1. row'[r] = row[r]
      BY <2>1, <2>6 DEF TypeOK
    <3>2. ~Flying(r)
      BY <2>6 DEF Flying, OneFlight
    <3> QED BY <3>1, <3>2, <2>4 DEF Accounted
  <2> QED BY <2>5, <2>6
<1>3. CASE NextSink
  BY <1>0, <1>3 DEF NextSink
<1>4. CASE EndDispatch
  BY <1>0, <1>4 DEF EndDispatch
<1>5. CASE LoseRun
  <2>1. /\ UNCHANGED <<row, sends, releases>> /\ flight' = {}
        /\ losses' = [r \in Rows |-> IF Flying(r) THEN losses[r] + 1 ELSE losses[r]]
    BY <1>5 DEF LoseRun, Flying
  <2>2. ASSUME NEW r \in Rows
        PROVE  sends[r] <= row[r].attempts + losses'[r]
    <3>1. sends[r] \in Nat /\ losses[r] \in Nat /\ row[r].attempts \in Nat
      BY DEF TypeOK
    <3> QED BY <3>1, <2>1 DEF Accounted
  <2>3. ASSUME NEW r \in Rows PROVE row[r].attempts \in Nat /\ losses'[r] \in Nat
    BY <2>1 DEF TypeOK
  <2>4. \A r \in Rows : ~Flying(r)'
    BY <2>1 DEF Flying
  <2> QED BY <2>1, <2>2, <2>3, <2>4 DEF Accounted, Budget
<1>6. CASE Tick
  BY <1>0, <1>6 DEF Tick, runVars
<1>7. ASSUME NEW q \in Rows, CloseAlert(q) PROVE Accounted'
  <2>1. /\ row' = [row EXCEPT ![q] = Recorded(q, "permanent")] /\ row[q].state = "pending"
        /\ UNCHANGED <<sends, releases, losses, flight>>
    BY <1>7 DEF CloseAlert, NextReady, Ready
  <2>2. /\ row'[q].attempts = row[q].attempts + 1
        /\ row'[q].state \notin {"none", "pending"}
    BY <2>1, RecordedType, RecordedState DEF TypeOK, Results
  <2>3. ASSUME NEW r \in Rows, r # q PROVE row'[r] = row[r]
    BY <2>1, <2>3 DEF TypeOK
  <2>4. ASSUME NEW r \in Rows
        PROVE  /\ sends[r] \in Nat /\ losses[r] \in Nat /\ row[r].attempts \in Nat
               /\ releases[r[2]] \in Nat
    BY DEF TypeOK, Rows
  <2>5. \A r \in Rows : Flying(r)' <=> Flying(r)
    BY <2>1 DEF Flying
  <2>6. ASSUME NEW r \in Rows, r = q
        PROVE  /\ sends[r] <= row'[r].attempts + losses[r] + (IF Flying(r) THEN 1 ELSE 0)
               /\ row'[r].attempts <= Budget + releases[r[2]]
    <3>1. /\ sends[r] <= row[r].attempts + losses[r] + (IF Flying(r) THEN 1 ELSE 0)
          /\ row[r].attempts < Budget + releases[r[2]]
      BY <2>1, <2>6 DEF Accounted
    <3> QED BY <3>1, <2>2, <2>4, <2>6
  <2> QED BY <2>1, <2>2, <2>3, <2>5, <2>6 DEF Accounted, Budget
<1>8. ASSUME NEW q \in Rows, NEW o \in Results, NEW a \in BOOLEAN, Attempt(q, o, a)
      PROVE  Accounted'
  <2>1. /\ flight = {} /\ flight' = {<<q, o>>} /\ sends' = [sends EXCEPT ![q] = @ + 1]
        /\ UNCHANGED <<row, releases, losses>>
    BY <1>8 DEF Attempt
  <2>2. ASSUME NEW r \in Rows
        PROVE  sends'[r] <= row[r].attempts + losses[r] + (IF Flying(r)' THEN 1 ELSE 0)
    <3>1. sends[r] \in Nat /\ losses[r] \in Nat /\ row[r].attempts \in Nat
      BY DEF TypeOK
    <3>2. sends[r] <= row[r].attempts + losses[r]
      BY <2>1, <3>1 DEF Accounted, Flying
    <3>3. Flying(r)' <=> r = q
      BY <2>1 DEF Flying
    <3>4. sends'[r] = IF r = q THEN sends[r] + 1 ELSE sends[r]
      BY <2>1 DEF TypeOK
    <3> QED BY <3>1, <3>2, <3>3, <3>4
  <2> QED BY <2>1, <2>2 DEF Accounted, Budget
<1>9. ASSUME NEW e \in Events, Ingest(e) PROVE Accounted'
  <2>1. UNCHANGED <<sends, releases, losses, flight>>
    BY <1>9 DEF Ingest, runVars
  <2>2. ASSUME NEW r \in Rows
        PROVE  \/ row'[r] = row[r]
               \/ row[r].state = "none" /\ row'[r].state = "pending" /\ row'[r].attempts = 0
    <3>1. r[2] \in Sinks /\ r = <<r[1], r[2]>>
      BY DEF Rows
    <3>2. row'[r] = IF r[1] = e THEN [NoRow EXCEPT !.state = "pending", !.updated = clock] ELSE row[r]
      BY <1>9 DEF Ingest
    <3>3. CASE r[1] = e
      BY <3>1, <3>2, <3>3, <1>9 DEF Ingest, NoRow
    <3> QED BY <3>2, <3>3
  <2>3. ASSUME NEW r \in Rows PROVE releases[r[2]] \in Nat
    BY DEF TypeOK, Rows
  <2>4. \A r \in Rows : Flying(r)' <=> Flying(r)
    BY <2>1 DEF Flying
  <2> SUFFICES ASSUME NEW r \in Rows
               PROVE  /\ row'[r].state = "none" => row'[r].attempts = 0
                      /\ sends[r] <= row'[r].attempts + losses[r] + (IF Flying(r) THEN 1 ELSE 0)
                      /\ row'[r].attempts <= Budget + releases[r[2]]
                      /\ row'[r].state = "pending" => row'[r].attempts < Budget + releases[r[2]]
    BY <2>1, <2>4 DEF Accounted, Budget
  <2> QED BY <2>2, <2>3 DEF Accounted
<1>10. ASSUME NEW s \in Sinks, ReleaseBlocked(s) PROVE Accounted'
  <2>1. UNCHANGED <<sends, losses, flight>> /\ releases' = [releases EXCEPT ![s] = @ + 1]
    BY <1>10 DEF ReleaseBlocked
  <2>2. ASSUME NEW r \in Rows
        PROVE  /\ row'[r].attempts = row[r].attempts
               /\ row'[r].state = row[r].state \/ (r[2] = s /\ row'[r].state = "pending")
    <3>1. row[r] \in RowType
      BY DEF TypeOK, RowType
    <3> QED BY <3>1, <1>10 DEF ReleaseBlocked, RowType
  <2>3. ASSUME NEW r \in Rows
        PROVE  /\ releases[r[2]] \in Nat /\ row[r].attempts \in Nat
               /\ releases'[r[2]] = IF r[2] = s THEN releases[r[2]] + 1 ELSE releases[r[2]]
    BY <2>1 DEF TypeOK, Rows
  <2>4. \A r \in Rows : Flying(r)' <=> Flying(r)
    BY <2>1 DEF Flying
  <2> SUFFICES ASSUME NEW r \in Rows
               PROVE  /\ row'[r].state = "none" => row'[r].attempts = 0
                      /\ sends[r] <= row'[r].attempts + losses[r] + (IF Flying(r) THEN 1 ELSE 0)
                      /\ row'[r].attempts <= Budget + releases'[r[2]]
                      /\ row'[r].state = "pending" => row'[r].attempts < Budget + releases'[r[2]]
    BY <2>1, <2>4 DEF Accounted, Budget
  <2>5. /\ row[r].attempts <= Budget + releases[r[2]]
        /\ row[r].state = "pending" => row[r].attempts < Budget + releases[r[2]]
    BY DEF Accounted
  <2> QED BY <2>2, <2>3, <2>5 DEF Accounted
<1>11. CASE UNCHANGED vars
  BY <1>0, <1>11 DEF vars
<1> QED BY StepKinds, <1>1, <1>2, <1>3, <1>4, <1>5, <1>6, <1>7, <1>8, <1>9, <1>10, <1>11

DispatchInv == TypeOK /\ OneFlight /\ Accounted

LEMMA DispatchInvHolds == Spec => []DispatchInv
<1>1. Init => OneFlight /\ Accounted
  BY BudgetPositive DEF Init, OneFlight, Accounted, Flying, NoRow, Rows
<1>2. DispatchInv /\ [Next]_vars => DispatchInv'
  BY TypeStep, OneFlightStep, AccountedStep DEF DispatchInv
<1>3. Init => DispatchInv
  BY TypeInit, <1>1 DEF DispatchInv
<1> QED BY <1>2, <1>3, PTL DEF Spec

\* A row is sent at most max_attempts times, and once more for each operator
\* release of its sink and for each result a crash or a storage error lost, for
\* any retry configuration and any interleaving of releases with a dispatch.
THEOREM RetriesAreBounded == Spec => []RetryBudget
<1>1. DispatchInv => RetryBudget
  <2> SUFFICES ASSUME DispatchInv, NEW r \in Rows
               PROVE  sends[r] <= Budget + releases[r[2]] + losses[r]
    BY DEF RetryBudget, Budget
  <2>1. /\ sends[r] \in Nat /\ losses[r] \in Nat /\ row[r].attempts \in Nat
        /\ releases[r[2]] \in Nat
    BY DEF DispatchInv, TypeOK, Rows
  <2>2. Flying(r) => row[r].state = "pending"
    BY DEF Flying, DispatchInv, OneFlight
  <2>3. /\ sends[r] <= row[r].attempts + losses[r] + (IF Flying(r) THEN 1 ELSE 0)
        /\ row[r].attempts <= Budget + releases[r[2]]
        /\ row[r].state = "pending" => row[r].attempts < Budget + releases[r[2]]
    BY DEF DispatchInv, Accounted
  <2> QED BY <2>1, <2>2, <2>3, BudgetPositive
<1> QED BY <1>1, DispatchInvHolds, PTL

-----------------------------------------------------------------------------
(* No second send within a dispatch.                                       *)

\* A row the running dispatch has sent is in flight, or not ready at its time.
SentNotReady ==
  turn > 0 /\ now < MaxTime => \A r \in sent : Flying(r) \/ ~Ready(r, now)

LEMMA SentStep ==
  ASSUME DispatchInv, SentNotReady, [Next]_vars
  PROVE  SentNotReady'
<1> USE DEF SentNotReady
<1>0. TypeOK /\ OneFlight /\ TypeOK'
  BY TypeStep DEF DispatchInv
<1>t. sent \subseteq Rows /\ turn \in Nat
  BY <1>0 DEF TypeOK
<1>u. ASSUME UNCHANGED <<row, flight, now, sent, turn>> PROVE SentNotReady'
  BY <1>u DEF Flying, Ready
<1>1. CASE StartDispatch
  BY <1>1 DEF StartDispatch
<1>2. CASE Record
  <2>1. PICK f \in flight : row' = [row EXCEPT ![f[1]] = Recorded(f[1], f[2])]
    BY <1>2 DEF Record
  <2>2. f[1] \in Rows /\ f[2] \in Results /\ row[f[1]].attempts + 1 \in Nat /\ now \in 0..MaxTime
    <3>1. f \in Rows \X Results
      BY <1>0, <2>1 DEF TypeOK
    <3>2. f[1] \in Rows /\ f[2] \in Results
      BY <3>1
    <3>3. row[f[1]].attempts \in Nat
      BY <1>0, <3>2 DEF TypeOK
    <3>4. now \in 0..MaxTime
      BY <1>0 DEF TypeOK
    <3>5. row[f[1]].attempts + 1 \in Nat
      BY <3>3
    <3> QED BY <3>2, <3>4, <3>5
  <2>3. UNCHANGED <<now, sent, turn>>
    BY <1>2 DEF Record
  <2>4. ASSUME turn > 0, now < MaxTime, NEW r \in sent PROVE ~Ready(r, now)'
    <3>1. CASE r = f[1]
      <4>1. row'[r] = Recorded(r, f[2])
        BY <2>1, <2>2, <3>1, <1>0 DEF TypeOK
      <4>2. NextRetryAt(now, row[r].attempts + 1) > now /\ NextRetryAt(now, row[r].attempts + 1) \in Nat
        <5> DEFINE n == row[f[1]].attempts + 1
        <5>1. n \in Nat
          BY <2>2
        <5> HIDE DEF n
        <5>2. NextRetryAt(now, n) \in 0..MaxTime /\ NextRetryAt(now, n) > now
          BY <5>1, <2>2, <2>4, RetryLater
        <5> QED BY <5>2, <3>1, ConstantTypes DEF n
      <4>3. row'[r].state = "pending" => row'[r].next = NextRetryAt(now, row[r].attempts + 1)
        BY <4>1, <2>2, RecordedState
      <4> QED BY <4>2, <4>3, <2>2, <2>3 DEF Ready
    <3>2. CASE r # f[1]
      <4>1. row'[r] = row[r]
        BY <2>1, <3>2, <1>t, <1>0 DEF TypeOK
      <4>2. ~Flying(r)
        BY <3>2, <1>0 DEF Flying, OneFlight
      <4> QED BY <4>1, <4>2, <2>3, <2>4 DEF Ready
    <3> QED BY <3>1, <3>2
  <2> QED BY <2>3, <2>4
<1>3. CASE NextSink
  <2>1. UNCHANGED <<row, flight, now, sent>> /\ turn > 0
    BY <1>3, ConstantTypes DEF NextSink
  <2> QED BY <2>1 DEF Flying, Ready
<1>4. CASE EndDispatch
  BY <1>4 DEF EndDispatch
<1>5. CASE LoseRun
  BY <1>5 DEF LoseRun
<1>6. CASE Tick
  BY <1>6, <1>u DEF Tick, runVars
<1>7. ASSUME NEW q \in Rows, CloseAlert(q) PROVE SentNotReady'
  <2>1. /\ row' = [row EXCEPT ![q] = Recorded(q, "permanent")]
        /\ UNCHANGED <<now, sent, turn, flight>>
    BY <1>7 DEF CloseAlert
  <2>2. row'[q].state # "pending"
    BY <2>1, <1>0, RecordedState DEF TypeOK, Results
  <2>3. ASSUME NEW r \in sent, r # q PROVE row'[r] = row[r]
    BY <2>1, <2>3, <1>t, <1>0 DEF TypeOK
  <2> QED BY <2>1, <2>2, <2>3 DEF Flying, Ready
<1>8. ASSUME NEW q \in Rows, NEW o \in Results, NEW a \in BOOLEAN, Attempt(q, o, a)
      PROVE  SentNotReady'
  <2>1. /\ flight = {} /\ flight' = {<<q, o>>} /\ sent' = sent \cup {q}
        /\ UNCHANGED <<row, now, turn>>
    BY <1>8 DEF Attempt
  <2> QED BY <2>1 DEF Flying, Ready
<1>9. ASSUME NEW e \in Events, Ingest(e) PROVE SentNotReady'
  BY <1>9 DEF Ingest, runVars
<1>10. ASSUME NEW s \in Sinks, ReleaseBlocked(s) PROVE SentNotReady'
  <2>1. /\ sent' = {r \in sent : ~(r[2] = s /\ row[r].state = "blocked")}
        /\ UNCHANGED <<now, turn, flight>>
    BY <1>10 DEF ReleaseBlocked
  <2>2. ASSUME NEW r \in sent' PROVE r \in sent /\ row'[r] = row[r]
    BY <2>1, <1>10, <1>t DEF ReleaseBlocked
  <2> QED BY <2>1, <2>2 DEF Flying, Ready
<1>11. CASE UNCHANGED vars
  BY <1>11, <1>u DEF vars
<1> QED BY StepKinds, <1>1, <1>2, <1>3, <1>4, <1>5, <1>6, <1>7, <1>8, <1>9, <1>10, <1>11

\* No dispatch sends a row twice without an operator's release in between, for
\* every configured delay, 0 included, and every number of attempts.
THEOREM NoRowSentTwice == Spec => NoResendInDispatch
<1> DEFINE A == \A f \in flight' \ flight : now < MaxTime => f[1] \notin sent
<1>1. ASSUME DispatchInv, SentNotReady, [Next]_vars PROVE [A]_vars
  <2>1. ASSUME NEW q \in Rows, NEW o \in Results, NEW a \in BOOLEAN, Attempt(q, o, a)
        PROVE  A
    <3>1. flight = {} /\ flight' = {<<q, o>>} /\ turn \in DOMAIN SinkOrder /\ Ready(q, now)
      BY <2>1 DEF Attempt, NextReady
    <3>2. turn > 0
      BY <3>1, ConstantTypes
    <3> QED BY <1>1, <3>1, <3>2 DEF SentNotReady, Flying
  <2>2. ASSUME flight' \subseteq flight PROVE A
    BY <2>2
  <2>3. \/ flight' \subseteq flight
        \/ \E r \in Rows, o \in Results, a \in BOOLEAN : Attempt(r, o, a)
    BY <1>1, StepKinds DEF StartDispatch, Record, NextSink, EndDispatch, LoseRun, Tick, CloseAlert,
       Ingest, ReleaseBlocked, runVars, vars
  <2> QED BY <2>1, <2>2, <2>3
<1>2. Init => SentNotReady
  BY DEF Init, SentNotReady
<1>3. Spec => []SentNotReady
  BY <1>2, SentStep, DispatchInvHolds, PTL DEF Spec
<1> QED BY <1>1, <1>3, DispatchInvHolds, PTL DEF Spec, NoResendInDispatch

-----------------------------------------------------------------------------
(* The share of each sink.                                                 *)

\* Among the ready rows of a sink there is a first one to select.
LEMMA FirstReady ==
  ASSUME TypeOK, NEW s, NEW r0 \in Rows, r0[2] = s, Ready(r0, now)
  PROVE  \E r \in Rows : NextReady(r, s)
<1> DEFINE R == {r \in Rows : r[2] = s /\ Ready(r, now)}
<1>1. ASSUME NEW r \in R
      PROVE  DueTime(r) \in Nat /\ row[r].updated \in Nat /\ r[1] \in Nat
  <2>1. row[r] \in RowType /\ r \in Rows
    BY DEF TypeOK, RowType, R
  <2>2. Events \subseteq Nat /\ MaxTime \in Nat
    BY DispatchAssumption DEF DispatchAssumption
  <2>3. row[r].next \in {Null} \cup 0..MaxTime
    BY <2>1 DEF RowType
  <2>4. DueTime(r) \in Nat
    <3>1. CASE row[r].next = Null
      BY <3>1 DEF DueTime
    <3>2. CASE row[r].next # Null
      <4>1. row[r].next \in 0..MaxTime
        BY <2>3, <3>2
      <4>2. DueTime(r) = row[r].next
        BY <3>2 DEF DueTime
      <4> QED BY <4>1, <4>2, <2>2
    <3> QED BY <3>1, <3>2
  <2>5. row[r].updated \in Nat
    <3>1. row[r].updated \in 0..MaxTime
      BY <2>1 DEF RowType
    <3> QED BY <3>1, <2>2
  <2>6. r[1] \in Nat
    <3>1. r[1] \in Events
      BY <2>1 DEF Rows
    <3> QED BY <3>1, <2>2
  <2> QED BY <2>4, <2>5, <2>6
<1>2. r0 \in R
  OBVIOUS
<1> HIDE DEF R
<1> DEFINE D == {DueTime(r) : r \in R}
<1>3. PICK d \in D : \A x \in D : d <= x
  <2>1. D \subseteq Nat /\ D # {}
    BY <1>1, <1>2
  <2> QED BY <2>1, LeastNat
<1> DEFINE U == {row[r].updated : r \in {q \in R : DueTime(q) = d}}
<1>4. PICK u \in U : \A x \in U : u <= x
  <2>1. U \subseteq Nat /\ U # {}
    BY <1>1, <1>3
  <2> QED BY <2>1, LeastNat
<1> DEFINE E == {r[1] : r \in {q \in R : DueTime(q) = d /\ row[q].updated = u}}
<1>5. PICK e \in E : \A x \in E : e <= x
  <2>1. E \subseteq Nat /\ E # {}
    BY <1>1, <1>4
  <2> QED BY <2>1, LeastNat
<1>6. PICK r \in R : DueTime(r) = d /\ row[r].updated = u /\ r[1] = e
  BY <1>5
<1>7. ASSUME NEW q \in R PROVE Before(r, q)
  <2>1. d <= DueTime(q) /\ (DueTime(q) = d => u <= row[q].updated)
    BY <1>3, <1>4
  <2>2. DueTime(q) = d /\ row[q].updated = u => e <= q[1]
    BY <1>5
  <2>3. d \in Nat /\ u \in Nat /\ DueTime(q) \in Nat /\ row[q].updated \in Nat
    BY <1>1, <1>6
  <2> QED BY <2>1, <2>2, <2>3, <1>6 DEF Before
<1> QED BY <1>6, <1>7 DEF R, NextReady

\* The sinks that had their turn have no row that was ready all along, unless a
\* row of theirs was taken; so has the current one once a row was taken.
Shared ==
  /\ now <= clock
  /\ turn > 0 =>
       \A i \in DOMAIN SinkOrder : i < turn =>
         \A r \in Rows : r[2] = SinkOrder[i] /\ Ready(r, now) /\ row[r].updated < now
                           => r[2] \in served
  /\ turn \in DOMAIN SinkOrder /\ used > 0 => SinkOrder[turn] \in served

\* Changed rows carry the time of the change, which is not before the dispatch's.
LEMMA SharedRows ==
  ASSUME Shared, UNCHANGED <<clock, now, turn, used>>, served \subseteq served',
         \A r \in Rows : row'[r] = row[r] \/ ~(row'[r].updated < now)
  PROVE  Shared'
BY DEF Shared, Ready

LEMMA SharedStep ==
  ASSUME DispatchInv, Shared, [Next]_vars
  PROVE  Shared'
<1>0. TypeOK /\ OneFlight
  BY DEF DispatchInv
<1>t. now \in Int /\ clock \in Int /\ turn \in Nat /\ used \in Nat
  BY <1>0, ConstantTypes DEF TypeOK
<1>1. CASE StartDispatch
  <2>1. now' = clock /\ clock' = clock /\ turn' = 1 /\ used' = 0
    BY <1>1 DEF StartDispatch
  <2>2. \A i \in DOMAIN SinkOrder : ~(i < turn')
    BY <2>1, ConstantTypes
  <2> QED BY <2>1, <2>2, <1>t DEF Shared
<1>2. CASE Record
  <2>1. PICK f \in flight : row' = [row EXCEPT ![f[1]] = Recorded(f[1], f[2])]
    BY <1>2 DEF Record
  <2>2. UNCHANGED <<clock, now, turn, used, served>>
    BY <1>2 DEF Record
  <2>3. f[1] \in Rows /\ f[2] \in Results
    BY <1>0 DEF TypeOK
  <2>4. ASSUME NEW r \in Rows PROVE row'[r] = row[r] \/ ~(row'[r].updated < now)
    <3>1. CASE r = f[1]
      <4>1. row'[r].updated = now
        BY <2>1, <2>3, <3>1, <1>0, RecordedType DEF TypeOK
      <4> QED BY <4>1, <1>t
    <3>2. CASE r # f[1]
      BY <2>1, <3>2, <1>0 DEF TypeOK
    <3> QED BY <3>1, <3>2
  <2> QED BY <2>2, <2>4, SharedRows
<1>3. CASE NextSink
  <2>1. /\ turn \in DOMAIN SinkOrder /\ ShareOver /\ turn' = turn + 1 /\ used' = 0
        /\ UNCHANGED <<clock, row, now, served>>
    BY <1>3 DEF NextSink
  <2>2. ASSUME NEW i \in DOMAIN SinkOrder, i < turn + 1, NEW r \in Rows, r[2] = SinkOrder[i],
               Ready(r, now), row[r].updated < now
        PROVE  r[2] \in served
    <3>1. CASE i = turn
      <4>1. \E q \in Rows : NextReady(q, SinkOrder[turn])
        BY <2>2, <3>1, <1>0, FirstReady
      <4>2. used > 0
        BY <2>1, <4>1 DEF ShareOver
      <4> QED BY <4>2, <2>1, <2>2, <3>1 DEF Shared
    <3>2. CASE i < turn
      BY <2>2, <3>2, <2>1, ConstantTypes DEF Shared
    <3> QED BY <3>1, <3>2, <2>2, <1>t, ConstantTypes
  <2> QED BY <2>1, <2>2, <1>t DEF Shared, Ready
<1>4. CASE EndDispatch
  BY <1>4, ConstantTypes DEF EndDispatch, Shared
<1>5. CASE LoseRun
  BY <1>5, ConstantTypes DEF LoseRun, Shared
<1>6. CASE Tick
  <2>1. clock' = clock + 1 /\ UNCHANGED <<row, now, turn, used, served>>
    BY <1>6 DEF Tick, runVars
  <2> QED BY <2>1, <1>t DEF Shared, Ready
<1>7. ASSUME NEW q \in Rows, CloseAlert(q) PROVE Shared'
  <2>1. /\ row' = [row EXCEPT ![q] = Recorded(q, "permanent")] /\ UNCHANGED <<clock, now, turn>>
        /\ q[2] = SinkOrder[turn] /\ served' = served \cup {q[2]}
    BY <1>7 DEF CloseAlert, NextReady
  <2>2. ASSUME NEW r \in Rows PROVE row'[r] = row[r] \/ ~(row'[r].updated < now)
    <3>1. CASE r = q
      <4>1. row'[r].updated = now
        BY <2>1, <3>1, <1>0, RecordedType DEF TypeOK, Results
      <4> QED BY <4>1, <1>t
    <3>2. CASE r # q
      BY <2>1, <3>2, <1>0 DEF TypeOK
    <3> QED BY <3>1, <3>2
  <2> QED BY <2>1, <2>2 DEF Shared, Ready
<1>8. ASSUME NEW q \in Rows, NEW o \in Results, NEW a \in BOOLEAN, Attempt(q, o, a) PROVE Shared'
  <2>1. /\ UNCHANGED <<row, clock, now, turn>>
        /\ q[2] = SinkOrder[turn] /\ served' = served \cup {q[2]}
    BY <1>8 DEF Attempt, NextReady
  <2> QED BY <2>1 DEF Shared, Ready
<1>9. ASSUME NEW e \in Events, Ingest(e) PROVE Shared'
  BY <1>9, ConstantTypes DEF Ingest, runVars, Shared
<1>10. ASSUME NEW s \in Sinks, ReleaseBlocked(s) PROVE Shared'
  <2>1. UNCHANGED <<clock, now, turn, used, served>>
    BY <1>10 DEF ReleaseBlocked
  <2>2. ASSUME NEW r \in Rows PROVE row'[r] = row[r] \/ ~(row'[r].updated < now)
    <3>1. row[r] \in RowType
      BY <1>0 DEF TypeOK, RowType
    <3>2. row'[r] = row[r] \/ row'[r].updated = clock
      BY <3>1, <1>10 DEF ReleaseBlocked, RowType
    <3> QED BY <3>2, <1>t DEF Shared
  <2> QED BY <2>1, <2>2, SharedRows
<1>11. CASE UNCHANGED vars
  BY <1>11 DEF vars, Shared, Ready
<1> QED BY StepKinds, <1>1, <1>2, <1>3, <1>4, <1>5, <1>6, <1>7, <1>8, <1>9, <1>10, <1>11

\* Every sink gets its own share of a dispatch: none that has a row ready from
\* the start is passed over, for any number of sinks and any cost of the others.
THEOREM EverySinkServed == Spec => []ShareForEachSink
<1>1. Init => Shared
  BY ConstantTypes DEF Init, Shared
<1>2. Spec => []Shared
  BY <1>1, SharedStep, DispatchInvHolds, PTL DEF Spec
<1>3. TypeOK /\ Shared => ShareForEachSink
  <2> SUFFICES ASSUME TypeOK, Shared, turn > Len(SinkOrder), NEW r \in Rows, Ready(r, now),
                      row[r].updated < now
               PROVE  r[2] \in served
    BY DEF ShareForEachSink
  <2>1. PICK i \in DOMAIN SinkOrder : r[2] = SinkOrder[i]
    BY DEF Rows, Sinks
  <2>2. turn > 0 /\ i < turn
    BY ConstantTypes DEF TypeOK
  <2> QED BY <2>1, <2>2 DEF Shared
<1> QED BY <1>2, <1>3, DispatchTypeCorrect, PTL

-----------------------------------------------------------------------------
(* The rows implement the delivery guarantee.                              *)

LEMMA AloStep ==
  ASSUME DispatchInv, [Next]_vars
  PROVE  [ALO!Next]_(ALO!avars)
<1> DEFINE W == {e \in Events : \E s \in Sinks : row[<<e, s>>].state # "none"}
           A == {r \in Rows : row[r].state = "acked"}
           D == {r \in Rows : row[r].state = "dead"}
<1>0. TypeOK /\ OneFlight
  BY DEF DispatchInv
<1>s. ASSUME UNCHANGED <<row, received>> PROVE [ALO!Next]_(ALO!avars)
  BY <1>s DEF ALO!avars
<1>p. ASSUME NEW r \in Rows PROVE r = <<r[1], r[2]>> /\ r[1] \in Events /\ r[2] \in Sinks
  BY DEF Rows
<1>q. ASSUME NEW q \in Rows, row[q].state = "pending" PROVE q[1] \in W /\ q \notin A \cup D
  BY <1>p, <1>q
\* A row that gets its result.
<1>r. ASSUME NEW q \in Rows, NEW o \in Results, row[q].state = "pending", o = "ok" => q \in received,
             row' = [row EXCEPT ![q] = Recorded(q, o)], UNCHANGED received
      PROVE  [ALO!Next]_(ALO!avars)
  <2>1. ASSUME NEW r \in Rows PROVE row'[r] = IF r = q THEN Recorded(q, o) ELSE row[r]
    BY <1>r, <1>0 DEF TypeOK
  <2>2. /\ Recorded(q, o).state = "acked" <=> o = "ok"
        /\ Recorded(q, o).state \in {"acked", "pending", "blocked", "dead"}
    BY RecordedState
  <2> HIDE DEF Recorded
  <2>3. \A e \in Events, s \in Sinks : <<e, s>> \in Rows
    BY DEF Rows
  <2>4. W' = W
    BY <2>1, <2>2, <2>3, <1>r
  <2>5. A' = IF Recorded(q, o).state = "acked" THEN A \cup {q} ELSE A
    BY <2>1, <1>r
  <2>6. D' = IF Recorded(q, o).state = "dead" THEN D \cup {q} ELSE D
    BY <2>1, <1>r
  <2>7. ALO!Open(q[1], q[2])
    BY <1>p, <1>q, <1>r DEF ALO!Open
  <2>8. CASE Recorded(q, o).state = "acked"
    <3>1. ALO!Acknowledge(q[1], q[2])
      BY <2>2, <2>4, <2>5, <2>6, <2>7, <2>8, <1>p, <1>r DEF ALO!Acknowledge
    <3> QED BY <3>1, <1>p DEF ALO!Next
  <2>9. CASE Recorded(q, o).state = "dead"
    <3>1. ALO!Abandon(q[1], q[2])
      BY <2>4, <2>5, <2>6, <2>7, <2>9, <1>p, <1>r DEF ALO!Abandon
    <3> QED BY <3>1, <1>p DEF ALO!Next
  <2>10. CASE Recorded(q, o).state \in {"pending", "blocked"}
    BY <2>4, <2>5, <2>6, <2>10, <1>r DEF ALO!avars
  <2> QED BY <2>2, <2>8, <2>9, <2>10
<1>1. CASE StartDispatch \/ NextSink \/ EndDispatch \/ LoseRun \/ Tick \/ UNCHANGED vars
  BY <1>1, <1>s DEF StartDispatch, NextSink, EndDispatch, LoseRun, Tick, vars
<1>2. CASE Record
  <2>1. PICK f \in flight : row' = [row EXCEPT ![f[1]] = Recorded(f[1], f[2])]
    BY <1>2 DEF Record
  <2>2. f[1] \in Rows /\ f[2] \in Results /\ row[f[1]].state = "pending"
        /\ (f[2] = "ok" => f[1] \in received) /\ UNCHANGED received
    BY <1>0, <1>2 DEF Record, TypeOK, OneFlight
  <2> QED BY <2>1, <2>2, <1>r
<1>7. ASSUME NEW q \in Rows, CloseAlert(q) PROVE [ALO!Next]_(ALO!avars)
  <2>1. /\ row' = [row EXCEPT ![q] = Recorded(q, "permanent")] /\ row[q].state = "pending"
        /\ UNCHANGED received
    BY <1>7 DEF CloseAlert, NextReady, Ready
  <2>2. "permanent" \in Results /\ "permanent" # "ok"
    BY DEF Results
  <2> QED BY <2>1, <2>2, <1>r
<1>8. ASSUME NEW q \in Rows, NEW o \in Results, NEW a \in BOOLEAN, Attempt(q, o, a)
      PROVE  [ALO!Next]_(ALO!avars)
  <2>1. /\ row' = row /\ row[q].state = "pending"
        /\ received' = IF a THEN received \cup {q} ELSE received
    BY <1>8 DEF Attempt, NextReady, Ready
  <2>2. CASE a
    <3>1. ALO!Receive(q[1], q[2])
      BY <2>1, <2>2, <1>p, <1>q DEF ALO!Receive, ALO!Open
    <3> QED BY <3>1, <1>p DEF ALO!Next
  <2>3. CASE ~a
    BY <2>1, <2>3, <1>s
  <2> QED BY <2>2, <2>3
<1>9. ASSUME NEW e \in Events, Ingest(e) PROVE [ALO!Next]_(ALO!avars)
  <2>1. /\ \A s \in Sinks : row[<<e, s>>].state = "none"
        /\ UNCHANGED received
    BY <1>9 DEF Ingest
  <2>2. ASSUME NEW r \in Rows
        PROVE  IF r[1] = e THEN row[r].state = "none" /\ row'[r].state = "pending"
                           ELSE row'[r] = row[r]
    BY <1>9, <2>1, <1>p DEF Ingest, NoRow
  <2>3. A' = A /\ D' = D
    BY <2>2
  <2>4. \A d \in Events, s \in Sinks : <<d, s>> \in Rows
    BY DEF Rows
  <2>5. CASE Sinks = {}
    BY <2>1, <2>3, <2>5 DEF ALO!avars
  <2>6. CASE Sinks # {}
    <3>1. W' = W \cup {e} /\ e \notin W
      BY <2>1, <2>2, <2>4, <2>6
    <3>2. ALO!Write(e)
      BY <3>1, <2>1, <2>3 DEF ALO!Write
    <3> QED BY <3>2 DEF ALO!Next
  <2> QED BY <2>5, <2>6
<1>10. ASSUME NEW s \in Sinks, ReleaseBlocked(s) PROVE [ALO!Next]_(ALO!avars)
  <2>1. UNCHANGED received
    BY <1>10 DEF ReleaseBlocked
  <2>2. ASSUME NEW r \in Rows
        PROVE  row'[r] = row[r] \/ (row[r].state = "blocked" /\ row'[r].state = "pending")
    <3>1. row[r] \in RowType
      BY <1>0 DEF TypeOK, RowType
    <3> QED BY <3>1, <1>10 DEF ReleaseBlocked, RowType
  <2>3. \A d \in Events, t \in Sinks : <<d, t>> \in Rows
    BY DEF Rows
  <2>4. W' = W /\ A' = A /\ D' = D
    BY <2>2, <2>3
  <2> QED BY <2>1, <2>4 DEF ALO!avars
<1> QED BY StepKinds, <1>1, <1>2, <1>7, <1>8, <1>9, <1>10

\* The deliveries table implements the abstract delivery guarantee: what is
\* recorded as acknowledged was received, and a settled row stays settled.
THEOREM RowsDeliverAtLeastOnce == Spec => DeliversAtLeastOnce
<1>1. Init => ALO!Init
  <2> SUFFICES ASSUME Init PROVE ALO!Init
    OBVIOUS
  <2>1. received = {} /\ \A r \in Rows : row[r].state = "none"
    BY DEF Init, NoRow
  <2>2. \A e \in Events, s \in Sinks : <<e, s>> \in Rows
    BY DEF Rows
  <2> QED BY <2>1, <2>2 DEF ALO!Init
<1> QED BY <1>1, AloStep, DispatchInvHolds, PTL DEF Spec, DeliversAtLeastOnce, ALO!Spec
=============================================================================
