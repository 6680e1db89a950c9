----------------------------- MODULE WatchProofs -----------------------------
(***************************************************************************)
(* Watch keeps its limits and loses no change, for every set of files,     *)
(* every channel, event and pending-set capacity and every iteration       *)
(* budget.                                                                 *)
(* The inductive invariant adds one fact to the two that are proved: the   *)
(* loop has collected nothing before its first turn, so that the source    *)
(* discovery at the start drops nothing.                                   *)
(***************************************************************************)
EXTENDS Watch, FiniteSetTheorems, TLAPS

PendingType == [paths : SUBSET Paths, remove : BOOLEAN, rescan : BOOLEAN]

StartEmpty == pc = "start" => pending = NothingPending

WatchInv == TypeOK /\ NoChangeLost /\ StartEmpty

-----------------------------------------------------------------------------
(* Coalescing.                                                             *)

\* A set of paths has a size, the empty set has size 0.
LEMMA PathSetSize ==
  /\ Cardinality({}) = 0
  /\ \A S \in SUBSET Paths : IsFiniteSet(S) /\ Cardinality(S) \in Nat
<1>1. Cardinality({}) = 0
  BY FS_EmptySet
<1>2. ASSUME NEW S \in SUBSET Paths
      PROVE  IsFiniteSet(S) /\ Cardinality(S) \in Nat
  <2>1. IsFiniteSet(S)
    BY <1>2, FS_Subset, WatchAssumption
  <2> QED BY <2>1, FS_CardinalityType
<1> QED BY <1>1, <1>2

\* PendingWatchChanges::require_full_scan stays within the limit and asks for a full scan.
LEMMA RequireFullScanType ==
  ASSUME NEW c \in PendingType
  PROVE  /\ RequireFullScan(c) \in PendingType
         /\ Cardinality(RequireFullScan(c).paths) <= PendingCapacity
         /\ RequireFullScan(c).rescan
<1>1. RequireFullScan(c) \in PendingType
  BY DEF RequireFullScan, PendingType
<1>2. RequireFullScan(c).paths = {}
  BY DEF RequireFullScan, PendingType
<1>3. RequireFullScan(c).rescan
  BY Zenon DEF RequireFullScan, PendingType
<1> QED BY <1>1, <1>2, <1>3, PathSetSize, WatchAssumption

\* Replacing the paths of a pending set leaves its two flags alone.
LEMMA WithPaths ==
  ASSUME NEW c \in PendingType, NEW S \in SUBSET Paths
  PROVE  /\ [c EXCEPT !.paths = S] \in PendingType
         /\ [c EXCEPT !.paths = S].paths = S
         /\ [c EXCEPT !.paths = S].remove = c.remove
  BY DEF PendingType

\* PendingWatchChanges::absorb_with_filter keeps the pending set within its limit
\* and forgets neither what was pending nor what the notification announces.
LEMMA AbsorbKeeps ==
  ASSUME NEW c \in PendingType, Cardinality(c.paths) <= PendingCapacity,
         NEW n \in Notifications
  PROVE  /\ Absorb(c, n) \in PendingType
         /\ Cardinality(Absorb(c, n).paths) <= PendingCapacity
         /\ c.rescan => Absorb(c, n).rescan
         /\ c.remove => Absorb(c, n).remove \/ Absorb(c, n).rescan
         /\ \A p \in c.paths : Absorb(c, n).rescan \/ p \in Absorb(c, n).paths
         /\ \A p \in Paths : Announces(n, p) =>
              Absorb(c, n).rescan \/ p \in Absorb(c, n).paths
<1> DEFINE marked == IF n.kind = "remove" THEN [c EXCEPT !.remove = TRUE] ELSE c
           a == Absorb(c, n)
<1>1. marked \in PendingType
  BY DEF PendingType
<1>2. CASE c.rescan
  <2>1. a = c
    BY <1>2 DEF Absorb
  <2> QED BY <2>1, <1>2
<1>3. CASE ~c.rescan /\ n.kind = "rescan"
  <2>1. a = RequireFullScan(c)
    BY <1>3 DEF Absorb
  <2> QED BY <2>1, <1>3, RequireFullScanType
<1>4. CASE ~c.rescan /\ n.kind # "rescan" /\ Cardinality(c.paths \cup n.paths) > PendingCapacity
  <2>1. a = RequireFullScan(marked)
    BY <1>4 DEF Absorb
  <2>2. a.rescan /\ a \in PendingType /\ Cardinality(a.paths) <= PendingCapacity
    BY <2>1, <1>1, RequireFullScanType
  <2> QED BY <2>2
<1>5. CASE ~c.rescan /\ n.kind # "rescan" /\ ~(Cardinality(c.paths \cup n.paths) > PendingCapacity)
  <2>1. a = [marked EXCEPT !.paths = c.paths \cup n.paths]
    BY <1>5 DEF Absorb
  <2>2. c.paths \cup n.paths \in SUBSET Paths
    BY DEF PendingType, Notifications
  <2>3. c.remove => marked.remove
    BY DEF PendingType
  <2> HIDE DEF marked
  <2>4. a \in PendingType /\ a.paths = c.paths \cup n.paths /\ a.remove = marked.remove
    BY <2>1, <2>2, <1>1, WithPaths
  <2>5. Cardinality(a.paths) <= PendingCapacity
    BY <2>2, <2>4, <1>5, PathSetSize, WatchAssumption
  <2>6. \A p \in c.paths \cup n.paths : p \in a.paths
    BY <2>4
  <2>7. c.remove => a.remove
    BY <2>4, <2>3
  <2> QED BY <2>4, <2>5, <2>6, <2>7, <1>5 DEF Announces
<1> QED BY <1>2, <1>3, <1>4, <1>5

\* WatchInbox::take_signals turns the overflow flag into a full scan and keeps the rest.
LEMMA TakeOverflowKeeps ==
  ASSUME NEW c \in PendingType, Cardinality(c.paths) <= PendingCapacity
  PROVE  /\ TakeOverflow(c) \in PendingType
         /\ Cardinality(TakeOverflow(c).paths) <= PendingCapacity
         /\ overflow \/ c.rescan => TakeOverflow(c).rescan
         /\ c.remove => TakeOverflow(c).remove \/ TakeOverflow(c).rescan
         /\ \A p \in c.paths : TakeOverflow(c).rescan \/ p \in TakeOverflow(c).paths
<1>1. CASE overflow
  <2>1. TakeOverflow(c) = RequireFullScan(c)
    BY <1>1 DEF TakeOverflow
  <2> QED BY <2>1, RequireFullScanType
<1>2. CASE ~overflow
  <2>1. TakeOverflow(c) = c
    BY <1>2 DEF TakeOverflow
  <2> QED BY <2>1, <1>2
<1> QED BY <1>1, <1>2

-----------------------------------------------------------------------------
(* The inductive step.                                                     *)

LEMMA InitWatch == Init => WatchInv
<1> SUFFICES ASSUME Init PROVE WatchInv
  OBVIOUS
<1> USE DEF Init
<1>1. TypeOK
  <2>1. pending \in PendingType /\ Cardinality(pending.paths) <= PendingCapacity
    BY PathSetSize, WatchAssumption DEF PendingType, NothingPending
  <2>2. queue \in Seq(Notifications) /\ Len(queue) <= QueueCapacity
    BY WatchAssumption
  <2>3. version \in [Paths -> Nat]
    OBVIOUS
  <2>4. scanned \in [Paths -> Int]
    BY WatchAssumption
  <2>5. remaining \in Nat \cup {Unlimited}
    BY WatchAssumption
  <2>6. initial \in BOOLEAN
    BY WatchAssumption
  <2>7. pc \in Labels
    BY DEF Labels
  <2> QED BY <2>1, <2>2, <2>3, <2>4, <2>5, <2>6, <2>7 DEF TypeOK, PendingType
<1>2. NoChangeLost
  BY DEF NoChangeLost, Scheduled
<1> QED BY <1>1, <1>2 DEF WatchInv, StartEmpty

\* TypeOK, with the type of the pending set under its name.
LEMMA PendingTyped ==
  TypeOK => pending \in PendingType /\ Cardinality(pending.paths) <= PendingCapacity
  BY DEF TypeOK, PendingType

\* The empty pending set is well-typed.
LEMMA NothingPendingType ==
  /\ NothingPending \in PendingType
  /\ Cardinality(NothingPending.paths) <= PendingCapacity
  BY PathSetSize, WatchAssumption DEF NothingPending, PendingType

\* Every step keeps the types and the limits of the inbox and the pending set.
LEMMA TypeStep == TypeOK /\ [Next]_vars => TypeOK'
<1> SUFFICES ASSUME TypeOK, [Next]_vars PROVE TypeOK'
  OBVIOUS
<1> USE PendingTyped, WatchAssumption
<1> USE DEF envVars, sharedVars, scanVars, LoopUnchanged
<1> DEFINE Fits(c) == c \in PendingType /\ Cardinality(c.paths) <= PendingCapacity
<1>1. ASSUME NEW ps \in SUBSET Paths, ChangeFiles(ps) PROVE TypeOK'
  <2>1. [kind |-> "change", paths |-> ps] \in Notifications
    BY DEF Notifications
  <2>2. version' \in [Paths -> Nat]
    BY <1>1 DEF ChangeFiles, Bump, TypeOK
  <2> QED BY <1>1, <2>1, <2>2 DEF ChangeFiles, TypeOK
<1>2. ASSUME NEW p \in Paths, RemoveFile(p) PROVE TypeOK'
  <2>1. [kind |-> "remove", paths |-> {p}] \in Notifications
    BY DEF Notifications
  <2>2. version' \in [Paths -> Nat]
    BY <1>2 DEF RemoveFile, Bump, TypeOK
  <2> QED BY <1>2, <2>1, <2>2 DEF RemoveFile, TypeOK
<1>3. CASE KernelOverflow
  <2>1. Rescan \in Notifications
    BY DEF Notifications, Rescan
  <2> QED BY <1>3, <2>1 DEF KernelOverflow, TypeOK
<1>4. ASSUME NEW n \in kernel, AdmitEvent(n) PROVE TypeOK'
  <2>1. n \in Notifications
    BY DEF TypeOK
  <2>2. queue' \in Seq(Notifications) /\ Len(queue') <= QueueCapacity
    <3>1. CASE Cardinality(n.paths) > EventCapacity \/ Len(queue) = QueueCapacity
      BY <1>4, <3>1 DEF AdmitEvent, TypeOK
    <3>2. CASE ~(Cardinality(n.paths) > EventCapacity \/ Len(queue) = QueueCapacity)
      <4>1. queue' = Append(queue, n)
        BY <1>4, <3>2 DEF AdmitEvent
      <4>2. queue \in Seq(Notifications) /\ Len(queue) < QueueCapacity
        BY <3>2 DEF TypeOK
      <4>3. queue' \in Seq(Notifications) /\ Len(queue') = Len(queue) + 1
        BY <4>1, <4>2, <2>1
      <4> QED BY <4>2, <4>3
    <3> QED BY <3>1, <3>2
  <2>3. overflow' \in BOOLEAN /\ kernel' \subseteq Notifications
    BY <1>4 DEF AdmitEvent, TypeOK
  <2> QED BY <1>4, <2>2, <2>3 DEF AdmitEvent, TypeOK
<1>5. CASE AdmitError \/ RequestShutdown
  BY <1>5 DEF AdmitError, RequestShutdown, TypeOK
<1>6. CASE Start
  <2>1. Fits(pending')
    BY <1>6, RequireFullScanType, NothingPendingType DEF Start
  <2> QED BY <1>6, <2>1 DEF Start, TypeOK, Labels, PendingType
<1>7. CASE \/ FailLoop \/ DeliveryFails \/ IdleTurn \/ WindowTimeout \/ WindowEnd
           \/ DecideShutdown \/ ScanFails
  BY <1>7 DEF FailLoop, DeliveryFails, IdleTurn, WindowTimeout, WindowEnd, DecideShutdown,
              ScanFails, TypeOK, Labels
<1>8. CASE WaitSignals \/ WindowSignals
  <2>1. Fits(pending')
    BY <1>8, TakeOverflowKeeps DEF WaitSignals, WindowSignals
  <2> QED BY <1>8, <2>1 DEF WaitSignals, WindowSignals, TypeOK, Labels, PendingType
<1>9. CASE HeartbeatDue
  <2>1. Fits(pending')
    BY <1>9, RequireFullScanType DEF HeartbeatDue
  <2> QED BY <1>9, <2>1 DEF HeartbeatDue, TypeOK, Labels, PendingType
<1>10. CASE Receive \/ WindowReceive
  <2>1. queue # <<>> /\ queue' = Tail(queue) /\ pending' = Absorb(pending, Head(queue))
    BY <1>10 DEF Receive, WindowReceive
  <2>2. Head(queue) \in Notifications /\ queue' \in Seq(Notifications) /\ Len(queue') <= QueueCapacity
    BY <2>1 DEF TypeOK
  <2>3. Fits(pending')
    BY <2>1, <2>2, AbsorbKeeps
  <2> QED BY <1>10, <2>2, <2>3 DEF Receive, WindowReceive, TypeOK, Labels, PendingType
<1>11. ASSUME NEW h \in BOOLEAN, Decide(h) PROVE TypeOK'
  <2> DEFINE c == IF h THEN RequireFullScan(TakeOverflow(pending)) ELSE TakeOverflow(pending)
  <2>1. Fits(c)
    BY TakeOverflowKeeps, RequireFullScanType
  <2>2. full' = NeedsFull(c) /\ todo' = (IF NeedsFull(c) THEN {} ELSE c.paths)
    BY <1>11 DEF Decide
  <2>3. NeedsFull(c) \in BOOLEAN
    BY DEF NeedsFull
  <2>4. pc' \in Labels
    BY <1>11 DEF Decide, Labels
  <2>5. todo' \subseteq Paths
    BY <2>1, <2>2 DEF PendingType
  <2>6. full' \in BOOLEAN
    BY <2>2, <2>3
  <2>7. Fits(pending')
    BY <1>11, NothingPendingType DEF Decide
  <2> QED BY <1>11, <2>4, <2>5, <2>6, <2>7 DEF Decide, TypeOK, PendingType
<1>12. CASE Discover
  <2>1. scanned' \in [Paths -> Int]
    BY <1>12 DEF Discover, TypeOK
  <2> QED BY <1>12, <2>1 DEF Discover, TypeOK, Labels
<1>13. ASSUME NEW p \in Paths, ReadSource(p) PROVE TypeOK'
  <2>1. scanned' \in [Paths -> Int]
    BY <1>13 DEF ReadSource, TypeOK
  <2> QED BY <1>13, <2>1 DEF ReadSource, TypeOK, Labels
<1>14. CASE EndScan
  <2>1. remaining' \in Nat \cup {Unlimited}
    BY <1>14 DEF EndScan, BudgetExhausted, Unlimited, TypeOK
  <2>2. initial' \in BOOLEAN
    BY <1>14 DEF EndScan
  <2>3. index' \subseteq Paths
    BY <1>14 DEF EndScan, TypeOK
  <2>4. pc' \in Labels
    BY <1>14 DEF EndScan, Labels
  <2> QED BY <1>14, <2>1, <2>2, <2>3, <2>4 DEF EndScan, TypeOK
<1>15. CASE UNCHANGED vars
  BY <1>15 DEF vars, TypeOK
<1> QED
  BY <1>1, <1>2, <1>3, <1>4, <1>5, <1>6, <1>7, <1>8, <1>9, <1>10, <1>11, <1>12, <1>13, <1>14,
     <1>15 DEF Next, LoopStep, NotifyStep, Environment


\* Every step keeps a way to each change that no scan has seen.
LEMMA NoChangeLostStep == WatchInv /\ [Next]_vars => NoChangeLost'
<1> SUFFICES ASSUME TypeOK, NoChangeLost, StartEmpty, [Next]_vars,
                    NEW p \in Paths, scanned'[p] # version'[p]
             PROVE  (pc = "stopped" \/ Notified(p) \/ Noted(p) \/ Scheduled(p))'
  BY DEF WatchInv, NoChangeLost
<1> DEFINE Safe == pc = "stopped" \/ Notified(p) \/ Noted(p) \/ Scheduled(p)
<1> USE PendingTyped
<1> USE DEF envVars, sharedVars, scanVars, LoopUnchanged
<1>a. scanned[p] # version[p] => Safe
  BY DEF NoChangeLost
<1> SUFFICES Safe'
  OBVIOUS
<1> HIDE DEF Safe
<1>1. ASSUME NEW ps \in SUBSET Paths, ChangeFiles(ps) PROVE Safe'
  <2>1. CASE p \in ps
    <3> DEFINE n == [kind |-> "change", paths |-> ps]
    <3>1. n \in kernel' /\ Announces(n, p)
      BY <1>1, <2>1 DEF ChangeFiles, Announces
    <3> QED BY <3>1 DEF Safe, Notified
  <2>2. CASE p \notin ps
    <3>1. version'[p] = version[p] /\ scanned' = scanned
      BY <1>1, <2>2 DEF ChangeFiles, Bump
    <3>2. Safe
      BY <3>1, <1>a
    <3> QED BY <3>2, <1>1 DEF Safe, ChangeFiles, Notified, Noted, Scheduled
  <2> QED BY <2>1, <2>2
<1>2. ASSUME NEW q \in Paths, RemoveFile(q) PROVE Safe'
  <2>1. CASE p = q
    <3> DEFINE n == [kind |-> "remove", paths |-> {q}]
    <3>1. n \in kernel' /\ Announces(n, p)
      BY <1>2, <2>1 DEF RemoveFile, Announces
    <3> QED BY <3>1 DEF Safe, Notified
  <2>2. CASE p # q
    <3>1. version'[p] = version[p] /\ scanned' = scanned
      BY <1>2, <2>2 DEF RemoveFile, Bump
    <3>2. Safe
      BY <3>1, <1>a
    <3> QED BY <3>2, <1>2 DEF Safe, RemoveFile, Notified, Noted, Scheduled
  <2> QED BY <2>1, <2>2
<1>3. CASE KernelOverflow
  <2>1. Rescan \in kernel' /\ Announces(Rescan, p)
    BY <1>3 DEF KernelOverflow, Announces, Rescan
  <2> QED BY <2>1 DEF Safe, Notified
<1>4. ASSUME NEW n \in kernel, AdmitEvent(n) PROVE Safe'
  <2>1. Safe
    BY <1>4, <1>a DEF AdmitEvent
  <2>2. CASE Cardinality(n.paths) > EventCapacity \/ Len(queue) = QueueCapacity
    BY <1>4, <2>2 DEF AdmitEvent, Safe, Noted
  <2>3. CASE ~(Cardinality(n.paths) > EventCapacity \/ Len(queue) = QueueCapacity)
    <3>1. queue' = Append(queue, n) /\ overflow' = overflow
      BY <1>4, <2>3 DEF AdmitEvent
    <3>2. queue \in Seq(Notifications) /\ n \in Notifications
      BY DEF TypeOK
    <3>3. queue'[Len(queue) + 1] = n /\ Len(queue) + 1 \in DOMAIN queue'
      BY <3>1, <3>2
    <3>4. \A i \in DOMAIN queue : i \in DOMAIN queue' /\ queue'[i] = queue[i]
      BY <3>1, <3>2
    <3>5. Notified(p) => Notified(p)'
      BY <1>4, <3>3, <3>4 DEF Notified, AdmitEvent, Announces
    <3>6. Noted(p) => Noted(p)'
      BY <1>4, <3>1 DEF Noted, AdmitEvent
    <3> QED BY <2>1, <3>5, <3>6, <1>4 DEF Safe, Scheduled, AdmitEvent
  <2> QED BY <2>2, <2>3
<1>5. CASE AdmitError \/ RequestShutdown
  BY <1>5, <1>a DEF AdmitError, RequestShutdown, Safe, Notified, Noted, Scheduled
<1>6. CASE Start
  <2>1. Safe /\ pending = NothingPending
    BY <1>6, <1>a DEF Start, StartEmpty
  <2>2. CASE initial
    <3>1. pending'.rescan
      BY <1>6, <2>2, RequireFullScanType, NothingPendingType DEF Start
    <3> QED BY <3>1 DEF Safe, Noted
  <2>3. CASE ~initial
    BY <1>6, <2>1, <2>3 DEF Start, Safe, Notified, Noted, Scheduled
  <2> QED BY <2>2, <2>3
<1>7. CASE FailLoop \/ DeliveryFails \/ DecideShutdown \/ ScanFails
  BY <1>7 DEF FailLoop, DeliveryFails, DecideShutdown, ScanFails, Safe
<1>8. CASE IdleTurn \/ WindowTimeout \/ WindowEnd
  BY <1>8, <1>a DEF IdleTurn, WindowTimeout, WindowEnd, Safe, Notified, Noted, Scheduled
<1>9. CASE WaitSignals \/ WindowSignals
  <2>1. Safe /\ pc \notin {"stopped", "start", "discover", "scan"}
    BY <1>9, <1>a DEF WaitSignals, WindowSignals
  <2>2. Noted(p) => Noted(p)'
    BY <1>9, TakeOverflowKeeps DEF Noted, WaitSignals, WindowSignals
  <2>3. Notified(p) => Notified(p)'
    BY <1>9 DEF Notified, WaitSignals, WindowSignals
  <2> QED BY <2>1, <2>2, <2>3 DEF Safe, Scheduled
<1>10. CASE HeartbeatDue
  BY <1>10, RequireFullScanType DEF HeartbeatDue, Safe, Noted
<1>11. CASE Receive \/ WindowReceive
  <2>1. Safe /\ pc \notin {"stopped", "start", "discover", "scan"}
    BY <1>11, <1>a DEF Receive, WindowReceive
  <2>2. queue # <<>> /\ queue' = Tail(queue) /\ pending' = Absorb(pending, Head(queue))
    BY <1>11 DEF Receive, WindowReceive
  <2>3. queue \in Seq(Notifications) /\ Head(queue) \in Notifications
    BY <2>2 DEF TypeOK
  <2>4. Noted(p) => Noted(p)'
    BY <1>11, <2>2, <2>3, AbsorbKeeps DEF Noted, Receive, WindowReceive
  <2>5. ASSUME NEW i \in DOMAIN queue, i # 1
        PROVE  i - 1 \in DOMAIN queue' /\ queue'[i - 1] = queue[i]
    <3>1. i \in 1..Len(queue) /\ DOMAIN queue' = 1..(Len(queue) - 1)
      BY <2>2, <2>3
    <3>2. i - 1 \in 1..(Len(queue) - 1)
      BY <2>3, <2>5, <3>1
    <3> QED BY <2>2, <2>3, <3>1, <3>2
  <2>6. Announces(queue[1], p) => Noted(p)'
    BY <2>2, <2>3, AbsorbKeeps DEF Noted
  <2>7. Notified(p) => Notified(p)' \/ Noted(p)'
    BY <1>11, <2>5, <2>6 DEF Notified, Receive, WindowReceive
  <2> QED BY <2>1, <2>4, <2>7 DEF Safe, Scheduled
<1>12. ASSUME NEW h \in BOOLEAN, Decide(h) PROVE Safe'
  <2> DEFINE t == TakeOverflow(pending)
             c == IF h THEN RequireFullScan(t) ELSE t
  <2>1. Safe /\ pc = "decide"
    BY <1>12, <1>a DEF Decide
  <2>2. t \in PendingType
    BY TakeOverflowKeeps
  <2>3. Noted(p) => t.rescan \/ t.remove \/ p \in t.paths
    BY TakeOverflowKeeps DEF Noted
  <2>4. Noted(p) => c.rescan \/ c.remove \/ p \in c.paths
    BY <2>2, <2>3, RequireFullScanType
  <2>5. Notified(p) => Notified(p)'
    BY <1>12 DEF Notified, Decide
  <2>6. /\ todo' = (IF NeedsFull(c) THEN {} ELSE c.paths)
        /\ pc' = IF NeedsFull(c) THEN "discover" ELSE IF c.paths = {} THEN "wait" ELSE "scan"
    BY <1>12 DEF Decide
  <2> HIDE DEF c
  <2>7. Noted(p) => Scheduled(p)'
    BY <2>4, <2>6 DEF NeedsFull, Scheduled
  <2> QED BY <2>1, <2>5, <2>7 DEF Safe, Scheduled
<1>13. CASE Discover
  BY <1>13 DEF Discover, Safe, Scheduled
<1>14. ASSUME NEW q \in Paths, ReadSource(q) PROVE Safe'
  <2>1. p # q
    BY <1>14 DEF ReadSource, TypeOK
  <2>2. Safe
    BY <1>14, <1>a, <2>1 DEF ReadSource, TypeOK
  <2> QED BY <1>14, <2>1, <2>2 DEF ReadSource, Safe, Notified, Noted, Scheduled
<1>15. CASE EndScan
  <2>1. Safe
    BY <1>15, <1>a DEF EndScan
  <2> QED BY <1>15, <2>1 DEF EndScan, Safe, Notified, Noted, Scheduled
<1>16. CASE UNCHANGED vars
  BY <1>16, <1>a DEF vars, Safe, Notified, Noted, Scheduled
<1> QED
  BY <1>1, <1>2, <1>3, <1>4, <1>5, <1>6, <1>7, <1>8, <1>9, <1>10, <1>11, <1>12, <1>13, <1>14,
     <1>15, <1>16 DEF Next, LoopStep, NotifyStep, Environment

\* Nothing is collected before the loop starts, and the loop never returns there.
LEMMA StartEmptyStep == TypeOK /\ StartEmpty /\ [Next]_vars => StartEmpty'
  BY DEF StartEmpty, Next, LoopStep, NotifyStep, Environment, vars, envVars, sharedVars, scanVars,
         LoopUnchanged, ChangeFiles, RemoveFile, KernelOverflow, AdmitEvent, AdmitError,
         RequestShutdown, Start, FailLoop, WaitSignals, HeartbeatDue, DeliveryFails, IdleTurn,
         Receive,
         WindowSignals, WindowReceive, WindowTimeout, WindowEnd, Decide, DecideShutdown, Discover,
         ReadSource, ScanFails, EndScan

\* The inductive invariant of the watch loop.
THEOREM WatchInvariant == Spec => []WatchInv
<1>1. WatchInv /\ [Next]_vars => WatchInv'
  BY TypeStep, NoChangeLostStep, StartEmptyStep DEF WatchInv
<1> QED BY <1>1, InitWatch, PTL DEF Spec

\* The notification channel and the pending set keep their limits and every
\* variable its type, for all capacities (WATCH_NOTIFICATION_CAPACITY,
\* WATCH_PENDING_PATH_CAPACITY) and every set of session files.
THEOREM WatchTypeCorrect == Spec => []TypeOK
<1>1. WatchInv => TypeOK
  BY DEF WatchInv
<1> QED BY <1>1, WatchInvariant, PTL

\* run_watch loses no change, for all capacities of the channel, the events and
\* the pending set: while a file is newer than what a scan saw of it, a
\* notification, the overflow flag, the pending set or the scan leads to it.
THEOREM WatchLosesNothing == Spec => []NoChangeLost
<1>1. WatchInv => NoChangeLost
  BY DEF WatchInv
<1> QED BY <1>1, WatchInvariant, PTL
=============================================================================
