------------------------- MODULE DurableOutboxProofs -------------------------
(***************************************************************************)
(* Proofs about DurableOutbox for any number of processes, files, sinks    *)
(* and events: type correctness; that no record which reached the journal  *)
(* is lost; that the pipeline implements AtLeastOnce; and that delivery    *)
(* rows follow the ingested events, the queue stays within its limit and   *)
(* reconciliation accepts whatever crashes, rotations and prunes leave     *)
(* behind.                                                                 *)
(***************************************************************************)
EXTENDS DurableOutbox, FiniteSetTheorems, TLAPS

-----------------------------------------------------------------------------
(* The inductive invariant.                                                *)

\* A batch that was started fits the event numbers.
BatchFits == minted + todo <= MaxEvents

AdmissionLabels == {"recover", "predrain", "capacity", "append", "open", "write",
                    "reconcile", "drain"}
JsonlLabels == {"open", "write", "pruning", "unlinked"}

\* Whoever works on the outbox or on the files holds the lock for it, and an
\* open removal has its file.
LocksHeld ==
  \A p \in Procs : /\ pc[p] \in AdmissionLabels => admission = p
                   /\ pc[p] \in JsonlLabels => jsonl = p
                   /\ pc[p] = "unlinked" => victim \in Gens

\* Only the active file can end in a partial record.
TornActive == torn \subseteq ActiveGen

\* The cursor points into a file that is still there.
CursorListed ==
  cursor # NoCursor => cursor.gen \in Listed /\ cursor.off <= Len(recs[cursor.gen])

\* Between the first reconciliation of a persist and its append nothing is unread.
QuietLabels == {"predrain", "capacity", "append"}
CaughtUp == \A p \in Procs : pc[p] \in QuietLabels => Written \subseteq stored

TypeInv == TypeOK /\ BatchFits
DataInv == TornActive /\ CursorListed /\ NoRecordLost
SafeInv == TypeInv /\ LocksHeld /\ DataInv /\ CaughtUp

-----------------------------------------------------------------------------
(* Names.                                                                  *)

LEMMA ProductMonotone ==
  ASSUME NEW a \in Nat, NEW b \in Nat, NEW c \in Nat, a <= b
  PROVE  a * c <= b * c
OBVIOUS

LEMMA ActiveNameNat == ActiveName \in Nat /\ ActiveName > 0
<1>1. Days \in Nat \ {0} /\ Counters \in Nat \ {0}
  BY ConstantsAssumption DEF ConstantsAssumption
<1>2. 1 * Counters <= Days * Counters
  BY <1>1, ProductMonotone
<1> QED BY <1>1, <1>2 DEF ActiveName

\* Every rotated name sorts before the active file.
LEMMA NamesBeforeActive ==
  ASSUME NEW d \in 0..(Days - 1), NEW n \in NamesOf(d)
  PROVE  n \in Nat /\ n < ActiveName
<1>1. Days \in Nat \ {0} /\ Counters \in Nat \ {0} /\ d \in Nat
  BY ConstantsAssumption DEF ConstantsAssumption
<1>2. (d + 1) * Counters <= Days * Counters
  BY <1>1, ProductMonotone
<1>3. (d + 1) * Counters = d * Counters + Counters /\ d * Counters \in Nat
  BY <1>1
<1> QED BY <1>1, <1>2, <1>3 DEF ActiveName, NamesOf

-----------------------------------------------------------------------------
(* Lock discipline and type correctness.                                   *)

LEMMA LeaveLocks ==
  ASSUME TypeOK, LocksHeld, NEW p \in Procs, Leave(p)
  PROVE  LocksHeld'
<1>1. p # NoProc
  BY ConstantsAssumption DEF ConstantsAssumption
<1>2. pc' = [pc EXCEPT ![p] = "idle"]
  BY DEF Leave
<1> SUFFICES ASSUME NEW q \in Procs
             PROVE  /\ pc'[q] \in AdmissionLabels => admission' = q
                    /\ pc'[q] \in JsonlLabels => jsonl' = q
                    /\ pc'[q] = "unlinked" => victim' \in Gens
  BY DEF LocksHeld
<1>3. CASE q = p
  BY <1>2, <1>3 DEF TypeOK, AdmissionLabels, JsonlLabels
<1>4. CASE q # p
  BY <1>2, <1>4 DEF TypeOK, Leave, LocksHeld, JsonlLabels
<1> QED BY <1>3, <1>4

LEMMA LocksStep == TypeOK /\ LocksHeld /\ [Next]_vars => LocksHeld'
<1> SUFFICES ASSUME TypeOK, LocksHeld, [Next]_vars PROVE LocksHeld'
  OBVIOUS
<1>0. NoProc \notin Procs
  BY ConstantsAssumption DEF ConstantsAssumption
<1>1. ASSUME NEW p \in Procs, NEW n \in 0..MaxBatch, StartPersist(p, n) PROVE LocksHeld'
  BY <1>1, <1>0 DEF StartPersist, LocksHeld, TypeOK, Goto, AfterReconcile, AdmissionLabels, JsonlLabels, lockVars
<1>2. ASSUME NEW p \in Procs, ReconcileEmpty(p) PROVE LocksHeld'
  BY <1>2, <1>0 DEF ReconcileEmpty, LocksHeld, TypeOK, Goto, AfterReconcile, AdmissionLabels, JsonlLabels, lockVars
<1>3. ASSUME NEW p \in Procs, ReconcileRefuses(p) PROVE LocksHeld'
  BY <1>3, LeaveLocks DEF ReconcileRefuses
<1>4. ASSUME NEW p \in Procs, NEW g \in Gens, Reconcile(p, g) PROVE LocksHeld'
  BY <1>4, <1>0 DEF Reconcile, LocksHeld, TypeOK, Goto, AfterReconcile, AdmissionLabels, JsonlLabels, lockVars
<1>5. ASSUME NEW p \in Procs, EndPredrain(p) PROVE LocksHeld'
  BY <1>5, <1>0 DEF EndPredrain, LocksHeld, TypeOK, Goto, AfterReconcile, AdmissionLabels, JsonlLabels, lockVars
<1>6. ASSUME NEW p \in Procs, Admit(p) PROVE LocksHeld'
  BY <1>6, <1>0 DEF Admit, LocksHeld, TypeOK, Goto, AfterReconcile, AdmissionLabels, JsonlLabels, lockVars
<1>7. ASSUME NEW p \in Procs, RejectFull(p) PROVE LocksHeld'
  BY <1>7, LeaveLocks DEF RejectFull
<1>8. ASSUME NEW p \in Procs, RefuseTornTail(p) PROVE LocksHeld'
  BY <1>8, LeaveLocks DEF RefuseTornTail
<1>9. ASSUME NEW p \in Procs, JsonlBusy(p) PROVE LocksHeld'
  BY <1>9, LeaveLocks DEF JsonlBusy
<1>10. ASSUME NEW p \in Procs, KeepActive(p) PROVE LocksHeld'
  BY <1>10, <1>0 DEF KeepActive, LocksHeld, TypeOK, Goto, AfterReconcile, AdmissionLabels, JsonlLabels, lockVars
<1>11. ASSUME NEW p \in Procs, NEW g \in Gens, NEW n \in NamesOf(today), Rotate(p, g, n) PROVE LocksHeld'
  BY <1>11, <1>0 DEF Rotate, LocksHeld, TypeOK, Goto, AfterReconcile, AdmissionLabels, JsonlLabels, lockVars
<1>12. ASSUME NEW p \in Procs, OpenActive(p) PROVE LocksHeld'
  BY <1>12, <1>0 DEF OpenActive, LocksHeld, TypeOK, Goto, AfterReconcile, AdmissionLabels, JsonlLabels, lockVars
<1>13. ASSUME NEW p \in Procs, NEW g \in Gens, CreateActive(p, g) PROVE LocksHeld'
  BY <1>13, <1>0 DEF CreateActive, LocksHeld, TypeOK, Goto, AfterReconcile, AdmissionLabels, JsonlLabels, lockVars
<1>14. ASSUME NEW p \in Procs, NEW g \in Gens, WriteRecord(p, g) PROVE LocksHeld'
  BY <1>14, <1>0 DEF WriteRecord, LocksHeld, TypeOK, Goto, AfterReconcile, AdmissionLabels, JsonlLabels, lockVars
<1>15. ASSUME NEW p \in Procs, EndAppend(p) PROVE LocksHeld'
  BY <1>15, <1>0 DEF EndAppend, LocksHeld, TypeOK, Goto, AfterReconcile, AdmissionLabels, JsonlLabels, lockVars
<1>16. ASSUME NEW p \in Procs, StartDeliver(p) PROVE LocksHeld'
  BY <1>16, <1>0 DEF StartDeliver, LocksHeld, TypeOK, Goto, AfterReconcile, AdmissionLabels, JsonlLabels, lockVars
<1>17. ASSUME NEW p \in Procs, NEW e \in Events, NEW s \in Sinks, NEW o \in Outcomes,
             NEW a \in BOOLEAN, Transport(p, e, s, o, a) PROVE LocksHeld'
  BY <1>17, <1>0 DEF Transport, LocksHeld, TypeOK, Goto, AfterReconcile, AdmissionLabels, JsonlLabels, lockVars
<1>18. ASSUME NEW p \in Procs, RecordDelivery(p) PROVE LocksHeld'
  BY <1>18, <1>0 DEF RecordDelivery, LocksHeld, TypeOK, Goto, AfterReconcile, AdmissionLabels, JsonlLabels, lockVars
<1>19. ASSUME NEW p \in Procs, EndDeliver(p) PROVE LocksHeld'
  BY <1>19, <1>0 DEF EndDeliver, LocksHeld, TypeOK, Goto, AfterReconcile, AdmissionLabels, JsonlLabels, lockVars
<1>20. ASSUME NEW p \in Procs, PruneSkipped(p) PROVE LocksHeld'
  BY <1>20, LeaveLocks DEF PruneSkipped
<1>21. ASSUME NEW p \in Procs, StartPrune(p) PROVE LocksHeld'
  BY <1>21, <1>0 DEF StartPrune, LocksHeld, TypeOK, Goto, AfterReconcile, AdmissionLabels, JsonlLabels, lockVars
<1>22. ASSUME NEW p \in Procs, FinalizePrune(p) PROVE LocksHeld'
  BY <1>22, <1>0 DEF FinalizePrune, LocksHeld, TypeOK, Goto, AfterReconcile, AdmissionLabels, JsonlLabels, lockVars
<1>23. ASSUME NEW p \in Procs, EndPrune(p) PROVE LocksHeld'
  BY <1>23, LeaveLocks DEF EndPrune
<1>24. ASSUME NEW p \in Procs, NEW g \in Gens, FinalizeAbsent(p, g) PROVE LocksHeld'
  BY <1>24, <1>0 DEF FinalizeAbsent, LocksHeld, TypeOK, Goto, AfterReconcile, AdmissionLabels, JsonlLabels, lockVars
<1>25. ASSUME NEW p \in Procs, NEW g \in Gens, RestorePresent(p, g) PROVE LocksHeld'
  BY <1>25, <1>0 DEF RestorePresent, LocksHeld, TypeOK, Goto, AfterReconcile, AdmissionLabels, JsonlLabels, lockVars
<1>26. ASSUME NEW p \in Procs, NEW g \in Gens, Unlink(p, g) PROVE LocksHeld'
  BY <1>26, <1>0 DEF Unlink, LocksHeld, TypeOK, Goto, AfterReconcile, AdmissionLabels, JsonlLabels, lockVars
<1>27. ASSUME NEW p \in Procs, NEW g \in Gens, ClaimForPrune(p, g) PROVE LocksHeld'
  BY <1>27, <1>0 DEF ClaimForPrune, LocksHeld, TypeOK, Goto, AfterReconcile, AdmissionLabels, JsonlLabels, lockVars
<1>28. ASSUME NEW p \in Procs, Crash(p) PROVE LocksHeld'
  BY <1>28, LeaveLocks DEF Crash
<1>29. ASSUME NEW p \in Procs, DispatchFails(p) PROVE LocksHeld'
  BY <1>29, LeaveLocks DEF DispatchFails
<1>30. ASSUME NEW p \in Procs, NEW g \in Gens, TearRecord(p, g) PROVE LocksHeld'
  BY <1>30, LeaveLocks DEF TearRecord
<1>31. ASSUME NEW p \in Procs, NEW g \in Gens, RecoverFails(p, g) PROVE LocksHeld'
  BY <1>31, <1>0 DEF RecoverFails, LocksHeld, TypeOK, Goto, AfterReconcile, AdmissionLabels, JsonlLabels, lockVars
<1>32. ASSUME NEW s \in Sinks, ReleaseBlocked(s) PROVE LocksHeld'
  BY <1>32, <1>0 DEF ReleaseBlocked, LocksHeld, TypeOK, Goto, AfterReconcile, AdmissionLabels, JsonlLabels, lockVars
<1>33. ASSUME NextDay PROVE LocksHeld'
  BY <1>33, <1>0 DEF NextDay, LocksHeld, TypeOK, Goto, AfterReconcile, AdmissionLabels, JsonlLabels, lockVars
<1>34. ASSUME NEW g \in Gens, RepairTail(g) PROVE LocksHeld'
  BY <1>34, <1>0 DEF RepairTail, LocksHeld, TypeOK, Goto, AfterReconcile, AdmissionLabels, JsonlLabels, lockVars
<1>35. ASSUME UNCHANGED vars PROVE LocksHeld'
  BY <1>35 DEF vars, LocksHeld
<1>36. ASSUME NEW p \in Procs, PersistStep(p) PROVE LocksHeld'
  BY <1>36, <1>1, <1>2, <1>3, <1>4, <1>5, <1>6, <1>7, <1>8, <1>9, <1>10, <1>11, <1>12, <1>13, <1>14, <1>15
  DEF PersistStep
<1>37. ASSUME NEW p \in Procs, DispatchStep(p) PROVE LocksHeld'
  BY <1>37, <1>16, <1>17, <1>18, <1>19
  DEF DispatchStep
<1>38. ASSUME NEW p \in Procs, PruneStep(p) PROVE LocksHeld'
  BY <1>38, <1>20, <1>21, <1>22, <1>23, <1>24, <1>25, <1>26, <1>27
  DEF PruneStep
<1>39. ASSUME NEW p \in Procs, Fault(p) PROVE LocksHeld'
  BY <1>39, <1>28, <1>29, <1>30, <1>31
  DEF Fault
<1>40. ASSUME Environment PROVE LocksHeld'
  BY <1>40, <1>32, <1>33, <1>34 DEF Environment
<1> QED BY <1>35, <1>36, <1>37, <1>38, <1>39, <1>40 DEF Next

LEMMA InitType == Init => TypeInv
<1> SUFFICES ASSUME Init PROVE TypeInv
  OBVIOUS
<1>1. ActiveName \in Nat /\ Absent \in Absent..ActiveName
  BY ActiveNameNat DEF Absent
<1>2. dir \in [Gens -> Absent..ActiveName] /\ recs \in [Gens -> Seq(Nat)]
  BY <1>1 DEF Init
<1>3. MaxEvents \in Nat /\ Days \in Nat \ {0}
  BY ConstantsAssumption DEF ConstantsAssumption
<1>4. cursor \in [gen : Gens \cup {NoGen}, off : Nat, seen : Nat]
  BY DEF Init, NoCursor
<1>5. row \in [Events \X Sinks -> {"none"} \cup Outcomes]
  BY DEF Init
<1>6. pc \in [Procs -> Labels] /\ life \in [Gens -> {"none", "present", "prune_pending", "pruned"}]
  BY DEF Init, Labels
<1> QED BY <1>2, <1>3, <1>4, <1>5, <1>6 DEF Init, TypeInv, TypeOK, BatchFits

LEMMA LeaveLocals ==
  ASSUME TypeOK, NEW p \in Procs, Leave(p)
  PROVE  /\ pc' \in [Procs -> Labels]
         /\ admission' \in Procs \cup {NoProc} /\ jsonl' \in Procs \cup {NoProc}
         /\ todo' \in Nat /\ todo' <= todo
         /\ flight' \subseteq Events \X Sinks \X Outcomes
         /\ tried' \subseteq Gens /\ victim' \in Gens \cup {NoGen}
BY DEF TypeOK, Leave, Labels

LEMMA SumBound ==
  ASSUME NEW a \in Nat, NEW b \in Nat, NEW c \in Nat, NEW m \in Nat, c <= b, a + b <= m
  PROVE  a + c <= m
OBVIOUS

LEMMA LeaveType ==
  ASSUME TypeInv, NEW p \in Procs, Leave(p), UNCHANGED <<fileVars, dbVars, received>>
  PROVE  TypeInv'
<1>1. /\ pc' \in [Procs -> Labels]
      /\ admission' \in Procs \cup {NoProc} /\ jsonl' \in Procs \cup {NoProc}
      /\ todo' \in Nat /\ todo' <= todo
      /\ flight' \subseteq Events \X Sinks \X Outcomes
      /\ tried' \subseteq Gens /\ victim' \in Gens \cup {NoGen}
  BY LeaveLocals DEF TypeInv
<1>2. MaxEvents \in Nat
  BY ConstantsAssumption DEF ConstantsAssumption
<1>3. BatchFits'
  <2>1. minted \in Nat /\ todo \in Nat /\ minted' = minted
    BY <1>2 DEF TypeInv, TypeOK, fileVars
  <2>2. minted + todo <= MaxEvents
    BY DEF TypeInv, BatchFits
  <2>3. todo' \in Nat /\ todo' <= todo
    BY <1>1
  <2>4. minted' + todo' <= MaxEvents
    BY <2>1, <2>2, <2>3, <1>2, SumBound
  <2> QED BY <2>4 DEF BatchFits
<1>4. TypeOK'
  BY <1>1 DEF TypeInv, TypeOK, fileVars, dbVars
<1> QED BY <1>3, <1>4 DEF TypeInv

LEMMA StartOfNat ==
  ASSUME TypeOK, NEW g \in Gens
  PROVE  StartOf(g) \in Nat \ {0}
BY DEF TypeOK, StartOf

LEMMA PayloadsNat ==
  ASSUME TypeOK, NEW g \in Gens, NEW i \in StartOf(g)..Len(recs[g])
  PROVE  i \in DOMAIN recs[g] /\ recs[g][i] \in Nat
<1>1. recs[g] \in Seq(Nat)
  BY DEF TypeOK
<1>2. i \in 1..Len(recs[g])
  BY <1>1, StartOfNat
<1> QED BY <1>1, <1>2

LEMMA ReconcileType ==
  ASSUME TypeInv, NEW p \in Procs, NEW last \in Gens, Reconcile(p, last)
  PROVE  /\ stored' \subseteq Nat
         /\ origins' \subseteq Gens \X Nat \X Nat
         /\ cursor' \in [gen : Gens \cup {NoGen}, off : Nat, seen : Nat]
<1> USE DEF TypeInv
<1>1. ReadEvents \subseteq Nat
  BY PayloadsNat DEF ReadEvents, ReadGens, UnreadGens, PayloadsOf
<1>2. UNION {{<<g, i, recs[g][i]>> : i \in StartOf(g)..Len(recs[g])} : g \in ReadGens}
        \subseteq Gens \X Nat \X Nat
  <2> SUFFICES ASSUME NEW g \in ReadGens, NEW i \in StartOf(g)..Len(recs[g])
               PROVE  <<g, i, recs[g][i]>> \in Gens \X Nat \X Nat
    OBVIOUS
  <2>1. g \in Gens
    BY DEF ReadGens, UnreadGens
  <2>2. recs[g] \in Seq(Nat)
    BY <2>1 DEF TypeOK
  <2>3. i \in Nat /\ recs[g][i] \in Nat
    BY <2>1, <2>2, PayloadsNat, StartOfNat
  <2> QED BY <2>1, <2>3
<1>3. Len(recs[last]) \in Nat /\ Size(last) \in Nat
  BY DEF TypeOK, Size
<1>4. cursor' \in [gen : Gens \cup {NoGen}, off : Nat, seen : Nat]
  BY <1>3 DEF Reconcile, TypeOK
<1> QED BY <1>1, <1>2, <1>4 DEF Reconcile, TypeOK

LEMMA TypeStep == TypeInv /\ LocksHeld /\ [Next]_vars => TypeInv'
<1> SUFFICES ASSUME TypeInv, LocksHeld, [Next]_vars PROVE TypeInv'
  OBVIOUS
<1>0. /\ ActiveName \in Nat /\ Absent \in Absent..ActiveName /\ ActiveName \in Absent..ActiveName
      /\ MaxEvents \in Nat /\ Days \in Nat \ {0}
  BY ActiveNameNat, ConstantsAssumption DEF ConstantsAssumption, Absent
<1>1. ASSUME NEW p \in Procs, NEW n \in 0..MaxBatch, StartPersist(p, n) PROVE TypeInv'
  BY <1>1, <1>0 DEF StartPersist, TypeInv, TypeOK, BatchFits, Goto, Labels, fileVars, dbVars, lockVars
<1>2. ASSUME NEW p \in Procs, ReconcileEmpty(p) PROVE TypeInv'
  BY <1>2, <1>0 DEF ReconcileEmpty, AfterReconcile, TypeInv, TypeOK, BatchFits, Goto, Labels, fileVars, dbVars, lockVars
<1>3. ASSUME NEW p \in Procs, ReconcileRefuses(p) PROVE TypeInv'
  BY <1>3, LeaveType DEF ReconcileRefuses
<1>4. ASSUME NEW p \in Procs, NEW g \in Gens, Reconcile(p, g) PROVE TypeInv'
  <2>1. /\ stored' \subseteq Nat /\ origins' \subseteq Gens \X Nat \X Nat
        /\ cursor' \in [gen : Gens \cup {NoGen}, off : Nat, seen : Nat]
    BY <1>4, ReconcileType
  <2>2. row' \in [Events \X Sinks -> {"none"} \cup Outcomes]
    BY <1>4 DEF Reconcile, TypeInv, TypeOK, Outcomes
  <2>3. life' \in [Gens -> {"none", "present", "prune_pending", "pruned"}]
    BY <1>4 DEF Reconcile, TypeInv, TypeOK
  <2>4. pc' \in [Procs -> Labels]
    BY <1>4 DEF Reconcile, AfterReconcile, Goto, TypeInv, TypeOK, Labels
  <2> QED BY <1>4, <2>1, <2>2, <2>3, <2>4 DEF Reconcile, TypeInv, TypeOK, BatchFits, fileVars, lockVars
<1>5. ASSUME NEW p \in Procs, EndPredrain(p) PROVE TypeInv'
  BY <1>5, <1>0 DEF EndPredrain, TypeInv, TypeOK, BatchFits, Goto, Labels, fileVars, dbVars, lockVars
<1>6. ASSUME NEW p \in Procs, Admit(p) PROVE TypeInv'
  BY <1>6, <1>0 DEF Admit, TypeInv, TypeOK, BatchFits, Goto, Labels, fileVars, dbVars, lockVars
<1>7. ASSUME NEW p \in Procs, RejectFull(p) PROVE TypeInv'
  BY <1>7, LeaveType DEF RejectFull
<1>8. ASSUME NEW p \in Procs, RefuseTornTail(p) PROVE TypeInv'
  BY <1>8, LeaveType DEF RefuseTornTail
<1>9. ASSUME NEW p \in Procs, JsonlBusy(p) PROVE TypeInv'
  BY <1>9, LeaveType DEF JsonlBusy
<1>10. ASSUME NEW p \in Procs, KeepActive(p) PROVE TypeInv'
  BY <1>10, <1>0 DEF KeepActive, TypeInv, TypeOK, BatchFits, Goto, Labels, fileVars, dbVars, lockVars
<1>11. ASSUME NEW p \in Procs, NEW g \in Gens, NEW n \in NamesOf(today), Rotate(p, g, n) PROVE TypeInv'
  <2>1. n \in Absent..ActiveName
    BY NamesBeforeActive, <1>0 DEF TypeInv, TypeOK, Absent
  <2> QED BY <1>11, <2>1 DEF Rotate, TypeInv, TypeOK, BatchFits, Goto, Labels, dbVars
<1>12. ASSUME NEW p \in Procs, OpenActive(p) PROVE TypeInv'
  BY <1>12, <1>0 DEF OpenActive, TypeInv, TypeOK, BatchFits, Goto, Labels, fileVars, dbVars, lockVars
<1>13. ASSUME NEW p \in Procs, NEW g \in Gens, CreateActive(p, g) PROVE TypeInv'
  BY <1>13, <1>0 DEF CreateActive, TypeInv, TypeOK, BatchFits, Goto, Labels, fileVars, dbVars, lockVars
<1>14. ASSUME NEW p \in Procs, NEW g \in Gens, WriteRecord(p, g) PROVE TypeInv'
  <2>1. minted + 1 \in 0..MaxEvents /\ minted + 1 \in Nat /\ todo - 1 \in Nat
    BY <1>14, <1>0 DEF WriteRecord, TypeInv, TypeOK, BatchFits
  <2>2. recs' \in [Gens -> Seq(Nat)]
    BY <1>14, <2>1 DEF WriteRecord, TypeInv, TypeOK
  <2>3. minted' + todo' = minted + todo
    BY <1>14, <2>1 DEF WriteRecord, TypeInv, TypeOK
  <2> QED BY <1>14, <2>1, <2>2, <2>3 DEF WriteRecord, TypeInv, TypeOK, BatchFits, dbVars, lockVars
<1>15. ASSUME NEW p \in Procs, EndAppend(p) PROVE TypeInv'
  BY <1>15, <1>0 DEF EndAppend, TypeInv, TypeOK, BatchFits, Goto, Labels, fileVars, dbVars, lockVars
<1>16. ASSUME NEW p \in Procs, StartDeliver(p) PROVE TypeInv'
  BY <1>16, <1>0 DEF StartDeliver, TypeInv, TypeOK, BatchFits, Goto, Labels, fileVars, dbVars, lockVars
<1>17. ASSUME NEW p \in Procs, NEW e \in Events, NEW s \in Sinks, NEW o \in Outcomes,
             NEW a \in BOOLEAN, Transport(p, e, s, o, a) PROVE TypeInv'
  BY <1>17, <1>0 DEF Transport, TypeInv, TypeOK, BatchFits, Goto, Labels, fileVars, dbVars, lockVars
<1>18. ASSUME NEW p \in Procs, RecordDelivery(p) PROVE TypeInv'
  BY <1>18, <1>0 DEF RecordDelivery, TypeInv, TypeOK, BatchFits, Goto, Labels, fileVars, dbVars, lockVars
<1>19. ASSUME NEW p \in Procs, EndDeliver(p) PROVE TypeInv'
  BY <1>19, <1>0 DEF EndDeliver, TypeInv, TypeOK, BatchFits, Goto, Labels, fileVars, dbVars, lockVars
<1>20. ASSUME NEW p \in Procs, PruneSkipped(p) PROVE TypeInv'
  BY <1>20, LeaveType DEF PruneSkipped
<1>21. ASSUME NEW p \in Procs, StartPrune(p) PROVE TypeInv'
  BY <1>21, <1>0 DEF StartPrune, TypeInv, TypeOK, BatchFits, Goto, Labels, fileVars, dbVars, lockVars
<1>22. ASSUME NEW p \in Procs, FinalizePrune(p) PROVE TypeInv'
  <2>1. victim \in Gens
    BY <1>22 DEF FinalizePrune, LocksHeld
  <2> QED BY <1>22, <2>1 DEF FinalizePrune, TypeInv, TypeOK, BatchFits, Goto, Labels, fileVars, lockVars
<1>23. ASSUME NEW p \in Procs, EndPrune(p) PROVE TypeInv'
  BY <1>23, LeaveType DEF EndPrune
<1>24. ASSUME NEW p \in Procs, NEW g \in Gens, FinalizeAbsent(p, g) PROVE TypeInv'
  BY <1>24, <1>0 DEF FinalizeAbsent, TypeInv, TypeOK, BatchFits, Goto, Labels, fileVars, dbVars, lockVars
<1>25. ASSUME NEW p \in Procs, NEW g \in Gens, RestorePresent(p, g) PROVE TypeInv'
  BY <1>25, <1>0 DEF RestorePresent, TypeInv, TypeOK, BatchFits, Goto, Labels, fileVars, dbVars, lockVars
<1>26. ASSUME NEW p \in Procs, NEW g \in Gens, Unlink(p, g) PROVE TypeInv'
  <2>1. dir' \in [Gens -> Absent..ActiveName] /\ recs' \in [Gens -> Seq(Nat)]
    BY <1>26, <1>0 DEF Unlink, TypeInv, TypeOK
  <2> QED BY <1>26, <2>1 DEF Unlink, TypeInv, TypeOK, BatchFits, Goto, Labels, dbVars, lockVars
<1>27. ASSUME NEW p \in Procs, NEW g \in Gens, ClaimForPrune(p, g) PROVE TypeInv'
  BY <1>27, <1>0 DEF ClaimForPrune, TypeInv, TypeOK, BatchFits, Goto, Labels, fileVars, dbVars, lockVars
<1>28. ASSUME NEW p \in Procs, Crash(p) PROVE TypeInv'
  BY <1>28, LeaveType DEF Crash
<1>29. ASSUME NEW p \in Procs, DispatchFails(p) PROVE TypeInv'
  BY <1>29, LeaveType DEF DispatchFails
<1>30. ASSUME NEW p \in Procs, NEW g \in Gens, TearRecord(p, g) PROVE TypeInv'
  <2>1. torn' \subseteq Gens /\ UNCHANGED <<dir, recs, today, minted, dbVars, received>> /\ Leave(p)
    BY <1>30 DEF TearRecord, TypeInv, TypeOK
  <2>2. /\ pc' \in [Procs -> Labels]
        /\ admission' \in Procs \cup {NoProc} /\ jsonl' \in Procs \cup {NoProc}
        /\ todo' \in Nat /\ todo' <= todo
        /\ flight' \subseteq Events \X Sinks \X Outcomes
        /\ tried' \subseteq Gens /\ victim' \in Gens \cup {NoGen}
    BY <2>1, LeaveLocals DEF TypeInv
  <2>3. BatchFits'
    <3>1. minted \in Nat /\ todo \in Nat
      BY <1>0 DEF TypeInv, TypeOK
    <3>2. minted + todo <= MaxEvents
      BY DEF TypeInv, BatchFits
    <3>3. todo' \in Nat /\ todo' <= todo /\ minted' = minted
      BY <2>1, <2>2
    <3>4. minted' + todo' <= MaxEvents
      BY <3>1, <3>2, <3>3, <1>0, SumBound
    <3> QED BY <3>4 DEF BatchFits
  <2>4. TypeOK'
    BY <2>1, <2>2 DEF TypeInv, TypeOK, dbVars
  <2> QED BY <2>3, <2>4 DEF TypeInv
<1>31. ASSUME NEW p \in Procs, NEW g \in Gens, RecoverFails(p, g) PROVE TypeInv'
  BY <1>31, <1>0 DEF RecoverFails, TypeInv, TypeOK, BatchFits, Goto, Labels, fileVars, dbVars, lockVars
<1>32. ASSUME NEW s \in Sinks, ReleaseBlocked(s) PROVE TypeInv'
  BY <1>32 DEF ReleaseBlocked, TypeInv, TypeOK, BatchFits, Outcomes, fileVars, lockVars
<1>33. ASSUME NextDay PROVE TypeInv'
  BY <1>33, <1>0 DEF NextDay, TypeInv, TypeOK, BatchFits, Goto, Labels, fileVars, dbVars, lockVars
<1>34. ASSUME NEW g \in Gens, RepairTail(g) PROVE TypeInv'
  BY <1>34, <1>0 DEF RepairTail, TypeInv, TypeOK, BatchFits, Goto, Labels, fileVars, dbVars, lockVars
<1>35. ASSUME UNCHANGED vars PROVE TypeInv'
  BY <1>35 DEF vars, TypeInv, TypeOK, BatchFits
<1>36. ASSUME NEW p \in Procs, PersistStep(p) PROVE TypeInv'
  BY <1>36, <1>1, <1>2, <1>3, <1>4, <1>5, <1>6, <1>7, <1>8, <1>9, <1>10, <1>11, <1>12, <1>13, <1>14, <1>15
  DEF PersistStep
<1>37. ASSUME NEW p \in Procs, DispatchStep(p) PROVE TypeInv'
  BY <1>37, <1>16, <1>17, <1>18, <1>19
  DEF DispatchStep
<1>38. ASSUME NEW p \in Procs, PruneStep(p) PROVE TypeInv'
  BY <1>38, <1>20, <1>21, <1>22, <1>23, <1>24, <1>25, <1>26, <1>27
  DEF PruneStep
<1>39. ASSUME NEW p \in Procs, Fault(p) PROVE TypeInv'
  BY <1>39, <1>28, <1>29, <1>30, <1>31
  DEF Fault
<1>40. ASSUME Environment PROVE TypeInv'
  BY <1>40, <1>32, <1>33, <1>34 DEF Environment
<1> QED BY <1>35, <1>36, <1>37, <1>38, <1>39, <1>40 DEF Next

LEMMA InitLocks == Init => LocksHeld
BY DEF Init, LocksHeld, AdmissionLabels, JsonlLabels

\* Every variable keeps its type.
THEOREM TypeCorrect == Spec => []TypeOK
<1>1. Init => TypeInv /\ LocksHeld
  BY InitType, InitLocks
<1>2. TypeInv /\ LocksHeld /\ [Next]_vars => (TypeInv /\ LocksHeld)'
  BY TypeStep, LocksStep DEF TypeInv
<1>3. TypeInv => TypeOK
  BY DEF TypeInv
<1> QED BY <1>1, <1>2, <1>3, PTL DEF Spec

-----------------------------------------------------------------------------
(* No record is lost.                                                      *)

\* Record i of file h is event e, and reconciliation has yet to read it.
HoldsUnread(h, i, e) ==
  /\ h \in Gens /\ AtOrAfterCursor(h)
  /\ i \in StartOf(h)..Len(recs[h])
  /\ recs[h][i] = e

LEMMA UnreadWitness ==
  ASSUME NEW e \in UnreadEvents
  PROVE  \E h, i : HoldsUnread(h, i, e)
BY DEF UnreadEvents, UnreadGens, PayloadsOf, HoldsUnread

LEMMA WitnessUnread ==
  ASSUME NEW h, NEW i, NEW e, HoldsUnread(h, i, e)'
  PROVE  e \in UnreadEvents'
BY DEF UnreadEvents, UnreadGens, PayloadsOf, HoldsUnread

\* The data invariant depends on the files, the events table and the cursor only.
LEMMA DataFrame ==
  ASSUME DataInv, UNCHANGED <<dir, recs, torn, minted, stored, cursor>>
  PROVE  DataInv'
BY DEF DataInv, TornActive, CursorListed, NoRecordLost, Written, Listed, ActiveGen,
       UnreadEvents, UnreadGens, AtOrAfterCursor, PayloadsOf, StartOf

\* A partial record counts neither for the cursor's place nor for what is unread.
LEMMA TornFrame ==
  ASSUME DataInv, TornActive', UNCHANGED <<dir, recs, minted, stored, cursor>>
  PROVE  DataInv'
BY DEF DataInv, CursorListed, NoRecordLost, Written, Listed,
       UnreadEvents, UnreadGens, AtOrAfterCursor, PayloadsOf, StartOf

\* A reconciliation reads every unread file: only the last one can be torn.
LEMMA ReadsAllUnread ==
  ASSUME TypeOK, TornActive
  PROVE  ReadEvents = UnreadEvents
<1>1. ActiveName \in Nat /\ Absent \in Int
  BY ActiveNameNat DEF Absent
<1>2. ASSUME NEW g \in UnreadGens, NEW h \in UnreadGens \cap torn PROVE dir[g] <= dir[h]
  <2>1. dir[h] = ActiveName
    BY <1>2 DEF TornActive, ActiveGen
  <2>2. dir[g] \in Absent..ActiveName
    BY <1>2 DEF TypeOK, UnreadGens
  <2> QED BY <2>1, <2>2, <1>1
<1>3. ReadGens = UnreadGens
  BY <1>2 DEF ReadGens
<1> QED BY <1>3 DEF ReadEvents, UnreadEvents

LEMMA ReconcileStores ==
  ASSUME TypeInv, DataInv, NEW p \in Procs, NEW g \in Gens, Reconcile(p, g)
  PROVE  Written' \subseteq stored'
<1>1. ReadEvents = UnreadEvents
  BY ReadsAllUnread DEF TypeInv, DataInv
<1>2. stored' = stored \cup ReadEvents /\ minted' = minted
  BY DEF Reconcile, fileVars
<1> QED BY <1>1, <1>2 DEF DataInv, NoRecordLost, Written

LEMMA ReconcileData ==
  ASSUME TypeInv, DataInv, NEW p \in Procs, NEW g \in Gens, Reconcile(p, g)
  PROVE  DataInv'
<1>1. NoRecordLost'
  BY ReconcileStores DEF NoRecordLost
<1>2. UNCHANGED <<dir, recs, torn>>
  BY DEF Reconcile, fileVars
<1>3. TornActive'
  BY <1>2 DEF DataInv, TornActive, ActiveGen
<1>4. CursorListed'
  <2>1. g \in Listed
    BY DEF Reconcile, ReadGens, UnreadGens, AtOrAfterCursor
  <2>2. Len(recs[g]) \in Nat
    BY DEF TypeInv, TypeOK
  <2>3. CASE cursor' = cursor
    BY <2>3, <1>2 DEF DataInv, CursorListed, Listed
  <2>4. CASE cursor' = [gen |-> g, off |-> Len(recs[g]), seen |-> Size(g)]
    BY <2>1, <2>2, <2>4, <1>2 DEF CursorListed, Listed
  <2> QED BY <2>3, <2>4 DEF Reconcile
<1> QED BY <1>1, <1>3, <1>4 DEF DataInv

\* Rotation may move the cursor's file anywhere among the rotated names; that is
\* harmless because everything written is in the events table by then.
LEMMA RotateData ==
  ASSUME TypeInv, DataInv, CaughtUp, NEW p \in Procs, NEW g \in Gens,
         NEW n \in NamesOf(today), Rotate(p, g, n)
  PROVE  DataInv'
<1>1. Written \subseteq stored /\ UNCHANGED <<minted, stored, recs, torn, cursor>>
  BY DEF Rotate, CaughtUp, QuietLabels, dbVars
<1>2. NoRecordLost'
  BY <1>1 DEF NoRecordLost, Written
<1>3. n # Absent
  BY NamesBeforeActive DEF TypeInv, TypeOK, Absent
<1>4. dir' = [dir EXCEPT ![g] = n] /\ g \notin torn
  BY DEF Rotate
<1>5. TornActive'
  BY <1>1, <1>4 DEF DataInv, TornActive, ActiveGen, TypeInv, TypeOK
<1>6. CursorListed'
  BY <1>1, <1>3, <1>4 DEF DataInv, CursorListed, Listed, TypeInv, TypeOK
<1> QED BY <1>2, <1>5, <1>6 DEF DataInv

LEMMA CreateData ==
  ASSUME TypeInv, DataInv, NEW p \in Procs, NEW g \in Gens, CreateActive(p, g)
  PROVE  DataInv'
<1>1. UNCHANGED <<minted, stored, recs, torn, cursor>> /\ dir[g] = Absent
  BY DEF CreateActive, Creatable, dbVars
<1>2. dir' = [dir EXCEPT ![g] = ActiveName] /\ dir \in [Gens -> Absent..ActiveName]
  BY DEF CreateActive, TypeInv, TypeOK
<1>3. ActiveName # Absent
  BY ActiveNameNat DEF Absent
<1>4. TornActive'
  BY <1>1, <1>2 DEF DataInv, TornActive, ActiveGen
<1>5. CursorListed'
  BY <1>1, <1>2, <1>3 DEF DataInv, CursorListed, Listed
<1>6. ASSUME NEW e \in UnreadEvents PROVE e \in UnreadEvents'
  <2>1. PICK h, i : HoldsUnread(h, i, e)
    BY UnreadWitness
  <2>2. h # g /\ dir'[h] = dir[h]
    BY <1>1, <1>2, <2>1 DEF HoldsUnread, AtOrAfterCursor, Listed
  <2>3. cursor # NoCursor => dir'[cursor.gen] = dir[cursor.gen]
    BY <1>1, <1>2 DEF DataInv, CursorListed, Listed
  <2>4. AtOrAfterCursor(h)'
    BY <1>1, <2>1, <2>2, <2>3 DEF HoldsUnread, AtOrAfterCursor, Listed
  <2>5. HoldsUnread(h, i, e)'
    BY <1>1, <2>1, <2>4 DEF HoldsUnread, StartOf
  <2> QED BY <2>5, WitnessUnread
<1>7. NoRecordLost'
  BY <1>1, <1>6 DEF DataInv, NoRecordLost, Written
<1> QED BY <1>4, <1>5, <1>7 DEF DataInv

\* The new record lands in the active file, the last one, behind the cursor.
LEMMA WriteData ==
  ASSUME TypeInv, DataInv, NEW p \in Procs, NEW g \in Gens, WriteRecord(p, g)
  PROVE  DataInv'
<1>1. /\ UNCHANGED <<dir, stored, torn, cursor>> /\ dir[g] = ActiveName
      /\ recs' = [recs EXCEPT ![g] = Append(recs[g], minted + 1)] /\ minted' = minted + 1
  BY DEF WriteRecord, ActiveGen, dbVars
<1>2. recs \in [Gens -> Seq(Nat)] /\ minted \in Nat /\ dir \in [Gens -> Absent..ActiveName]
  BY ConstantsAssumption DEF TypeInv, TypeOK, ConstantsAssumption
<1>3. ActiveName \in Nat /\ Absent \in Int /\ ActiveName # Absent
  BY ActiveNameNat DEF Absent
<1>4. TornActive'
  BY <1>1 DEF DataInv, TornActive, ActiveGen
<1>5. ASSUME NEW h \in Gens
      PROVE  /\ Len(recs[h]) \in Nat /\ Len(recs'[h]) \in Nat /\ Len(recs[h]) <= Len(recs'[h])
             /\ \A i \in 1..Len(recs[h]) : recs'[h][i] = recs[h][i]
  <2>1. CASE h = g
    <3>1. recs'[h] = Append(recs[h], minted + 1) /\ recs[h] \in Seq(Nat)
      BY <1>1, <1>2, <2>1
    <3> QED BY <3>1, <1>2
  <2>2. CASE h # g
    <3>1. recs'[h] = recs[h] /\ recs[h] \in Seq(Nat)
      BY <1>1, <1>2, <2>2
    <3> QED BY <3>1
  <2> QED BY <2>1, <2>2
<1>6. CursorListed'
  <2> SUFFICES ASSUME cursor # NoCursor
               PROVE  cursor.gen \in Listed' /\ cursor.off <= Len(recs'[cursor.gen])
    BY <1>1 DEF CursorListed
  <2>1. cursor.gen \in Listed /\ cursor.off <= Len(recs[cursor.gen]) /\ cursor.off \in Nat
    BY DEF DataInv, CursorListed, TypeInv, TypeOK
  <2>2. cursor.gen \in Gens /\ cursor.gen \in Listed'
    BY <2>1, <1>1 DEF Listed
  <2> QED BY <2>1, <2>2, <1>5
<1>7. ASSUME NEW e \in UnreadEvents PROVE e \in UnreadEvents'
  <2>1. PICK h, i : HoldsUnread(h, i, e)
    BY UnreadWitness
  <2>2. h \in Gens /\ StartOf(h) \in Nat \ {0}
    BY <2>1, StartOfNat DEF HoldsUnread, TypeInv
  <2>3. i \in 1..Len(recs[h]) /\ i \in StartOf(h)..Len(recs'[h])
    BY <2>1, <2>2, <1>5 DEF HoldsUnread
  <2>4. AtOrAfterCursor(h)' /\ StartOf(h)' = StartOf(h)
    BY <2>1, <1>1 DEF HoldsUnread, AtOrAfterCursor, Listed, StartOf
  <2>5. recs'[h][i] = e
    BY <2>1, <2>2, <2>3, <1>5 DEF HoldsUnread
  <2>6. HoldsUnread(h, i, e)'
    BY <2>2, <2>3, <2>4, <2>5 DEF HoldsUnread
  <2> QED BY <2>6, WitnessUnread
<1>8. minted + 1 \in UnreadEvents'
  <2>1. recs[g] \in Seq(Nat) /\ recs'[g] = Append(recs[g], minted + 1)
    BY <1>1, <1>2
  <2>2. Len(recs'[g]) = Len(recs[g]) + 1 /\ recs'[g][Len(recs[g]) + 1] = minted + 1
    BY <2>1, <1>2
  <2>3. AtOrAfterCursor(g)'
    <3>1. g \in Listed'
      BY <1>1, <1>3 DEF Listed
    <3>2. cursor # NoCursor => dir[cursor.gen] <= dir[g]
      BY <1>1, <1>2, <1>3 DEF DataInv, CursorListed, Listed
    <3> QED BY <3>1, <3>2, <1>1 DEF AtOrAfterCursor
  <2>4. StartOf(g)' \in Nat /\ StartOf(g)' <= Len(recs[g]) + 1
    <3>1. CASE g = cursor.gen
      <4>1. cursor # NoCursor
        BY <3>1, ConstantsAssumption DEF NoCursor, ConstantsAssumption
      <4>2. cursor.off \in Nat /\ cursor.off <= Len(recs[g])
        BY <3>1, <4>1 DEF DataInv, CursorListed, TypeInv, TypeOK
      <4> QED BY <3>1, <4>2, <1>1, <1>5 DEF StartOf
    <3>2. CASE g # cursor.gen
      BY <3>2, <1>1, <1>5 DEF StartOf
    <3> QED BY <3>1, <3>2
  <2>5. ASSUME NEW k, NEW e, k = Len(recs[g]) + 1, e = minted + 1 PROVE e \in UnreadEvents'
    <3>1. k \in StartOf(g)'..Len(recs'[g]) /\ recs'[g][k] = e
      BY <2>2, <2>4, <2>5, <1>5
    <3>2. HoldsUnread(g, k, e)'
      BY <2>3, <3>1 DEF HoldsUnread
    <3> QED BY <3>2, WitnessUnread
  <2> QED BY <2>5
<1>9. NoRecordLost'
  <2>1. Written' = Written \cup {minted + 1}
    BY <1>1, <1>2 DEF Written
  <2> QED BY <2>1, <1>1, <1>7, <1>8 DEF DataInv, NoRecordLost
<1> QED BY <1>4, <1>6, <1>9 DEF DataInv

\* Pruning removes a file that lies before the cursor's.
LEMMA UnlinkData ==
  ASSUME TypeInv, DataInv, NEW p \in Procs, NEW g \in Gens, Unlink(p, g)
  PROVE  DataInv'
<1>1. /\ UNCHANGED <<minted, stored, torn, cursor>>
      /\ dir' = [dir EXCEPT ![g] = Absent] /\ recs' = [recs EXCEPT ![g] = <<>>]
  BY DEF Unlink, dbVars
<1>2. g \in Rotated /\ cursor # NoCursor /\ cursor.gen \in Listed /\ dir[g] < dir[cursor.gen]
  BY DEF Unlink, Eligible, CursorVerifies
<1>3. dir \in [Gens -> Absent..ActiveName] /\ recs \in [Gens -> Seq(Nat)]
  BY DEF TypeInv, TypeOK
<1>4. dir[g] \in Int /\ dir[cursor.gen] \in Int /\ cursor.gen # g
  BY <1>2, <1>3, ActiveNameNat DEF Listed, Absent
<1>5. TornActive'
  BY <1>1, <1>2, <1>3 DEF DataInv, TornActive, ActiveGen, Rotated
<1>6. CursorListed'
  BY <1>1, <1>2, <1>3, <1>4 DEF DataInv, CursorListed, Listed
<1>7. ASSUME NEW e \in UnreadEvents PROVE e \in UnreadEvents'
  <2>1. PICK h, i : HoldsUnread(h, i, e)
    BY UnreadWitness
  <2>2. h \in Gens /\ dir[cursor.gen] <= dir[h] /\ dir[h] \in Int
    BY <1>2, <1>3, <2>1, ActiveNameNat DEF HoldsUnread, AtOrAfterCursor, Absent
  <2>3. h # g
    BY <1>2, <1>4, <2>2
  <2>4. recs'[h] = recs[h] /\ dir'[h] = dir[h] /\ dir'[cursor.gen] = dir[cursor.gen]
    BY <1>1, <1>2, <1>3, <1>4, <2>2, <2>3 DEF Listed
  <2>5. HoldsUnread(h, i, e)'
    BY <1>1, <2>1, <2>4 DEF HoldsUnread, AtOrAfterCursor, Listed, StartOf
  <2> QED BY <2>5, WitnessUnread
<1>8. NoRecordLost'
  BY <1>1, <1>7 DEF DataInv, NoRecordLost, Written
<1> QED BY <1>5, <1>6, <1>8 DEF DataInv

LEMMA DataStep == SafeInv /\ [Next]_vars => DataInv'
<1> SUFFICES ASSUME TypeInv, LocksHeld, DataInv, CaughtUp, [Next]_vars PROVE DataInv'
  BY DEF SafeInv
<1>1. ASSUME NEW p \in Procs, NEW n \in 0..MaxBatch, StartPersist(p, n) PROVE DataInv'
  BY <1>1, DataFrame DEF StartPersist, fileVars, dbVars
<1>2. ASSUME NEW p \in Procs, ReconcileEmpty(p) PROVE DataInv'
  BY <1>2, DataFrame DEF ReconcileEmpty, fileVars, dbVars
<1>3. ASSUME NEW p \in Procs, ReconcileRefuses(p) PROVE DataInv'
  BY <1>3, DataFrame DEF ReconcileRefuses, fileVars, dbVars
<1>4. ASSUME NEW p \in Procs, NEW g \in Gens, Reconcile(p, g) PROVE DataInv'
  BY <1>4, ReconcileData
<1>5. ASSUME NEW p \in Procs, EndPredrain(p) PROVE DataInv'
  BY <1>5, DataFrame DEF EndPredrain, fileVars, dbVars
<1>6. ASSUME NEW p \in Procs, Admit(p) PROVE DataInv'
  BY <1>6, DataFrame DEF Admit, fileVars, dbVars
<1>7. ASSUME NEW p \in Procs, RejectFull(p) PROVE DataInv'
  BY <1>7, DataFrame DEF RejectFull, fileVars, dbVars
<1>8. ASSUME NEW p \in Procs, RefuseTornTail(p) PROVE DataInv'
  BY <1>8, DataFrame DEF RefuseTornTail, fileVars, dbVars
<1>9. ASSUME NEW p \in Procs, JsonlBusy(p) PROVE DataInv'
  BY <1>9, DataFrame DEF JsonlBusy, fileVars, dbVars
<1>10. ASSUME NEW p \in Procs, KeepActive(p) PROVE DataInv'
  BY <1>10, DataFrame DEF KeepActive, fileVars, dbVars
<1>11. ASSUME NEW p \in Procs, NEW g \in Gens, NEW n \in NamesOf(today), Rotate(p, g, n) PROVE DataInv'
  BY <1>11, RotateData
<1>12. ASSUME NEW p \in Procs, OpenActive(p) PROVE DataInv'
  BY <1>12, DataFrame DEF OpenActive, fileVars, dbVars
<1>13. ASSUME NEW p \in Procs, NEW g \in Gens, CreateActive(p, g) PROVE DataInv'
  BY <1>13, CreateData
<1>14. ASSUME NEW p \in Procs, NEW g \in Gens, WriteRecord(p, g) PROVE DataInv'
  BY <1>14, WriteData
<1>15. ASSUME NEW p \in Procs, EndAppend(p) PROVE DataInv'
  BY <1>15, DataFrame DEF EndAppend, fileVars, dbVars
<1>16. ASSUME NEW p \in Procs, StartDeliver(p) PROVE DataInv'
  BY <1>16, DataFrame DEF StartDeliver, fileVars, dbVars
<1>17. ASSUME NEW p \in Procs, NEW e \in Events, NEW s \in Sinks, NEW o \in Outcomes,
             NEW a \in BOOLEAN, Transport(p, e, s, o, a) PROVE DataInv'
  BY <1>17, DataFrame DEF Transport, fileVars, dbVars
<1>18. ASSUME NEW p \in Procs, RecordDelivery(p) PROVE DataInv'
  BY <1>18, DataFrame DEF RecordDelivery, fileVars, dbVars
<1>19. ASSUME NEW p \in Procs, EndDeliver(p) PROVE DataInv'
  BY <1>19, DataFrame DEF EndDeliver, fileVars, dbVars
<1>20. ASSUME NEW p \in Procs, PruneSkipped(p) PROVE DataInv'
  BY <1>20, DataFrame DEF PruneSkipped, fileVars, dbVars
<1>21. ASSUME NEW p \in Procs, StartPrune(p) PROVE DataInv'
  BY <1>21, DataFrame DEF StartPrune, fileVars, dbVars
<1>22. ASSUME NEW p \in Procs, FinalizePrune(p) PROVE DataInv'
  BY <1>22, DataFrame DEF FinalizePrune, fileVars, dbVars
<1>23. ASSUME NEW p \in Procs, EndPrune(p) PROVE DataInv'
  BY <1>23, DataFrame DEF EndPrune, fileVars, dbVars
<1>24. ASSUME NEW p \in Procs, NEW g \in Gens, FinalizeAbsent(p, g) PROVE DataInv'
  BY <1>24, DataFrame DEF FinalizeAbsent, fileVars, dbVars
<1>25. ASSUME NEW p \in Procs, NEW g \in Gens, RestorePresent(p, g) PROVE DataInv'
  BY <1>25, DataFrame DEF RestorePresent, fileVars, dbVars
<1>26. ASSUME NEW p \in Procs, NEW g \in Gens, Unlink(p, g) PROVE DataInv'
  BY <1>26, UnlinkData
<1>27. ASSUME NEW p \in Procs, NEW g \in Gens, ClaimForPrune(p, g) PROVE DataInv'
  BY <1>27, DataFrame DEF ClaimForPrune, fileVars, dbVars
<1>28. ASSUME NEW p \in Procs, Crash(p) PROVE DataInv'
  BY <1>28, DataFrame DEF Crash, fileVars, dbVars
<1>29. ASSUME NEW p \in Procs, DispatchFails(p) PROVE DataInv'
  BY <1>29, DataFrame DEF DispatchFails, fileVars, dbVars
<1>30. ASSUME NEW p \in Procs, NEW g \in Gens, TearRecord(p, g) PROVE DataInv'
  <2>1. UNCHANGED <<dir, recs, minted, stored, cursor>> /\ torn' = torn \cup {g} /\ g \in ActiveGen
    BY <1>30 DEF TearRecord, dbVars
  <2>2. TornActive'
    BY <2>1 DEF DataInv, TornActive, ActiveGen
  <2> QED BY <2>1, <2>2, TornFrame
<1>31. ASSUME NEW p \in Procs, NEW g \in Gens, RecoverFails(p, g) PROVE DataInv'
  BY <1>31, DataFrame DEF RecoverFails, fileVars, dbVars
<1>32. ASSUME NEW s \in Sinks, ReleaseBlocked(s) PROVE DataInv'
  BY <1>32, DataFrame DEF ReleaseBlocked, fileVars, dbVars
<1>33. ASSUME NextDay PROVE DataInv'
  BY <1>33, DataFrame DEF NextDay, fileVars, dbVars
<1>34. ASSUME NEW g \in Gens, RepairTail(g) PROVE DataInv'
  <2>1. UNCHANGED <<dir, recs, minted, stored, cursor>> /\ torn' = torn \ {g}
    BY <1>34 DEF RepairTail, dbVars
  <2>2. TornActive'
    BY <2>1 DEF DataInv, TornActive, ActiveGen
  <2> QED BY <2>1, <2>2, TornFrame
<1>35. ASSUME UNCHANGED vars PROVE DataInv'
  BY <1>35, DataFrame DEF vars
<1>36. ASSUME NEW p \in Procs, PersistStep(p) PROVE DataInv'
  BY <1>36, <1>1, <1>2, <1>3, <1>4, <1>5, <1>6, <1>7, <1>8, <1>9, <1>10, <1>11, <1>12, <1>13, <1>14, <1>15
  DEF PersistStep
<1>37. ASSUME NEW p \in Procs, DispatchStep(p) PROVE DataInv'
  BY <1>37, <1>16, <1>17, <1>18, <1>19
  DEF DispatchStep
<1>38. ASSUME NEW p \in Procs, PruneStep(p) PROVE DataInv'
  BY <1>38, <1>20, <1>21, <1>22, <1>23, <1>24, <1>25, <1>26, <1>27
  DEF PruneStep
<1>39. ASSUME NEW p \in Procs, Fault(p) PROVE DataInv'
  BY <1>39, <1>28, <1>29, <1>30, <1>31
  DEF Fault
<1>40. ASSUME Environment PROVE DataInv'
  BY <1>40, <1>32, <1>33, <1>34 DEF Environment
<1> QED BY <1>35, <1>36, <1>37, <1>38, <1>39, <1>40 DEF Next

LEMMA CaughtUpFrame ==
  ASSUME CaughtUp, UNCHANGED <<minted, stored>>,
         \A q \in Procs : pc'[q] \in QuietLabels => pc[q] \in QuietLabels
  PROVE  CaughtUp'
BY DEF CaughtUp, Written

LEMMA ReconcileCaughtUp ==
  ASSUME TypeInv, DataInv, NEW p \in Procs, NEW g \in Gens, Reconcile(p, g)
  PROVE  CaughtUp'
BY ReconcileStores DEF CaughtUp

LEMMA EmptyCaughtUp ==
  ASSUME DataInv, NEW p \in Procs, ReconcileEmpty(p)
  PROVE  CaughtUp'
<1>1. UnreadEvents = {}
  BY DEF ReconcileEmpty, UnreadEvents, UnreadGens, AtOrAfterCursor
<1>2. Written \subseteq stored /\ UNCHANGED <<minted, stored>>
  BY <1>1 DEF ReconcileEmpty, DataInv, NoRecordLost, fileVars, dbVars
<1> QED BY <1>2 DEF CaughtUp, Written

\* While one process writes, no other is between reconciliation and append.
LEMMA WriteCaughtUp ==
  ASSUME TypeInv, LocksHeld, NEW p \in Procs, NEW g \in Gens, WriteRecord(p, g)
  PROVE  CaughtUp'
<1>1. pc[p] = "write" /\ pc' = pc /\ admission = p
  BY DEF WriteRecord, LocksHeld, AdmissionLabels
<1>2. \A q \in Procs : pc[q] \notin QuietLabels
  BY <1>1 DEF LocksHeld, AdmissionLabels, QuietLabels
<1> QED BY <1>1, <1>2 DEF CaughtUp

LEMMA CaughtUpStep == SafeInv /\ [Next]_vars => CaughtUp'
<1> SUFFICES ASSUME TypeInv, LocksHeld, DataInv, CaughtUp, [Next]_vars PROVE CaughtUp'
  BY DEF SafeInv
<1> USE DEF TypeInv
<1>1. ASSUME NEW p \in Procs, NEW n \in 0..MaxBatch, StartPersist(p, n) PROVE CaughtUp'
  BY <1>1, CaughtUpFrame DEF StartPersist, Goto, QuietLabels, TypeOK, fileVars, dbVars
<1>2. ASSUME NEW p \in Procs, ReconcileEmpty(p) PROVE CaughtUp'
  BY <1>2, EmptyCaughtUp
<1>3. ASSUME NEW p \in Procs, ReconcileRefuses(p) PROVE CaughtUp'
  BY <1>3, CaughtUpFrame DEF ReconcileRefuses, Leave, QuietLabels, TypeOK, fileVars, dbVars
<1>4. ASSUME NEW p \in Procs, NEW g \in Gens, Reconcile(p, g) PROVE CaughtUp'
  BY <1>4, ReconcileCaughtUp
<1>5. ASSUME NEW p \in Procs, EndPredrain(p) PROVE CaughtUp'
  BY <1>5, CaughtUpFrame DEF EndPredrain, Goto, QuietLabels, TypeOK, fileVars, dbVars
<1>6. ASSUME NEW p \in Procs, Admit(p) PROVE CaughtUp'
  BY <1>6, CaughtUpFrame DEF Admit, Goto, QuietLabels, TypeOK, fileVars, dbVars
<1>7. ASSUME NEW p \in Procs, RejectFull(p) PROVE CaughtUp'
  BY <1>7, CaughtUpFrame DEF RejectFull, Leave, QuietLabels, TypeOK, fileVars, dbVars
<1>8. ASSUME NEW p \in Procs, RefuseTornTail(p) PROVE CaughtUp'
  BY <1>8, CaughtUpFrame DEF RefuseTornTail, Leave, QuietLabels, TypeOK, fileVars, dbVars
<1>9. ASSUME NEW p \in Procs, JsonlBusy(p) PROVE CaughtUp'
  BY <1>9, CaughtUpFrame DEF JsonlBusy, Leave, QuietLabels, TypeOK, fileVars, dbVars
<1>10. ASSUME NEW p \in Procs, KeepActive(p) PROVE CaughtUp'
  BY <1>10, CaughtUpFrame DEF KeepActive, Goto, QuietLabels, TypeOK, fileVars, dbVars
<1>11. ASSUME NEW p \in Procs, NEW g \in Gens, NEW n \in NamesOf(today), Rotate(p, g, n) PROVE CaughtUp'
  BY <1>11, CaughtUpFrame DEF Rotate, Goto, QuietLabels, TypeOK, fileVars, dbVars
<1>12. ASSUME NEW p \in Procs, OpenActive(p) PROVE CaughtUp'
  BY <1>12, CaughtUpFrame DEF OpenActive, Goto, QuietLabels, TypeOK, fileVars, dbVars
<1>13. ASSUME NEW p \in Procs, NEW g \in Gens, CreateActive(p, g) PROVE CaughtUp'
  BY <1>13, CaughtUpFrame DEF CreateActive, Goto, QuietLabels, TypeOK, fileVars, dbVars
<1>14. ASSUME NEW p \in Procs, NEW g \in Gens, WriteRecord(p, g) PROVE CaughtUp'
  BY <1>14, WriteCaughtUp
<1>15. ASSUME NEW p \in Procs, EndAppend(p) PROVE CaughtUp'
  BY <1>15, CaughtUpFrame DEF EndAppend, Goto, QuietLabels, TypeOK, fileVars, dbVars
<1>16. ASSUME NEW p \in Procs, StartDeliver(p) PROVE CaughtUp'
  BY <1>16, CaughtUpFrame DEF StartDeliver, Goto, QuietLabels, TypeOK, fileVars, dbVars
<1>17. ASSUME NEW p \in Procs, NEW e \in Events, NEW s \in Sinks, NEW o \in Outcomes,
             NEW a \in BOOLEAN, Transport(p, e, s, o, a) PROVE CaughtUp'
  BY <1>17, CaughtUpFrame DEF Transport, Goto, QuietLabels, TypeOK, fileVars, dbVars
<1>18. ASSUME NEW p \in Procs, RecordDelivery(p) PROVE CaughtUp'
  BY <1>18, CaughtUpFrame DEF RecordDelivery, Goto, QuietLabels, TypeOK, fileVars, dbVars
<1>19. ASSUME NEW p \in Procs, EndDeliver(p) PROVE CaughtUp'
  BY <1>19, CaughtUpFrame DEF EndDeliver, Goto, QuietLabels, TypeOK, fileVars, dbVars
<1>20. ASSUME NEW p \in Procs, PruneSkipped(p) PROVE CaughtUp'
  BY <1>20, CaughtUpFrame DEF PruneSkipped, Leave, QuietLabels, TypeOK, fileVars, dbVars
<1>21. ASSUME NEW p \in Procs, StartPrune(p) PROVE CaughtUp'
  BY <1>21, CaughtUpFrame DEF StartPrune, Goto, QuietLabels, TypeOK, fileVars, dbVars
<1>22. ASSUME NEW p \in Procs, FinalizePrune(p) PROVE CaughtUp'
  BY <1>22, CaughtUpFrame DEF FinalizePrune, Goto, QuietLabels, TypeOK, fileVars, dbVars
<1>23. ASSUME NEW p \in Procs, EndPrune(p) PROVE CaughtUp'
  BY <1>23, CaughtUpFrame DEF EndPrune, Leave, QuietLabels, TypeOK, fileVars, dbVars
<1>24. ASSUME NEW p \in Procs, NEW g \in Gens, FinalizeAbsent(p, g) PROVE CaughtUp'
  BY <1>24, CaughtUpFrame DEF FinalizeAbsent, Goto, QuietLabels, TypeOK, fileVars, dbVars
<1>25. ASSUME NEW p \in Procs, NEW g \in Gens, RestorePresent(p, g) PROVE CaughtUp'
  BY <1>25, CaughtUpFrame DEF RestorePresent, Goto, QuietLabels, TypeOK, fileVars, dbVars
<1>26. ASSUME NEW p \in Procs, NEW g \in Gens, Unlink(p, g) PROVE CaughtUp'
  BY <1>26, CaughtUpFrame DEF Unlink, Goto, QuietLabels, TypeOK, fileVars, dbVars
<1>27. ASSUME NEW p \in Procs, NEW g \in Gens, ClaimForPrune(p, g) PROVE CaughtUp'
  BY <1>27, CaughtUpFrame DEF ClaimForPrune, Goto, QuietLabels, TypeOK, fileVars, dbVars
<1>28. ASSUME NEW p \in Procs, Crash(p) PROVE CaughtUp'
  BY <1>28, CaughtUpFrame DEF Crash, Leave, QuietLabels, TypeOK, fileVars, dbVars
<1>29. ASSUME NEW p \in Procs, DispatchFails(p) PROVE CaughtUp'
  BY <1>29, CaughtUpFrame DEF DispatchFails, Leave, QuietLabels, TypeOK, fileVars, dbVars
<1>30. ASSUME NEW p \in Procs, NEW g \in Gens, TearRecord(p, g) PROVE CaughtUp'
  BY <1>30, CaughtUpFrame DEF TearRecord, Leave, QuietLabels, TypeOK, fileVars, dbVars
<1>31. ASSUME NEW p \in Procs, NEW g \in Gens, RecoverFails(p, g) PROVE CaughtUp'
  BY <1>31, CaughtUpFrame DEF RecoverFails, Goto, QuietLabels, TypeOK, fileVars, dbVars
<1>32. ASSUME NEW s \in Sinks, ReleaseBlocked(s) PROVE CaughtUp'
  BY <1>32, CaughtUpFrame DEF ReleaseBlocked, Goto, QuietLabels, TypeOK, fileVars, dbVars
<1>33. ASSUME NextDay PROVE CaughtUp'
  BY <1>33, CaughtUpFrame DEF NextDay, Goto, QuietLabels, TypeOK, fileVars, dbVars
<1>34. ASSUME NEW g \in Gens, RepairTail(g) PROVE CaughtUp'
  BY <1>34, CaughtUpFrame DEF RepairTail, Goto, QuietLabels, TypeOK, fileVars, dbVars
<1>35. ASSUME UNCHANGED vars PROVE CaughtUp'
  BY <1>35 DEF vars, CaughtUp, Written
<1>36. ASSUME NEW p \in Procs, PersistStep(p) PROVE CaughtUp'
  BY <1>36, <1>1, <1>2, <1>3, <1>4, <1>5, <1>6, <1>7, <1>8, <1>9, <1>10, <1>11, <1>12, <1>13, <1>14, <1>15
  DEF PersistStep
<1>37. ASSUME NEW p \in Procs, DispatchStep(p) PROVE CaughtUp'
  BY <1>37, <1>16, <1>17, <1>18, <1>19
  DEF DispatchStep
<1>38. ASSUME NEW p \in Procs, PruneStep(p) PROVE CaughtUp'
  BY <1>38, <1>20, <1>21, <1>22, <1>23, <1>24, <1>25, <1>26, <1>27
  DEF PruneStep
<1>39. ASSUME NEW p \in Procs, Fault(p) PROVE CaughtUp'
  BY <1>39, <1>28, <1>29, <1>30, <1>31
  DEF Fault
<1>40. ASSUME Environment PROVE CaughtUp'
  BY <1>40, <1>32, <1>33, <1>34 DEF Environment
<1> QED BY <1>35, <1>36, <1>37, <1>38, <1>39, <1>40 DEF Next

LEMMA InitSafe == Init => SafeInv
<1> SUFFICES ASSUME Init PROVE SafeInv
  OBVIOUS
<1>1. Written = {}
  BY DEF Init, Written
<1>2. DataInv
  BY <1>1 DEF Init, DataInv, TornActive, CursorListed, NoRecordLost
<1>3. CaughtUp
  BY <1>1 DEF CaughtUp
<1> QED BY <1>2, <1>3, InitType, InitLocks DEF SafeInv

LEMMA SafeStep == SafeInv /\ [Next]_vars => SafeInv'
BY TypeStep, LocksStep, DataStep, CaughtUpStep DEF SafeInv, TypeInv

\* No record that reached the journal is lost, whatever interleaving of writers,
\* pruners, crashes, torn writes and rotations under reused names.
THEOREM NothingLost == Spec => []NoRecordLost
<1>1. SafeInv => NoRecordLost
  BY DEF SafeInv, DataInv
<1> QED BY InitSafe, SafeStep, <1>1, PTL DEF Spec

-----------------------------------------------------------------------------
(***************************************************************************)
(* The refinement: every step of the pipeline is a step of the abstract    *)
(* delivery specification or leaves its variables alone.                   *)
(***************************************************************************)
(* The inductive invariant.                                                *)

\* The files hold written events only.
RecsWritten == \A g \in Gens : \A i \in DOMAIN recs[g] : recs[g][i] \in Written

\* Only written events that are not alerts have delivery rows.
RowsWritten == \A es \in Events \X Sinks : row[es] # "none" => es[1] \in Written \ Alerts

\* A row with a result in flight is still pending (nothing else moves it), and
\* a positive result means that the receiver has the event.
FlightPending ==
  \A f \in flight : /\ row[<<f[1], f[2]>>] = "pending"
                    /\ f[3] = "acked" => <<f[1], f[2]>> \in received

RowInv == RecsWritten /\ RowsWritten /\ FlightPending
RefInv == TypeInv /\ LocksHeld /\ RowInv

LEMMA RowFrame ==
  ASSUME RowInv, UNCHANGED <<recs, minted, row, flight, received>>
  PROVE  RowInv'
BY DEF RowInv, RecsWritten, RowsWritten, FlightPending, Written

LEMMA LeaveRows ==
  ASSUME RowInv, NEW p \in Procs, Leave(p), UNCHANGED <<recs, minted, row, received>>
  PROVE  RowInv'
<1>1. flight' \subseteq flight
  BY DEF Leave
<1> QED BY <1>1 DEF RowInv, RecsWritten, RowsWritten, FlightPending, Written

LEMMA ReadEventsWritten ==
  ASSUME TypeInv, RecsWritten
  PROVE  ReadEvents \subseteq Written
<1> SUFFICES ASSUME NEW g \in Gens, NEW i \in StartOf(g)..Len(recs[g]) PROVE recs[g][i] \in Written
  BY DEF ReadEvents, ReadGens, UnreadGens, PayloadsOf
<1>1. i \in DOMAIN recs[g]
  BY PayloadsNat DEF TypeInv
<1> QED BY <1>1 DEF RecsWritten

LEMMA ReconcileRows ==
  ASSUME TypeInv, RowInv, NEW p \in Procs, NEW g \in Gens, Reconcile(p, g)
  PROVE  RowInv'
<1>1. UNCHANGED <<recs, minted, flight, received>>
  BY DEF Reconcile, fileVars
<1>2. row' = [es \in Events \X Sinks |->
                IF es[1] \in ReadEvents \ Alerts /\ row[es] = "none" THEN "pending" ELSE row[es]]
  BY DEF Reconcile, Inserted
<1>3. ReadEvents \subseteq Written
  BY ReadEventsWritten DEF RowInv
<1>4. RecsWritten'
  BY <1>1 DEF RowInv, RecsWritten, Written
<1>5. RowsWritten'
  BY <1>1, <1>2, <1>3 DEF RowInv, RowsWritten, Written
<1>6. FlightPending'
  <2> SUFFICES ASSUME NEW f \in flight
               PROVE  /\ row'[<<f[1], f[2]>>] = "pending"
                      /\ f[3] = "acked" => <<f[1], f[2]>> \in received
    BY <1>1 DEF FlightPending
  <2>1. <<f[1], f[2]>> \in Events \X Sinks
    BY DEF TypeInv, TypeOK
  <2> QED BY <2>1, <1>2 DEF RowInv, FlightPending
<1> QED BY <1>4, <1>5, <1>6 DEF RowInv

LEMMA WriteRecordRows ==
  ASSUME TypeInv, RowInv, NEW p \in Procs, NEW g \in Gens, WriteRecord(p, g)
  PROVE  RowInv'
<1>1. /\ UNCHANGED <<row, flight, received>> /\ minted' = minted + 1
      /\ recs' = [recs EXCEPT ![g] = Append(recs[g], minted + 1)]
  BY DEF WriteRecord, dbVars
<1>2. recs \in [Gens -> Seq(Nat)] /\ minted \in Nat
  BY ConstantsAssumption DEF TypeInv, TypeOK, ConstantsAssumption
<1>3. Written' = Written \cup {minted + 1}
  BY <1>1, <1>2 DEF Written
<1>4. RecsWritten'
  <2> SUFFICES ASSUME NEW h \in Gens, NEW i \in DOMAIN recs'[h] PROVE recs'[h][i] \in Written'
    BY DEF RecsWritten
  <2>1. CASE h = g
    <3>1. recs'[h] = Append(recs[h], minted + 1) /\ recs[h] \in Seq(Nat)
      BY <1>1, <1>2, <2>1
    <3>2. \/ i \in DOMAIN recs[h] /\ recs'[h][i] = recs[h][i]
          \/ recs'[h][i] = minted + 1
      BY <3>1, <1>2
    <3> QED BY <3>2, <1>3 DEF RowInv, RecsWritten
  <2>2. CASE h # g
    BY <2>2, <1>1, <1>2, <1>3 DEF RowInv, RecsWritten
  <2> QED BY <2>1, <2>2
<1>5. RowsWritten' /\ FlightPending'
  BY <1>1, <1>3 DEF RowInv, RowsWritten, FlightPending
<1> QED BY <1>4, <1>5 DEF RowInv

LEMMA UnlinkRows ==
  ASSUME TypeInv, RowInv, NEW p \in Procs, NEW g \in Gens, Unlink(p, g)
  PROVE  RowInv'
<1>1. UNCHANGED <<minted, row, flight, received>> /\ recs' = [recs EXCEPT ![g] = <<>>]
  BY DEF Unlink, dbVars
<1>2. ASSUME NEW h \in Gens PROVE recs'[h] = recs[h] \/ recs'[h] = <<>>
  BY <1>1 DEF TypeInv, TypeOK
<1>3. RecsWritten'
  BY <1>1, <1>2 DEF RowInv, RecsWritten, Written
<1> QED BY <1>1, <1>3 DEF RowInv, RowsWritten, FlightPending, Written

LEMMA TransportRows ==
  ASSUME TypeInv, RowInv, NEW p \in Procs, NEW e \in Events, NEW s \in Sinks,
         NEW o \in Outcomes, NEW a \in BOOLEAN, Transport(p, e, s, o, a)
  PROVE  RowInv'
<1>1. UNCHANGED <<recs, minted, row>> /\ flight' = {<<e, s, o>>} /\ row[<<e, s>>] = "pending"
  BY DEF Transport, fileVars, dbVars
<1>2. o = "acked" => <<e, s>> \in received'
  BY DEF Transport
<1>3. FlightPending'
  BY <1>1, <1>2 DEF FlightPending
<1> QED BY <1>1, <1>3 DEF RowInv, RecsWritten, RowsWritten, Written

LEMMA RecordDeliveryRows ==
  ASSUME TypeInv, RowInv, NEW p \in Procs, RecordDelivery(p)
  PROVE  RowInv'
<1>1. UNCHANGED <<recs, minted, received>> /\ flight' = {}
  BY DEF RecordDelivery, fileVars
<1>2. PICK f \in flight : row' = [row EXCEPT ![<<f[1], f[2]>>] = f[3]]
  BY DEF RecordDelivery
<1>3. ASSUME NEW es \in Events \X Sinks, row'[es] # "none" PROVE row[es] # "none"
  BY <1>2, <1>3 DEF TypeInv, TypeOK, RowInv, FlightPending
<1>4. RowsWritten'
  BY <1>1, <1>3 DEF RowInv, RowsWritten, Written
<1> QED BY <1>1, <1>4 DEF RowInv, RecsWritten, FlightPending, Written

LEMMA ReleaseBlockedRows ==
  ASSUME TypeInv, RowInv, NEW s \in Sinks, ReleaseBlocked(s)
  PROVE  RowInv'
<1>1. UNCHANGED <<recs, minted, received, flight>>
  BY DEF ReleaseBlocked, fileVars
<1>2. row' = [es \in Events \X Sinks |->
                IF es[2] = s /\ row[es] = "blocked" THEN "pending" ELSE row[es]]
  BY DEF ReleaseBlocked
<1>3. RowsWritten'
  BY <1>1, <1>2 DEF RowInv, RowsWritten, Written
<1>4. FlightPending'
  <2> SUFFICES ASSUME NEW f \in flight
               PROVE  /\ row'[<<f[1], f[2]>>] = "pending"
                      /\ f[3] = "acked" => <<f[1], f[2]>> \in received
    BY <1>1 DEF FlightPending
  <2>1. <<f[1], f[2]>> \in Events \X Sinks
    BY DEF TypeInv, TypeOK
  <2> QED BY <2>1, <1>2 DEF RowInv, FlightPending
<1> QED BY <1>1, <1>3, <1>4 DEF RowInv, RecsWritten, Written

LEMMA RowStep == RefInv /\ [Next]_vars => RowInv'
<1> SUFFICES ASSUME TypeInv, LocksHeld, RowInv, [Next]_vars PROVE RowInv'
  BY DEF RefInv
<1>1. ASSUME NEW p \in Procs, NEW n \in 0..MaxBatch, StartPersist(p, n) PROVE RowInv'
  BY <1>1, RowFrame DEF StartPersist, fileVars, dbVars
<1>2. ASSUME NEW p \in Procs, ReconcileEmpty(p) PROVE RowInv'
  BY <1>2, RowFrame DEF ReconcileEmpty, fileVars, dbVars
<1>3. ASSUME NEW p \in Procs, ReconcileRefuses(p) PROVE RowInv'
  BY <1>3, LeaveRows DEF ReconcileRefuses, fileVars, dbVars
<1>4. ASSUME NEW p \in Procs, NEW g \in Gens, Reconcile(p, g) PROVE RowInv'
  BY <1>4, ReconcileRows
<1>5. ASSUME NEW p \in Procs, EndPredrain(p) PROVE RowInv'
  BY <1>5, RowFrame DEF EndPredrain, fileVars, dbVars
<1>6. ASSUME NEW p \in Procs, Admit(p) PROVE RowInv'
  BY <1>6, RowFrame DEF Admit, fileVars, dbVars
<1>7. ASSUME NEW p \in Procs, RejectFull(p) PROVE RowInv'
  BY <1>7, LeaveRows DEF RejectFull, fileVars, dbVars
<1>8. ASSUME NEW p \in Procs, RefuseTornTail(p) PROVE RowInv'
  BY <1>8, LeaveRows DEF RefuseTornTail, fileVars, dbVars
<1>9. ASSUME NEW p \in Procs, JsonlBusy(p) PROVE RowInv'
  BY <1>9, LeaveRows DEF JsonlBusy, fileVars, dbVars
<1>10. ASSUME NEW p \in Procs, KeepActive(p) PROVE RowInv'
  BY <1>10, RowFrame DEF KeepActive, fileVars, dbVars
<1>11. ASSUME NEW p \in Procs, NEW g \in Gens, NEW n \in NamesOf(today), Rotate(p, g, n) PROVE RowInv'
  BY <1>11, RowFrame DEF Rotate, fileVars, dbVars
<1>12. ASSUME NEW p \in Procs, OpenActive(p) PROVE RowInv'
  BY <1>12, RowFrame DEF OpenActive, fileVars, dbVars
<1>13. ASSUME NEW p \in Procs, NEW g \in Gens, CreateActive(p, g) PROVE RowInv'
  BY <1>13, RowFrame DEF CreateActive, fileVars, dbVars
<1>14. ASSUME NEW p \in Procs, NEW g \in Gens, WriteRecord(p, g) PROVE RowInv'
  BY <1>14, WriteRecordRows
<1>15. ASSUME NEW p \in Procs, EndAppend(p) PROVE RowInv'
  BY <1>15, RowFrame DEF EndAppend, fileVars, dbVars
<1>16. ASSUME NEW p \in Procs, StartDeliver(p) PROVE RowInv'
  BY <1>16, RowFrame DEF StartDeliver, fileVars, dbVars
<1>17. ASSUME NEW p \in Procs, NEW e \in Events, NEW s \in Sinks, NEW o \in Outcomes,
             NEW a \in BOOLEAN, Transport(p, e, s, o, a) PROVE RowInv'
  BY <1>17, TransportRows
<1>18. ASSUME NEW p \in Procs, RecordDelivery(p) PROVE RowInv'
  BY <1>18, RecordDeliveryRows
<1>19. ASSUME NEW p \in Procs, EndDeliver(p) PROVE RowInv'
  BY <1>19, RowFrame DEF EndDeliver, fileVars, dbVars
<1>20. ASSUME NEW p \in Procs, PruneSkipped(p) PROVE RowInv'
  BY <1>20, LeaveRows DEF PruneSkipped, fileVars, dbVars
<1>21. ASSUME NEW p \in Procs, StartPrune(p) PROVE RowInv'
  BY <1>21, RowFrame DEF StartPrune, fileVars, dbVars
<1>22. ASSUME NEW p \in Procs, FinalizePrune(p) PROVE RowInv'
  BY <1>22, RowFrame DEF FinalizePrune, fileVars, dbVars
<1>23. ASSUME NEW p \in Procs, EndPrune(p) PROVE RowInv'
  BY <1>23, LeaveRows DEF EndPrune, fileVars, dbVars
<1>24. ASSUME NEW p \in Procs, NEW g \in Gens, FinalizeAbsent(p, g) PROVE RowInv'
  BY <1>24, RowFrame DEF FinalizeAbsent, fileVars, dbVars
<1>25. ASSUME NEW p \in Procs, NEW g \in Gens, RestorePresent(p, g) PROVE RowInv'
  BY <1>25, RowFrame DEF RestorePresent, fileVars, dbVars
<1>26. ASSUME NEW p \in Procs, NEW g \in Gens, Unlink(p, g) PROVE RowInv'
  BY <1>26, UnlinkRows
<1>27. ASSUME NEW p \in Procs, NEW g \in Gens, ClaimForPrune(p, g) PROVE RowInv'
  BY <1>27, RowFrame DEF ClaimForPrune, fileVars, dbVars
<1>28. ASSUME NEW p \in Procs, Crash(p) PROVE RowInv'
  BY <1>28, LeaveRows DEF Crash, fileVars, dbVars
<1>29. ASSUME NEW p \in Procs, DispatchFails(p) PROVE RowInv'
  BY <1>29, LeaveRows DEF DispatchFails, fileVars, dbVars
<1>30. ASSUME NEW p \in Procs, NEW g \in Gens, TearRecord(p, g) PROVE RowInv'
  BY <1>30, LeaveRows DEF TearRecord, dbVars
<1>31. ASSUME NEW p \in Procs, NEW g \in Gens, RecoverFails(p, g) PROVE RowInv'
  BY <1>31, RowFrame DEF RecoverFails, fileVars, dbVars
<1>32. ASSUME NEW s \in Sinks, ReleaseBlocked(s) PROVE RowInv'
  BY <1>32, ReleaseBlockedRows
<1>33. ASSUME NextDay PROVE RowInv'
  BY <1>33, RowFrame DEF NextDay, fileVars, dbVars
<1>34. ASSUME NEW g \in Gens, RepairTail(g) PROVE RowInv'
  BY <1>34, RowFrame DEF RepairTail, fileVars, dbVars
<1>35. ASSUME UNCHANGED vars PROVE RowInv'
  BY <1>35, RowFrame DEF vars
<1>36. ASSUME NEW p \in Procs, PersistStep(p) PROVE RowInv'
  BY <1>36, <1>1, <1>2, <1>3, <1>4, <1>5, <1>6, <1>7, <1>8, <1>9, <1>10, <1>11, <1>12, <1>13, <1>14, <1>15
  DEF PersistStep
<1>37. ASSUME NEW p \in Procs, DispatchStep(p) PROVE RowInv'
  BY <1>37, <1>16, <1>17, <1>18, <1>19
  DEF DispatchStep
<1>38. ASSUME NEW p \in Procs, PruneStep(p) PROVE RowInv'
  BY <1>38, <1>20, <1>21, <1>22, <1>23, <1>24, <1>25, <1>26, <1>27
  DEF PruneStep
<1>39. ASSUME NEW p \in Procs, Fault(p) PROVE RowInv'
  BY <1>39, <1>28, <1>29, <1>30, <1>31
  DEF Fault
<1>40. ASSUME Environment PROVE RowInv'
  BY <1>40, <1>32, <1>33, <1>34 DEF Environment
<1> QED BY <1>35, <1>36, <1>37, <1>38, <1>39, <1>40 DEF Next

LEMMA InitRef == Init => RefInv
<1> SUFFICES ASSUME Init PROVE RefInv
  OBVIOUS
<1>1. RowInv
  BY DEF Init, RowInv, RecsWritten, RowsWritten, FlightPending
<1> QED BY <1>1, InitType, InitLocks DEF RefInv

LEMMA RefStep == RefInv /\ [Next]_vars => RefInv'
BY TypeStep, LocksStep, RowStep DEF RefInv, TypeInv

-----------------------------------------------------------------------------
(* Step simulation.                                                        *)

Acked == {es \in Events \X Sinks : row[es] = "acked"}
Dead  == {es \in Events \X Sinks : row[es] = "dead"}
AbstractStep == [ALO!Next]_<<Written, received, Acked, Dead>>

LEMMA StutterFrame ==
  ASSUME UNCHANGED <<minted, received, row>>
  PROVE  AbstractStep
BY DEF AbstractStep, Acked, Dead, Written

LEMMA ReconcileImplements ==
  ASSUME TypeInv, NEW p \in Procs, NEW g \in Gens, Reconcile(p, g)
  PROVE  AbstractStep
<1>1. UNCHANGED <<minted, received>>
  BY DEF Reconcile, fileVars
<1>2. ASSUME NEW es \in Events \X Sinks PROVE row'[es] = row[es] \/ (row[es] = "none" /\ row'[es] = "pending")
  BY DEF Reconcile
<1> QED BY <1>1, <1>2 DEF AbstractStep, Acked, Dead, Written

LEMMA ReleaseBlockedImplements ==
  ASSUME TypeInv, NEW s \in Sinks, ReleaseBlocked(s)
  PROVE  AbstractStep
<1>1. UNCHANGED <<minted, received>>
  BY DEF ReleaseBlocked, fileVars
<1>2. ASSUME NEW es \in Events \X Sinks PROVE row'[es] = row[es] \/ (row[es] = "blocked" /\ row'[es] = "pending")
  BY DEF ReleaseBlocked
<1> QED BY <1>1, <1>2 DEF AbstractStep, Acked, Dead, Written

LEMMA WriteRecordImplements ==
  ASSUME TypeInv, NEW p \in Procs, NEW g \in Gens, WriteRecord(p, g)
  PROVE  AbstractStep
<1>1. UNCHANGED <<received, row>> /\ minted' = minted + 1 /\ todo > 0
  BY DEF WriteRecord, dbVars
<1>2. minted \in Nat /\ todo \in Nat /\ MaxEvents \in Nat /\ minted + todo <= MaxEvents
  BY ConstantsAssumption DEF TypeInv, TypeOK, BatchFits, ConstantsAssumption
<1>3. minted + 1 \in Events /\ minted + 1 \notin Written /\ Written' = Written \cup {minted + 1}
  BY <1>1, <1>2 DEF Events, Written
<1>4. ALO!Write(minted + 1)
  BY <1>1, <1>3 DEF ALO!Write
<1> QED BY <1>3, <1>4 DEF AbstractStep, ALO!Next

\* A pending row is open in the abstract specification.
LEMMA PendingOpen ==
  ASSUME RowsWritten, NEW e \in Events, NEW s \in Sinks, row[<<e, s>>] = "pending"
  PROVE  ALO!Open(e, s)
<1>1. e \in Written \ Alerts
  BY DEF RowsWritten
<1> QED BY <1>1 DEF ALO!Open

LEMMA TransportImplements ==
  ASSUME RowInv, NEW p \in Procs, NEW e \in Events, NEW s \in Sinks,
         NEW o \in Outcomes, NEW a \in BOOLEAN, Transport(p, e, s, o, a)
  PROVE  AbstractStep
<1>1. UNCHANGED <<minted, row>> /\ row[<<e, s>>] = "pending"
  BY DEF Transport, fileVars, dbVars
<1>2. CASE received' = received
  BY <1>1, <1>2, StutterFrame
<1>3. CASE received' = received \cup {<<e, s>>}
  <2>1. ALO!Open(e, s)
    BY <1>1, PendingOpen DEF RowInv
  <2>2. ALO!Receive(e, s)
    BY <1>1, <1>3, <2>1 DEF ALO!Receive, Written
  <2> QED BY <2>2 DEF AbstractStep, ALO!Next
<1> QED BY <1>2, <1>3 DEF Transport

LEMMA RecordDeliveryImplements ==
  ASSUME TypeInv, RowInv, NEW p \in Procs, RecordDelivery(p)
  PROVE  AbstractStep
<1>1. UNCHANGED <<minted, received>>
  BY DEF RecordDelivery, fileVars
<1>2. PICK f \in flight : row' = [row EXCEPT ![<<f[1], f[2]>>] = f[3]]
  BY DEF RecordDelivery
<1>3. PICK e \in Events, s \in Sinks, o \in Outcomes : f = <<e, s, o>>
  BY DEF TypeInv, TypeOK
<1>4. /\ row' = [row EXCEPT ![<<e, s>>] = o] /\ row \in [Events \X Sinks -> {"none"} \cup Outcomes]
      /\ row[<<e, s>>] = "pending" /\ (o = "acked" => <<e, s>> \in received)
  BY <1>2, <1>3 DEF TypeInv, TypeOK, RowInv, FlightPending
<1>5. ALO!Open(e, s)
  BY <1>4, PendingOpen DEF RowInv
<1>6. CASE o = "acked"
  <2>1. Acked' = Acked \cup {<<e, s>>} /\ Dead' = Dead
    BY <1>4, <1>6 DEF Acked, Dead
  <2>2. ALO!Acknowledge(e, s)
    BY <1>1, <1>4, <1>5, <1>6, <2>1 DEF ALO!Acknowledge, Acked, Dead, Written
  <2> QED BY <2>2 DEF AbstractStep, ALO!Next
<1>7. CASE o = "dead"
  <2>1. Acked' = Acked /\ Dead' = Dead \cup {<<e, s>>}
    BY <1>4, <1>7 DEF Acked, Dead
  <2>2. ALO!Abandon(e, s)
    BY <1>1, <1>5, <2>1 DEF ALO!Abandon, Acked, Dead, Written
  <2> QED BY <2>2 DEF AbstractStep, ALO!Next
<1>8. CASE o \in {"pending", "blocked"}
  <2>1. Acked' = Acked /\ Dead' = Dead
    BY <1>4, <1>8 DEF Acked, Dead
  <2> QED BY <1>1, <2>1 DEF AbstractStep, Written
<1> QED BY <1>6, <1>7, <1>8 DEF Outcomes

LEMMA StepImplements == RefInv /\ [Next]_vars => AbstractStep
<1> SUFFICES ASSUME TypeInv, LocksHeld, RowInv, [Next]_vars PROVE AbstractStep
  BY DEF RefInv
<1>1. ASSUME NEW p \in Procs, NEW n \in 0..MaxBatch, StartPersist(p, n) PROVE AbstractStep
  BY <1>1, StutterFrame DEF StartPersist, fileVars, dbVars
<1>2. ASSUME NEW p \in Procs, ReconcileEmpty(p) PROVE AbstractStep
  BY <1>2, StutterFrame DEF ReconcileEmpty, fileVars, dbVars
<1>3. ASSUME NEW p \in Procs, ReconcileRefuses(p) PROVE AbstractStep
  BY <1>3, StutterFrame DEF ReconcileRefuses, fileVars, dbVars
<1>4. ASSUME NEW p \in Procs, NEW g \in Gens, Reconcile(p, g) PROVE AbstractStep
  BY <1>4, ReconcileImplements
<1>5. ASSUME NEW p \in Procs, EndPredrain(p) PROVE AbstractStep
  BY <1>5, StutterFrame DEF EndPredrain, fileVars, dbVars
<1>6. ASSUME NEW p \in Procs, Admit(p) PROVE AbstractStep
  BY <1>6, StutterFrame DEF Admit, fileVars, dbVars
<1>7. ASSUME NEW p \in Procs, RejectFull(p) PROVE AbstractStep
  BY <1>7, StutterFrame DEF RejectFull, fileVars, dbVars
<1>8. ASSUME NEW p \in Procs, RefuseTornTail(p) PROVE AbstractStep
  BY <1>8, StutterFrame DEF RefuseTornTail, fileVars, dbVars
<1>9. ASSUME NEW p \in Procs, JsonlBusy(p) PROVE AbstractStep
  BY <1>9, StutterFrame DEF JsonlBusy, fileVars, dbVars
<1>10. ASSUME NEW p \in Procs, KeepActive(p) PROVE AbstractStep
  BY <1>10, StutterFrame DEF KeepActive, fileVars, dbVars
<1>11. ASSUME NEW p \in Procs, NEW g \in Gens, NEW n \in NamesOf(today), Rotate(p, g, n) PROVE AbstractStep
  BY <1>11, StutterFrame DEF Rotate, fileVars, dbVars
<1>12. ASSUME NEW p \in Procs, OpenActive(p) PROVE AbstractStep
  BY <1>12, StutterFrame DEF OpenActive, fileVars, dbVars
<1>13. ASSUME NEW p \in Procs, NEW g \in Gens, CreateActive(p, g) PROVE AbstractStep
  BY <1>13, StutterFrame DEF CreateActive, fileVars, dbVars
<1>14. ASSUME NEW p \in Procs, NEW g \in Gens, WriteRecord(p, g) PROVE AbstractStep
  BY <1>14, WriteRecordImplements
<1>15. ASSUME NEW p \in Procs, EndAppend(p) PROVE AbstractStep
  BY <1>15, StutterFrame DEF EndAppend, fileVars, dbVars
<1>16. ASSUME NEW p \in Procs, StartDeliver(p) PROVE AbstractStep
  BY <1>16, StutterFrame DEF StartDeliver, fileVars, dbVars
<1>17. ASSUME NEW p \in Procs, NEW e \in Events, NEW s \in Sinks, NEW o \in Outcomes,
             NEW a \in BOOLEAN, Transport(p, e, s, o, a) PROVE AbstractStep
  BY <1>17, TransportImplements
<1>18. ASSUME NEW p \in Procs, RecordDelivery(p) PROVE AbstractStep
  BY <1>18, RecordDeliveryImplements
<1>19. ASSUME NEW p \in Procs, EndDeliver(p) PROVE AbstractStep
  BY <1>19, StutterFrame DEF EndDeliver, fileVars, dbVars
<1>20. ASSUME NEW p \in Procs, PruneSkipped(p) PROVE AbstractStep
  BY <1>20, StutterFrame DEF PruneSkipped, fileVars, dbVars
<1>21. ASSUME NEW p \in Procs, StartPrune(p) PROVE AbstractStep
  BY <1>21, StutterFrame DEF StartPrune, fileVars, dbVars
<1>22. ASSUME NEW p \in Procs, FinalizePrune(p) PROVE AbstractStep
  BY <1>22, StutterFrame DEF FinalizePrune, fileVars, dbVars
<1>23. ASSUME NEW p \in Procs, EndPrune(p) PROVE AbstractStep
  BY <1>23, StutterFrame DEF EndPrune, fileVars, dbVars
<1>24. ASSUME NEW p \in Procs, NEW g \in Gens, FinalizeAbsent(p, g) PROVE AbstractStep
  BY <1>24, StutterFrame DEF FinalizeAbsent, fileVars, dbVars
<1>25. ASSUME NEW p \in Procs, NEW g \in Gens, RestorePresent(p, g) PROVE AbstractStep
  BY <1>25, StutterFrame DEF RestorePresent, fileVars, dbVars
<1>26. ASSUME NEW p \in Procs, NEW g \in Gens, Unlink(p, g) PROVE AbstractStep
  BY <1>26, StutterFrame DEF Unlink, fileVars, dbVars
<1>27. ASSUME NEW p \in Procs, NEW g \in Gens, ClaimForPrune(p, g) PROVE AbstractStep
  BY <1>27, StutterFrame DEF ClaimForPrune, fileVars, dbVars
<1>28. ASSUME NEW p \in Procs, Crash(p) PROVE AbstractStep
  BY <1>28, StutterFrame DEF Crash, fileVars, dbVars
<1>29. ASSUME NEW p \in Procs, DispatchFails(p) PROVE AbstractStep
  BY <1>29, StutterFrame DEF DispatchFails, fileVars, dbVars
<1>30. ASSUME NEW p \in Procs, NEW g \in Gens, TearRecord(p, g) PROVE AbstractStep
  BY <1>30, StutterFrame DEF TearRecord, fileVars, dbVars
<1>31. ASSUME NEW p \in Procs, NEW g \in Gens, RecoverFails(p, g) PROVE AbstractStep
  BY <1>31, StutterFrame DEF RecoverFails, fileVars, dbVars
<1>32. ASSUME NEW s \in Sinks, ReleaseBlocked(s) PROVE AbstractStep
  BY <1>32, ReleaseBlockedImplements
<1>33. ASSUME NextDay PROVE AbstractStep
  BY <1>33, StutterFrame DEF NextDay, fileVars, dbVars
<1>34. ASSUME NEW g \in Gens, RepairTail(g) PROVE AbstractStep
  BY <1>34, StutterFrame DEF RepairTail, fileVars, dbVars
<1>35. ASSUME UNCHANGED vars PROVE AbstractStep
  BY <1>35, StutterFrame DEF vars
<1>36. ASSUME NEW p \in Procs, PersistStep(p) PROVE AbstractStep
  BY <1>36, <1>1, <1>2, <1>3, <1>4, <1>5, <1>6, <1>7, <1>8, <1>9, <1>10, <1>11, <1>12, <1>13, <1>14, <1>15
  DEF PersistStep
<1>37. ASSUME NEW p \in Procs, DispatchStep(p) PROVE AbstractStep
  BY <1>37, <1>16, <1>17, <1>18, <1>19
  DEF DispatchStep
<1>38. ASSUME NEW p \in Procs, PruneStep(p) PROVE AbstractStep
  BY <1>38, <1>20, <1>21, <1>22, <1>23, <1>24, <1>25, <1>26, <1>27
  DEF PruneStep
<1>39. ASSUME NEW p \in Procs, Fault(p) PROVE AbstractStep
  BY <1>39, <1>28, <1>29, <1>30, <1>31
  DEF Fault
<1>40. ASSUME Environment PROVE AbstractStep
  BY <1>40, <1>32, <1>33, <1>34 DEF Environment
<1> QED BY <1>35, <1>36, <1>37, <1>38, <1>39, <1>40 DEF Next

\* The durable pipeline implements the delivery guarantee: only written events
\* are sent, an acknowledgement is recorded only for an event the receiver has,
\* and a settled delivery is never sent or settled again.
THEOREM ImplementsAtLeastOnce == Spec => DeliversAtLeastOnce
<1>1. Init => ALO!Init
  BY DEF Init, ALO!Init, Written
<1>2. AbstractStep => [ALO!Next]_(ALO!avars)
  BY DEF AbstractStep, Acked, Dead, ALO!avars
<1> QED BY <1>1, <1>2, InitRef, RefStep, StepImplements, PTL DEF Spec, DeliversAtLeastOnce, ALO!Spec

-----------------------------------------------------------------------------
(***************************************************************************)
(* Rows, queue and recovery.                                               *)
(***************************************************************************)
(* Which steps touch the events, the rows and the journal.                 *)

StartsOrEnds(p) ==
  \/ \E n \in 0..MaxBatch : StartPersist(p, n)
  \/ ReconcileEmpty(p) \/ ReconcileRefuses(p) \/ EndPredrain(p) \/ RejectFull(p)
  \/ RefuseTornTail(p) \/ JsonlBusy(p) \/ KeepActive(p) \/ OpenActive(p) \/ EndAppend(p)
  \/ StartDeliver(p) \/ EndDeliver(p) \/ PruneSkipped(p) \/ StartPrune(p) \/ EndPrune(p)
  \/ Crash(p) \/ DispatchFails(p)
MovesFile(p, g) ==
  \/ \E n \in NamesOf(today) : Rotate(p, g, n)
  \/ CreateActive(p, g) \/ TearRecord(p, g) \/ FinalizeAbsent(p, g) \/ RestorePresent(p, g)
  \/ Unlink(p, g) \/ ClaimForPrune(p, g) \/ RecoverFails(p, g)

\* Every step is one of these.
LEMMA StepKinds ==
  ASSUME [Next]_vars
  PROVE  \/ \E p \in Procs : StartsOrEnds(p) \/ Admit(p) \/ RecordDelivery(p) \/ FinalizePrune(p)
         \/ \E p \in Procs, g \in Gens : MovesFile(p, g) \/ Reconcile(p, g) \/ WriteRecord(p, g)
         \/ \E p \in Procs, e \in Events, s \in Sinks, o \in Outcomes, a \in BOOLEAN :
              Transport(p, e, s, o, a)
         \/ \E s \in Sinks : ReleaseBlocked(s)
         \/ \E g \in Gens : RepairTail(g)
         \/ NextDay \/ UNCHANGED vars
<1>1. ASSUME NEW p \in Procs, PersistStep(p)
      PROVE  \/ StartsOrEnds(p) \/ Admit(p)
             \/ \E g \in Gens : MovesFile(p, g) \/ Reconcile(p, g) \/ WriteRecord(p, g)
  BY <1>1 DEF PersistStep, StartsOrEnds, MovesFile
<1>2. ASSUME NEW p \in Procs, DispatchStep(p)
      PROVE  \/ StartsOrEnds(p) \/ RecordDelivery(p)
             \/ \E e \in Events, s \in Sinks, o \in Outcomes, a \in BOOLEAN :
                  Transport(p, e, s, o, a)
  BY <1>2 DEF DispatchStep, StartsOrEnds
<1>3. ASSUME NEW p \in Procs, PruneStep(p)
      PROVE  StartsOrEnds(p) \/ FinalizePrune(p) \/ \E g \in Gens : MovesFile(p, g)
  BY <1>3 DEF PruneStep, StartsOrEnds, MovesFile
<1>4. ASSUME NEW p \in Procs, Fault(p)
      PROVE  StartsOrEnds(p) \/ \E g \in Gens : MovesFile(p, g)
  BY <1>4 DEF Fault, StartsOrEnds, MovesFile
<1>5. ASSUME NEW p \in Procs, PersistStep(p) \/ DispatchStep(p) \/ PruneStep(p) \/ Fault(p)
      PROVE  \/ StartsOrEnds(p) \/ Admit(p) \/ RecordDelivery(p) \/ FinalizePrune(p)
             \/ \E g \in Gens : MovesFile(p, g) \/ Reconcile(p, g) \/ WriteRecord(p, g)
             \/ \E e \in Events, s \in Sinks, o \in Outcomes, a \in BOOLEAN :
                  Transport(p, e, s, o, a)
  BY <1>1, <1>2, <1>3, <1>4, <1>5
<1>6. ASSUME Environment
      PROVE  (\E s \in Sinks : ReleaseBlocked(s)) \/ NextDay \/ \E g \in Gens : RepairTail(g)
  BY <1>6 DEF Environment
<1> QED BY <1>5, <1>6 DEF Next

\* The others leave the events, the rows and the number of records alone.
LEMMA TableFrame ==
  ASSUME [Next]_vars
  PROVE  \/ \E p \in Procs, g \in Gens : Reconcile(p, g) \/ WriteRecord(p, g)
         \/ \E p \in Procs : RecordDelivery(p)
         \/ \E s \in Sinks : ReleaseBlocked(s)
         \/ UNCHANGED <<minted, stored, row>>
<1>1. ASSUME NEW p \in Procs, StartsOrEnds(p) PROVE UNCHANGED <<minted, stored, row>>
  BY <1>1 DEF StartsOrEnds, StartPersist, ReconcileEmpty, ReconcileRefuses, EndPredrain,
              RejectFull, RefuseTornTail, JsonlBusy, KeepActive, OpenActive, EndAppend,
              StartDeliver, EndDeliver, PruneSkipped, StartPrune, EndPrune, Crash,
              DispatchFails, fileVars, dbVars
<1>2. ASSUME NEW p \in Procs, NEW g \in Gens, MovesFile(p, g)
      PROVE  UNCHANGED <<minted, stored, row>>
  BY <1>2 DEF MovesFile, Rotate, CreateActive, TearRecord, FinalizeAbsent, RestorePresent,
              Unlink, ClaimForPrune, RecoverFails, fileVars, dbVars
<1>3. ASSUME NEW p \in Procs, Admit(p) \/ FinalizePrune(p)
      PROVE  UNCHANGED <<minted, stored, row>>
  BY <1>3 DEF Admit, FinalizePrune, fileVars, dbVars
<1>4. ASSUME NEW p \in Procs, NEW e \in Events, NEW s \in Sinks, NEW o \in Outcomes,
             NEW a \in BOOLEAN, Transport(p, e, s, o, a)
      PROVE  UNCHANGED <<minted, stored, row>>
  BY <1>4 DEF Transport, fileVars, dbVars
<1>5. ASSUME NextDay \/ UNCHANGED vars \/ \E g \in Gens : RepairTail(g)
      PROVE  UNCHANGED <<minted, stored, row>>
  BY <1>5 DEF NextDay, vars, RepairTail, dbVars
<1> QED BY StepKinds, <1>1, <1>2, <1>3, <1>4, <1>5

-----------------------------------------------------------------------------
(* Rows follow events.                                                     *)

LEMMA FollowStep ==
  ASSUME RefInv, RowsFollowEvents, [Next]_vars
  PROVE  RowsFollowEvents'
<1> USE DEF RefInv, TypeInv
<1>1. ASSUME NEW p \in Procs, NEW g \in Gens, Reconcile(p, g) PROVE RowsFollowEvents'
  BY <1>1 DEF Reconcile, Inserted, RowsFollowEvents
<1>2. ASSUME NEW p \in Procs, NEW g \in Gens, WriteRecord(p, g) PROVE RowsFollowEvents'
  BY <1>2 DEF WriteRecord, dbVars, RowsFollowEvents
<1>3. ASSUME NEW p \in Procs, RecordDelivery(p) PROVE RowsFollowEvents'
  <2>1. PICK f \in flight : row' = [row EXCEPT ![<<f[1], f[2]>>] = f[3]]
    BY <1>3 DEF RecordDelivery
  <2>2. row[<<f[1], f[2]>>] # "none" /\ f[3] # "none" /\ stored' = stored
    BY <1>3 DEF RecordDelivery, RowInv, FlightPending, TypeOK, Outcomes
  <2>3. \A es \in Events \X Sinks : row'[es] # "none" <=> row[es] # "none"
    BY <2>1, <2>2 DEF TypeOK
  <2> QED BY <2>2, <2>3 DEF RowsFollowEvents
<1>4. ASSUME NEW s \in Sinks, ReleaseBlocked(s) PROVE RowsFollowEvents'
  BY <1>4 DEF ReleaseBlocked, RowsFollowEvents
<1>5. ASSUME UNCHANGED <<minted, stored, row>> PROVE RowsFollowEvents'
  BY <1>5 DEF RowsFollowEvents
<1> QED BY TableFrame, <1>1, <1>2, <1>3, <1>4, <1>5

\* Delivery rows exist exactly for the ingested events that are not alerts:
\* reconcile_jsonl creates them with the event, and neither a recorded result
\* nor retry-blocked adds or removes one.
THEOREM RowsAlwaysFollowEvents == Spec => []RowsFollowEvents
<1>1. Init => RowsFollowEvents
  BY DEF Init, RowsFollowEvents
<1> QED BY <1>1, InitRef, RefStep, FollowStep, PTL DEF Spec

-----------------------------------------------------------------------------
(* The capacity of the queue.                                              *)

\* What counts against the capacity.
Queued == OpenEvents \cup (Written \ (stored \cup Alerts))

\* An admitted batch has room for the events it has yet to write.
AdmittedLabels == {"append", "open", "write"}
RoomForBatch ==
  \A p \in Procs : pc[p] \in AdmittedLabels => Cardinality(Queued) + todo <= MaxPending

QueueInv == RowsFollowEvents /\ QueueWithinCapacity /\ RoomForBatch

LEMMA QueuedFinite ==
  ASSUME TypeInv
  PROVE  IsFiniteSet(Queued) /\ Cardinality(Queued) \in Nat
<1>1. minted \in Nat /\ MaxEvents \in Nat /\ minted <= MaxEvents
  BY ConstantsAssumption DEF TypeInv, TypeOK, ConstantsAssumption
<1>2. Queued \subseteq 1..MaxEvents
  BY <1>1 DEF Queued, OpenEvents, Events, Written
<1>3. IsFiniteSet(1..MaxEvents)
  BY <1>1, FS_Interval
<1> QED BY <1>2, <1>3, FS_Subset, FS_CardinalityType

\* Steps that add nothing to the queue.
LEMMA QueueFrame ==
  ASSUME TypeInv, Queued' \subseteq Queued
  PROVE  /\ Cardinality(Queued)' \in Nat
         /\ Cardinality(Queued)' <= Cardinality(Queued)
<1>1. IsFiniteSet(Queued)
  BY QueuedFinite
<1>2. IsFiniteSet(Queued') /\ Cardinality(Queued') <= Cardinality(Queued)
  BY <1>1, FS_Subset
<1> QED BY <1>2, FS_CardinalityType

\* Only a written record adds to the queue, and it adds at most one.
LEMMA QueueGrows ==
  ASSUME RefInv, RowsFollowEvents, [Next]_vars
  PROVE  \/ Queued' \subseteq Queued
         \/ \E p \in Procs, g \in Gens : WriteRecord(p, g) /\ Queued' \subseteq Queued \cup {minted + 1}
<1> USE DEF RefInv, TypeInv
<1>1. ASSUME NEW p \in Procs, NEW g \in Gens, Reconcile(p, g) PROVE Queued' \subseteq Queued
  <2>1. stored' = stored \cup ReadEvents /\ minted' = minted
    BY <1>1 DEF Reconcile, fileVars
  <2>2. ReadEvents \subseteq Written
    BY ReadEventsWritten DEF RowInv
  <2>3. ASSUME NEW e \in OpenEvents' PROVE e \in Queued
    <3>1. PICK s \in Sinks : e \in Events /\ row'[<<e, s>>] \in {"pending", "blocked"}
      BY <2>3 DEF OpenEvents
    <3>2. CASE row[<<e, s>>] = "none"
      <4>1. e \in ReadEvents \ Alerts
        BY <1>1, <3>1, <3>2 DEF Reconcile, Inserted
      <4>2. e \notin stored
        BY <3>1, <3>2, <4>1 DEF RowsFollowEvents
      <4> QED BY <2>2, <4>1, <4>2 DEF Queued
    <3>3. CASE row[<<e, s>>] # "none"
      <4>1. row[<<e, s>>] \in {"pending", "blocked"}
        BY <1>1, <3>1, <3>3 DEF Reconcile
      <4> QED BY <3>1, <4>1 DEF Queued, OpenEvents
    <3> QED BY <3>2, <3>3
  <2> QED BY <2>1, <2>3 DEF Queued, Written
<1>2. ASSUME NEW p \in Procs, NEW g \in Gens, WriteRecord(p, g)
      PROVE  Queued' \subseteq Queued \cup {minted + 1}
  <2>1. minted' = minted + 1 /\ row' = row /\ stored' = stored /\ minted \in Nat
    BY <1>2 DEF WriteRecord, dbVars, TypeOK
  <2>2. Written' \subseteq Written \cup {minted + 1}
    BY <2>1 DEF Written
  <2> QED BY <2>1, <2>2 DEF Queued, OpenEvents
<1>3. ASSUME NEW p \in Procs, RecordDelivery(p) PROVE Queued' \subseteq Queued
  <2>1. PICK f \in flight : row' = [row EXCEPT ![<<f[1], f[2]>>] = f[3]]
    BY <1>3 DEF RecordDelivery
  <2>2. row[<<f[1], f[2]>>] = "pending" /\ stored' = stored /\ minted' = minted
    BY <1>3 DEF RecordDelivery, RowInv, FlightPending, fileVars
  <2>3. \A es \in Events \X Sinks :
          row'[es] \in {"pending", "blocked"} => row[es] \in {"pending", "blocked"}
    BY <2>1, <2>2 DEF TypeOK
  <2> QED BY <2>2, <2>3 DEF Queued, OpenEvents, Written
<1>4. ASSUME NEW s \in Sinks, ReleaseBlocked(s) PROVE Queued' \subseteq Queued
  <2>1. stored' = stored /\ minted' = minted
    BY <1>4 DEF ReleaseBlocked, fileVars
  <2>2. \A es \in Events \X Sinks :
          row'[es] \in {"pending", "blocked"} => row[es] \in {"pending", "blocked"}
    BY <1>4 DEF ReleaseBlocked
  <2> QED BY <2>1, <2>2 DEF Queued, OpenEvents, Written
<1>5. ASSUME UNCHANGED <<minted, stored, row>> PROVE Queued' \subseteq Queued
  BY <1>5 DEF Queued, OpenEvents, Written
<1> QED BY TableFrame, <1>1, <1>2, <1>3, <1>4, <1>5

\* Nobody but Admit lets a process in, and the batch of a process that is in
\* only shrinks.
LEMMA StaysAdmitted ==
  ASSUME TypeInv, LocksHeld, [Next]_vars, NEW q \in Procs, pc'[q] \in AdmittedLabels
  PROVE  \/ Admit(q)
         \/ \E g \in Gens : WriteRecord(q, g)
         \/ pc[q] \in AdmittedLabels /\ todo' = todo
<1> USE DEF TypeInv
<1>0. NoProc \notin Procs /\ (pc[q] \in AdmittedLabels => admission = q)
  BY ConstantsAssumption DEF ConstantsAssumption, LocksHeld, AdmittedLabels, AdmissionLabels
<1>1. ASSUME NEW p \in Procs, Leave(p) PROVE pc[q] \in AdmittedLabels /\ todo' = todo
  BY <1>0, <1>1 DEF Leave, TypeOK, AdmittedLabels
<1>2. ASSUME NEW p \in Procs, StartsOrEnds(p) PROVE pc[q] \in AdmittedLabels /\ todo' = todo
  <2>1. ASSUME NEW n \in 0..MaxBatch, StartPersist(p, n) PROVE pc[q] \in AdmittedLabels /\ todo' = todo
    BY <1>0, <2>1 DEF StartPersist, Goto, TypeOK, AdmittedLabels
  <2>2. ASSUME \/ ReconcileEmpty(p) \/ EndPredrain(p) \/ KeepActive(p) \/ OpenActive(p)
               \/ EndAppend(p) \/ StartDeliver(p) \/ EndDeliver(p) \/ StartPrune(p)
        PROVE  pc[q] \in AdmittedLabels /\ todo' = todo
    BY <2>2 DEF ReconcileEmpty, AfterReconcile, EndPredrain, KeepActive, OpenActive, EndAppend,
                StartDeliver, EndDeliver, StartPrune, Goto, TypeOK, AdmittedLabels
  <2>3. ASSUME \/ ReconcileRefuses(p) \/ RejectFull(p) \/ RefuseTornTail(p) \/ JsonlBusy(p)
               \/ PruneSkipped(p) \/ EndPrune(p) \/ Crash(p) \/ DispatchFails(p)
        PROVE  pc[q] \in AdmittedLabels /\ todo' = todo
    BY <1>1, <2>3 DEF ReconcileRefuses, RejectFull, RefuseTornTail, JsonlBusy, PruneSkipped,
                      EndPrune, Crash, DispatchFails
  <2> QED BY <1>2, <2>1, <2>2, <2>3 DEF StartsOrEnds
<1>3. ASSUME NEW p \in Procs, NEW g \in Gens, MovesFile(p, g)
      PROVE  pc[q] \in AdmittedLabels /\ todo' = todo
  <2>1. CASE TearRecord(p, g)
    BY <1>1, <2>1 DEF TearRecord
  <2>2. CASE ~TearRecord(p, g)
    BY <1>3, <2>2 DEF MovesFile, Rotate, CreateActive, FinalizeAbsent, RestorePresent, Unlink,
                      ClaimForPrune, RecoverFails, Goto, TypeOK, AdmittedLabels
  <2> QED BY <2>1, <2>2
<1>4. ASSUME NEW p \in Procs, NEW g \in Gens, Reconcile(p, g)
      PROVE  pc[q] \in AdmittedLabels /\ todo' = todo
  BY <1>4 DEF Reconcile, AfterReconcile, Goto, TypeOK, AdmittedLabels
<1>5. ASSUME NEW p \in Procs, NEW g \in Gens, WriteRecord(p, g) PROVE WriteRecord(q, g)
  <2>1. admission = p /\ pc' = pc
    BY <1>5 DEF WriteRecord, LocksHeld, AdmissionLabels
  <2> QED BY <1>0, <1>5, <2>1
<1>6. ASSUME NEW p \in Procs, Admit(p) PROVE Admit(q)
  <2>1. admission = p
    BY <1>6 DEF Admit, LocksHeld, AdmissionLabels
  <2>2. CASE q = p
    BY <1>6, <2>2
  <2>3. CASE q # p
    BY <1>0, <1>6, <2>1, <2>3 DEF Admit, Goto, TypeOK
  <2> QED BY <2>2, <2>3
<1>7. ASSUME NEW p \in Procs, RecordDelivery(p) \/ FinalizePrune(p)
      PROVE  pc[q] \in AdmittedLabels /\ todo' = todo
  BY <1>7 DEF RecordDelivery, FinalizePrune, Goto, TypeOK, AdmittedLabels
<1>8. ASSUME NEW p \in Procs, NEW e \in Events, NEW s \in Sinks, NEW o \in Outcomes,
             NEW a \in BOOLEAN, Transport(p, e, s, o, a)
      PROVE  pc[q] \in AdmittedLabels /\ todo' = todo
  BY <1>8 DEF Transport
<1>9. ASSUME NextDay \/ UNCHANGED vars \/ (\E g \in Gens : RepairTail(g))
               \/ (\E s \in Sinks : ReleaseBlocked(s))
      PROVE  pc[q] \in AdmittedLabels /\ todo' = todo
  BY <1>9 DEF NextDay, vars, RepairTail, ReleaseBlocked
<1> QED BY StepKinds, <1>2, <1>3, <1>4, <1>5, <1>6, <1>7, <1>8, <1>9

\* The capacity check leaves room for the batch.
LEMMA AdmitRoom ==
  ASSUME RefInv, CaughtUp, NEW p \in Procs, Admit(p)
  PROVE  Cardinality(Queued) + todo <= MaxPending /\ todo' = todo
<1> USE DEF RefInv, TypeInv
<1>1. Written \subseteq stored /\ todo' = todo
  BY DEF Admit, CaughtUp, QuietLabels
<1>2. Queued = OpenEvents
  BY <1>1 DEF Queued
<1>3. MaxEvents \in Nat /\ MaxPending \in Nat /\ todo \in Nat
  BY ConstantsAssumption DEF ConstantsAssumption, TypeOK
<1>4. UnreadEvents \ stored = {}
  <2> SUFFICES ASSUME NEW e \in UnreadEvents PROVE e \in Written
    BY <1>1
  <2>1. PICK g \in Gens : e \in PayloadsOf(g)
    BY DEF UnreadEvents, UnreadGens
  <2>2. PICK i \in StartOf(g)..Len(recs[g]) : e = recs[g][i]
    BY <2>1 DEF PayloadsOf
  <2>3. i \in DOMAIN recs[g]
    BY <2>2, PayloadsNat
  <2> QED BY <2>2, <2>3 DEF RowInv, RecsWritten
<1>5. Cardinality(Queued) \in Nat
  BY QueuedFinite
<1>6. Cardinality(OpenEvents) + 0 + todo <= MaxPending
  BY <1>4, FS_EmptySet DEF Admit, HasRoom
<1> QED BY <1>1, <1>2, <1>3, <1>5, <1>6

LEMMA QueueStep ==
  ASSUME SafeInv, RefInv, QueueInv, [Next]_vars
  PROVE  QueueInv'
<1>0. TypeInv /\ LocksHeld /\ CaughtUp /\ TypeInv'
  BY RefStep DEF SafeInv, RefInv
<1>1. MaxPending \in Nat /\ minted \in Nat /\ todo \in Nat /\ todo' \in Nat
  BY <1>0, ConstantsAssumption DEF ConstantsAssumption, TypeInv, TypeOK
<1>2. RowsFollowEvents'
  BY FollowStep DEF QueueInv
<1>3. Cardinality(Queued) \in Nat /\ Cardinality(Queued) <= MaxPending
  BY <1>0, QueuedFinite DEF QueueInv, QueueWithinCapacity, Queued
<1>4. CASE Queued' \subseteq Queued
  <2>1. Cardinality(Queued)' \in Nat /\ Cardinality(Queued)' <= Cardinality(Queued)
    BY <1>0, <1>4, QueueFrame
  <2>2. QueueWithinCapacity'
    BY <1>1, <1>3, <2>1 DEF QueueWithinCapacity, Queued
  <2>3. ASSUME NEW q \in Procs, pc'[q] \in AdmittedLabels
        PROVE  Cardinality(Queued)' + todo' <= MaxPending
    <3>1. CASE Admit(q)
      BY <1>0, <1>1, <1>3, <2>1, <3>1, AdmitRoom
    <3>2. ASSUME NEW g \in Gens, WriteRecord(q, g) PROVE Cardinality(Queued)' + todo' <= MaxPending
      <4>1. pc[q] \in AdmittedLabels /\ todo' = todo - 1
        BY <3>2 DEF WriteRecord, AdmittedLabels
      <4> QED BY <1>1, <1>3, <2>1, <4>1 DEF QueueInv, RoomForBatch
    <3>3. CASE pc[q] \in AdmittedLabels /\ todo' = todo
      BY <1>1, <1>3, <2>1, <3>3 DEF QueueInv, RoomForBatch
    <3> QED BY <1>0, <2>3, <3>1, <3>2, <3>3, StaysAdmitted
  <2> QED BY <1>2, <2>2, <2>3 DEF QueueInv, RoomForBatch
<1>5. ASSUME NEW p \in Procs, NEW g \in Gens, WriteRecord(p, g),
             Queued' \subseteq Queued \cup {minted + 1}
      PROVE  QueueInv'
  <2>1. IsFiniteSet(Queued) /\ Cardinality(Queued) \in Nat
    BY <1>0, QueuedFinite
  <2>2. /\ IsFiniteSet(Queued \cup {minted + 1})
        /\ Cardinality(Queued \cup {minted + 1}) <= Cardinality(Queued) + 1
    <3> DEFINE m == minted + 1
    <3> HIDE DEF m
    <3>1. /\ IsFiniteSet(Queued \cup {m})
          /\ Cardinality(Queued \cup {m}) =
               IF m \in Queued THEN Cardinality(Queued) ELSE Cardinality(Queued) + 1
      BY <2>1, FS_AddElement
    <3> QED BY <2>1, <3>1 DEF m
  <2>3. Cardinality(Queued') \in Nat /\ Cardinality(Queued') <= Cardinality(Queued) + 1
    <3>1. IsFiniteSet(Queued') /\ Cardinality(Queued') <= Cardinality(Queued \cup {minted + 1})
      BY <1>5, <2>2, FS_Subset
    <3>2. Cardinality(Queued') \in Nat /\ Cardinality(Queued \cup {minted + 1}) \in Nat
      BY <2>2, <3>1, FS_CardinalityType
    <3> QED BY <2>1, <2>2, <3>1, <3>2
  <2>4. todo > 0 /\ todo' = todo - 1 /\ Cardinality(Queued) + todo <= MaxPending
    BY <1>5 DEF WriteRecord, QueueInv, RoomForBatch, AdmittedLabels
  <2>5. Cardinality(Queued') + todo' <= MaxPending
    BY <1>1, <1>3, <2>3, <2>4
  <2>6. QueueWithinCapacity'
    BY <1>1, <2>3, <2>5 DEF QueueWithinCapacity, Queued
  <2> QED BY <1>2, <2>5, <2>6 DEF QueueInv, RoomForBatch
<1> QED BY <1>4, <1>5, QueueGrows DEF QueueInv

\* The bounded queue: the events with an open delivery and those written but
\* not yet ingested never exceed max_pending_events.  A batch that was admitted
\* keeps its room until it is written, whatever prunes and releases happen.
THEOREM QueueBounded == Spec => []QueueWithinCapacity
<1>1. Init => QueueInv
  <2> SUFFICES ASSUME Init PROVE QueueInv
    OBVIOUS
  <2>1. Queued = {}
    <3>1. OpenEvents = {}
      BY DEF Init, OpenEvents
    <3>2. Written = {}
      BY DEF Init, Written
    <3> QED BY <3>1, <3>2 DEF Queued
  <2>2. QueueWithinCapacity
    BY <2>1, FS_EmptySet, ConstantsAssumption DEF QueueWithinCapacity, Queued, ConstantsAssumption
  <2>3. RoomForBatch
    BY DEF Init, RoomForBatch, AdmittedLabels
  <2> QED BY <2>2, <2>3 DEF QueueInv, Init, RowsFollowEvents
<1>2. QueueInv => QueueWithinCapacity
  BY DEF QueueInv
<1> QED BY <1>1, <1>2, InitSafe, SafeStep, InitRef, RefStep, QueueStep, PTL DEF Spec
-----------------------------------------------------------------------------
(* Recovery is never refused.                                              *)

\* The life of a file as the database has it agrees with the directory.
LifeListed ==
  /\ \A g \in Gens : life[g] = "present" => g \in Listed
  /\ \A g \in Gens : life[g] = "pruned" => g \notin Listed

\* The file of an open removal is gone, and its identity is known.
VictimGone == victim \in Gens => dir[victim] = Absent /\ life[victim] # "none"

\* The observed length does not exceed the file.
SeenFits == cursor # NoCursor => cursor.seen <= Size(cursor.gen)

RecoverInv == LifeListed /\ VictimGone /\ SeenFits

LEMMA RecoverFrame ==
  ASSUME RecoverInv, UNCHANGED <<dir, recs, torn, cursor, life>>,
         victim' = victim \/ victim' \notin Gens
  PROVE  RecoverInv'
BY DEF RecoverInv, LifeListed, VictimGone, SeenFits, Listed, Size

LEMMA LeaveRecover ==
  ASSUME RecoverInv, NEW p \in Procs, Leave(p), UNCHANGED <<fileVars, dbVars>>
  PROVE  RecoverInv'
<1>1. victim' = victim \/ victim' \notin Gens
  BY ConstantsAssumption DEF Leave, ConstantsAssumption
<1> QED BY <1>1, RecoverFrame DEF fileVars, dbVars

\* The length of a file, with and without a partial record.
LEMMA SizeForm ==
  ASSUME NEW n \in Nat, NEW S, NEW g
  PROVE  /\ g \in S => n + (IF g \in S THEN 1 ELSE 0) = n + 1
         /\ g \notin S => n + (IF g \in S THEN 1 ELSE 0) = n
<1>1. CASE g \in S
  <2>1. (IF g \in S THEN 1 ELSE 0) = 1
    BY <1>1
  <2> QED BY <1>1, <2>1
<1>2. CASE g \notin S
  <2>1. (IF g \in S THEN 1 ELSE 0) = 0
    BY <1>2
  <2> QED BY <1>2, <2>1
<1> QED BY <1>1, <1>2

\* A file that grows still holds what the cursor has seen of it.
LEMMA SizeGrows ==
  ASSUME TypeInv, CursorListed, SeenFits, UNCHANGED cursor,
         \A g \in Gens : /\ recs'[g] \in Seq(Nat) /\ Len(recs[g]) <= Len(recs'[g])
                         /\ g \in torn => g \in torn'
  PROVE  SeenFits'
<1> SUFFICES ASSUME cursor # NoCursor PROVE cursor.seen <= Size(cursor.gen)'
  BY DEF SeenFits
<1>1. cursor.gen \in Gens /\ cursor.seen \in Nat
  BY DEF CursorListed, Listed, TypeInv, TypeOK
<1>2. recs[cursor.gen] \in Seq(Nat)
  BY <1>1 DEF TypeInv, TypeOK
<1>3. Len(recs[cursor.gen]) \in Nat /\ Len(recs'[cursor.gen]) \in Nat
  BY <1>1, <1>2
<1>4. /\ cursor.gen \in torn => Size(cursor.gen) = Len(recs[cursor.gen]) + 1
      /\ cursor.gen \notin torn => Size(cursor.gen) = Len(recs[cursor.gen])
  BY <1>3, SizeForm DEF Size
<1>5. /\ cursor.gen \in torn' => Size(cursor.gen)' = Len(recs'[cursor.gen]) + 1
      /\ cursor.gen \notin torn' => Size(cursor.gen)' = Len(recs'[cursor.gen])
  BY <1>3, SizeForm DEF Size
<1>6. cursor.seen <= Size(cursor.gen)
  BY DEF SeenFits
<1>7. Len(recs[cursor.gen]) <= Len(recs'[cursor.gen]) /\ (cursor.gen \in torn => cursor.gen \in torn')
  BY <1>1
<1> QED BY <1>1, <1>3, <1>4, <1>5, <1>6, <1>7

LEMMA ReconcileRecover ==
  ASSUME SafeInv, RecoverInv, NEW p \in Procs, NEW g \in Gens, Reconcile(p, g)
  PROVE  RecoverInv'
<1> USE DEF SafeInv, TypeInv, RecoverInv
<1>1. /\ UNCHANGED <<dir, recs, torn, victim>>
      /\ life' = [h \in Gens |-> IF h \in Listed /\ life[h] = "none" THEN "present" ELSE life[h]]
  BY DEF Reconcile, fileVars
<1>2. LifeListed'
  BY <1>1 DEF LifeListed, Listed
<1>3. VictimGone'
  BY <1>1 DEF VictimGone
<1>4. SeenFits'
  <2>1. CASE cursor' = cursor
    BY <1>1, <2>1 DEF SeenFits, Size
  <2>2. CASE cursor' = [gen |-> g, off |-> Len(recs[g]), seen |-> Size(g)]
    <3>1. recs[g] \in Seq(Nat)
      BY DEF TypeOK
    <3>2. Size(g) \in Nat /\ Size(g)' = Size(g)
      <4>1. Len(recs[g]) \in Nat
        BY <3>1
      <4>2. Size(g) = Len(recs[g]) + 1 \/ Size(g) = Len(recs[g])
        BY <4>1, SizeForm DEF Size
      <4>3. Size(g)' = Size(g)
        BY <1>1 DEF Size
      <4> QED BY <4>1, <4>2, <4>3
    <3>3. cursor'.gen = g /\ cursor'.seen = Size(g)
      BY <2>2
    <3> QED BY <1>1, <3>2, <3>3 DEF SeenFits, Size
  <2> QED BY <2>1, <2>2 DEF Reconcile
<1> QED BY <1>2, <1>3, <1>4

LEMMA UnlinkRecover ==
  ASSUME SafeInv, RecoverInv, NEW p \in Procs, NEW g \in Gens, Unlink(p, g)
  PROVE  RecoverInv'
<1> USE DEF SafeInv, TypeInv, RecoverInv
<1>1. /\ dir' = [dir EXCEPT ![g] = Absent] /\ recs' = [recs EXCEPT ![g] = <<>>] /\ victim' = g
      /\ UNCHANGED <<torn, cursor, life>> /\ life[g] = "prune_pending"
  BY DEF Unlink, Claimed, dbVars
<1>2. cursor # NoCursor /\ cursor.gen \in Gens /\ g # cursor.gen
  <2>1. cursor # NoCursor /\ dir[g] < dir[cursor.gen]
    BY DEF Unlink, Eligible
  <2>2. cursor.gen \in Gens /\ dir[g] \in Int
    BY <2>1, ActiveNameNat DEF DataInv, CursorListed, Listed, TypeOK, Absent
  <2> QED BY <2>1, <2>2
<1>3. LifeListed'
  BY <1>1 DEF LifeListed, Listed, TypeOK
<1>4. VictimGone'
  BY <1>1 DEF VictimGone, TypeOK
<1>5. SeenFits'
  BY <1>1, <1>2 DEF SeenFits, Size, TypeOK
<1> QED BY <1>3, <1>4, <1>5

\* The step of a file: rotation, creation, a torn write, and the prune's changes
\* of a generation's life.
LEMMA MoveRecover ==
  ASSUME SafeInv, RecoverInv, ~ReuseInodes, NEW p \in Procs, NEW g \in Gens, MovesFile(p, g)
  PROVE  RecoverInv'
<1> USE DEF SafeInv, TypeInv, RecoverInv
<1>1. ASSUME NEW n \in NamesOf(today), Rotate(p, g, n) PROVE RecoverInv'
  <2>1. /\ dir' = [dir EXCEPT ![g] = n] /\ UNCHANGED <<recs, torn, cursor, life, victim>>
        /\ dir[g] = ActiveName
    BY <1>1 DEF Rotate, ActiveGen, dbVars
  <2>2. n \in Nat /\ ActiveName \in Nat /\ Absent = -1
    BY NamesBeforeActive, ActiveNameNat DEF TypeOK, Absent
  <2>3. \A h \in Gens : (dir'[h] = Absent <=> dir[h] = Absent)
    BY <2>1, <2>2 DEF TypeOK
  <2>4. Listed' = Listed
    BY <2>3 DEF Listed
  <2> QED BY <2>1, <2>3, <2>4 DEF LifeListed, VictimGone, SeenFits, Size
<1>2. ASSUME CreateActive(p, g) PROVE RecoverInv'
  <2>1. /\ dir' = [dir EXCEPT ![g] = ActiveName] /\ UNCHANGED <<recs, torn, cursor, life, victim>>
        /\ life[g] = "none"
    BY <1>2 DEF CreateActive, Creatable, dbVars
  <2>2. ActiveName # Absent
    BY ActiveNameNat DEF Absent
  <2>3. Listed' = Listed \cup {g}
    BY <2>1, <2>2 DEF Listed, TypeOK
  <2> QED BY <2>1, <2>3 DEF LifeListed, VictimGone, SeenFits, Size, TypeOK
<1>3. ASSUME TearRecord(p, g) PROVE RecoverInv'
  <2>1. UNCHANGED <<dir, recs, cursor, life>> /\ torn' = torn \cup {g}
    BY <1>3 DEF TearRecord, dbVars
  <2>2. victim' = victim \/ victim' \notin Gens
    BY <1>3, ConstantsAssumption DEF TearRecord, Leave, ConstantsAssumption
  <2>3. SeenFits'
    <3>1. \A h \in Gens : recs[h] \in Seq(Nat) /\ Len(recs[h]) \in Nat
      BY DEF TypeOK
    <3> QED BY <2>1, <3>1, SizeGrows DEF DataInv
  <2> QED BY <2>1, <2>2, <2>3 DEF LifeListed, VictimGone, Listed
<1>4. ASSUME FinalizeAbsent(p, g) PROVE RecoverInv'
  <2>1. /\ UNCHANGED <<dir, recs, torn, cursor, victim>> /\ g \notin Listed
        /\ life' = [life EXCEPT ![g] = "pruned"]
    BY <1>4 DEF FinalizeAbsent, fileVars
  <2> QED BY <2>1 DEF LifeListed, VictimGone, SeenFits, Size, Listed, TypeOK
<1>5. ASSUME RestorePresent(p, g) PROVE RecoverInv'
  <2>1. /\ UNCHANGED <<dir, recs, torn, cursor, victim>> /\ g \in Listed
        /\ life' = [life EXCEPT ![g] = "present"]
    BY <1>5 DEF RestorePresent, fileVars
  <2> QED BY <2>1 DEF LifeListed, VictimGone, SeenFits, Size, Listed, TypeOK
<1>6. ASSUME ClaimForPrune(p, g) PROVE RecoverInv'
  <2>1. /\ UNCHANGED <<dir, recs, torn, cursor, victim>>
        /\ life' = [life EXCEPT ![g] = "prune_pending"]
    BY <1>6 DEF ClaimForPrune, fileVars
  <2> QED BY <2>1 DEF LifeListed, VictimGone, SeenFits, Size, Listed, TypeOK
<1>7. ASSUME RecoverFails(p, g) PROVE RecoverInv'
  BY <1>7, RecoverFrame DEF RecoverFails, fileVars, dbVars
<1>8. ASSUME Unlink(p, g) PROVE RecoverInv'
  BY <1>8, UnlinkRecover
<1> QED BY <1>1, <1>2, <1>3, <1>4, <1>5, <1>6, <1>7, <1>8 DEF MovesFile

LEMMA RecoverStep ==
  ASSUME SafeInv, RecoverInv, ~ReuseInodes, ~OperatorRepairs, [Next]_vars
  PROVE  RecoverInv'
<1> USE DEF SafeInv, TypeInv
<1>1. ASSUME NEW p \in Procs, StartsOrEnds(p) PROVE RecoverInv'
  <2>1. ASSUME \/ ReconcileRefuses(p) \/ RejectFull(p) \/ RefuseTornTail(p) \/ JsonlBusy(p)
               \/ PruneSkipped(p) \/ EndPrune(p) \/ Crash(p) \/ DispatchFails(p)
        PROVE  RecoverInv'
    BY <2>1, LeaveRecover DEF ReconcileRefuses, RejectFull, RefuseTornTail, JsonlBusy,
                              PruneSkipped, EndPrune, Crash, DispatchFails
  <2>2. ASSUME \/ \E n \in 0..MaxBatch : StartPersist(p, n)
               \/ ReconcileEmpty(p) \/ EndPredrain(p) \/ KeepActive(p) \/ OpenActive(p)
               \/ EndAppend(p) \/ StartDeliver(p) \/ EndDeliver(p) \/ StartPrune(p)
        PROVE  RecoverInv'
    <3>1. UNCHANGED <<dir, recs, torn, cursor, life, victim>>
      BY <2>2 DEF StartPersist, ReconcileEmpty, EndPredrain, KeepActive, OpenActive, EndAppend,
                  StartDeliver, EndDeliver, StartPrune, fileVars, dbVars
    <3> QED BY <3>1, RecoverFrame
  <2> QED BY <1>1, <2>1, <2>2 DEF StartsOrEnds
<1>2. ASSUME NEW p \in Procs, NEW g \in Gens, MovesFile(p, g) PROVE RecoverInv'
  BY <1>2, MoveRecover
<1>3. ASSUME NEW p \in Procs, NEW g \in Gens, Reconcile(p, g) PROVE RecoverInv'
  BY <1>3, ReconcileRecover
<1>4. ASSUME NEW p \in Procs, NEW g \in Gens, WriteRecord(p, g) PROVE RecoverInv'
  <2>1. /\ UNCHANGED <<dir, torn, cursor, life, victim>>
        /\ recs' = [recs EXCEPT ![g] = Append(recs[g], minted + 1)]
    BY <1>4 DEF WriteRecord, dbVars
  <2>2. minted \in Nat /\ recs \in [Gens -> Seq(Nat)]
    BY DEF TypeOK
  <2>3. \A h \in Gens : recs'[h] \in Seq(Nat) /\ Len(recs[h]) <= Len(recs'[h])
    <3>1. ASSUME NEW h \in Gens PROVE recs'[h] \in Seq(Nat) /\ Len(recs[h]) <= Len(recs'[h])
      <4>1. recs[h] \in Seq(Nat) /\ (recs'[h] = recs[h] \/ recs'[h] = Append(recs[h], minted + 1))
        BY <2>1, <2>2
      <4>2. ASSUME NEW t \in Seq(Nat), NEW x \in Nat
            PROVE  Append(t, x) \in Seq(Nat) /\ Len(t) <= Len(Append(t, x)) /\ Len(t) <= Len(t)
        OBVIOUS
      <4>3. minted + 1 \in Nat
        BY <2>2
      <4> QED BY <4>1, <4>2, <4>3
    <3> QED BY <3>1
  <2>4. SeenFits'
    BY <2>1, <2>3, SizeGrows DEF DataInv, RecoverInv
  <2> QED BY <2>1, <2>4 DEF RecoverInv, LifeListed, VictimGone, Listed
<1>5. ASSUME NEW p \in Procs, FinalizePrune(p) PROVE RecoverInv'
  <2>1. /\ UNCHANGED <<dir, recs, torn, cursor>> /\ victim' \notin Gens
        /\ life' = [life EXCEPT ![victim] = "pruned"] /\ victim \in Gens
    BY <1>5, ConstantsAssumption DEF FinalizePrune, fileVars, ConstantsAssumption, LocksHeld
  <2> QED BY <2>1 DEF RecoverInv, LifeListed, VictimGone, SeenFits, Size, Listed, TypeOK
<1>6. ASSUME NEW p \in Procs, Admit(p) \/ RecordDelivery(p) PROVE RecoverInv'
  BY <1>6, RecoverFrame DEF Admit, RecordDelivery, fileVars, dbVars
<1>7. ASSUME NEW p \in Procs, NEW e \in Events, NEW s \in Sinks, NEW o \in Outcomes,
             NEW a \in BOOLEAN, Transport(p, e, s, o, a)
      PROVE  RecoverInv'
  BY <1>7, RecoverFrame DEF Transport, fileVars, dbVars
<1>8. ASSUME NextDay \/ UNCHANGED vars \/ \E s \in Sinks : ReleaseBlocked(s) PROVE RecoverInv'
  BY <1>8, RecoverFrame DEF NextDay, vars, ReleaseBlocked, fileVars, dbVars
<1>9. ~\E g \in Gens : RepairTail(g)
  BY DEF RepairTail
<1> QED BY StepKinds, <1>1, <1>2, <1>3, <1>4, <1>5, <1>6, <1>7, <1>8, <1>9

\* While only telltale touches the journal and file identities are not reused,
\* no reconciliation is refused: whatever a crash in a rotation, an append or a
\* prune leaves behind, and next to another process's prune, reconcile_jsonl
\* accepts the files it finds.
THEOREM RecoveryAccepted ==
  ASSUME ~ReuseInodes, ~OperatorRepairs
  PROVE  Spec => []RecoveryNeverRefused
<1>1. Init => RecoverInv
  BY ConstantsAssumption DEF Init, RecoverInv, LifeListed, VictimGone, SeenFits, ConstantsAssumption
<1>2. SafeInv /\ RecoverInv /\ [Next]_vars => RecoverInv'
  BY RecoverStep
<1>3. SafeInv /\ RecoverInv => RecoveryNeverRefused
  <2> SUFFICES ASSUME SafeInv, RecoverInv, cursor # NoCursor PROVE CursorVerifies
    BY DEF RecoveryNeverRefused, ReconcileAccepts, RecoverInv, LifeListed
  <2> QED BY DEF SafeInv, DataInv, CursorListed, RecoverInv, SeenFits, CursorVerifies
<1> QED BY <1>1, <1>2, <1>3, InitSafe, SafeStep, PTL DEF Spec
=============================================================================
