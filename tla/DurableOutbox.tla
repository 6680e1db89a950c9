---------------------------- MODULE DurableOutbox ----------------------------
(***************************************************************************)
(* The durable replay pipeline: the canonical JSONL journal (an active     *)
(* file and its rotated generations), the SQLite outbox that is fed from   *)
(* it through an ingest cursor, the per-sink delivery rows, and the        *)
(* pruning of rotated generations.  Several telltale processes work on one *)
(* journal/outbox pair; the outbox sidecar lock (admission) serialises     *)
(* persistence and dispatch, the JSONL sidecar lock (jsonl) serialises     *)
(* whatever touches the files.  Both locks are try-locks: a loser fails at *)
(* once.  A process may stop between any two steps.                        *)
(*                                                                         *)
(* Data abstraction.  A record is one unit of length and is named by the   *)
(* number of its event; a partial record at the end of a file is one unit  *)
(* too.  Event identities are random and never repeat, so the k-th record  *)
(* that reaches the journal is event k.  One SQLite transaction is one     *)
(* step.  Attempt counts and retry times are the subject of module         *)
(* Dispatch: here a dispatch may pick any pending row or none.             *)
(***************************************************************************)
EXTENDS Integers, Sequences, FiniteSets

CONSTANTS
  Procs,            \* telltale processes sharing the journal and the outbox
  NoProc,           \* the holder of a free lock
  Gens,             \* file identities (device and inode)
  NoGen,            \* no file identity
  Sinks,            \* configured durable sinks
  MaxEvents,        \* bound: records ever written
  Alerts,           \* the events that are delivery-failure alerts
  MaxBatch,         \* bound: events in one batch
  MaxRecords,       \* rotation threshold (max_size_bytes), in records
  Keep,             \* rotated generations kept by pruning
  MaxPending,       \* capacity limit (max_pending_events)
  Days,             \* bound: dates that rotated names carry
  Counters,         \* bound: rotated names of one date
  ReuseInodes,      \* the file system gives a freed identity to a new file
  OperatorRepairs   \* an operator cuts a partial record off the active file

ASSUME ConstantsAssumption ==
  /\ NoProc \notin Procs
  /\ NoGen \notin Gens
  /\ {MaxEvents, MaxBatch, MaxRecords, Keep, MaxPending} \subseteq Nat
  /\ MaxRecords > 0
  /\ Days \in Nat \ {0} /\ Counters \in Nat \ {0}
  /\ ReuseInodes \in BOOLEAN /\ OperatorRepairs \in BOOLEAN

VARIABLES
  \* the files of the journal directory
  dir,        \* the name under which a file is linked, Absent if it is not
  recs,       \* the complete records of a file
  torn,       \* the files that end in a partial record
  today,      \* the date used for rotated names
  minted,     \* number of records written so far
  \* the SQLite database
  stored,     \* events table
  origins,    \* event_origins table: <<file, offset, event>>
  row,        \* deliveries table: state per event and sink
  cursor,     \* ingest_cursor table
  life,       \* journal_generations table: lifecycle per file
  \* the receivers
  received,   \* history: <<event, sink>> that reached the receiver
  \* the processes
  admission,  \* holder of the outbox sidecar lock
  jsonl,      \* holder of the JSONL sidecar lock
  pc,         \* control state of each process
  todo,       \* events of the admitted batch not yet written
  flight,     \* the attempt whose result is not yet committed
  tried,      \* files the running prune pass has dealt with
  victim      \* the file unlinked by the open prune transaction

fileVars == <<dir, recs, torn, today, minted>>
dbVars   == <<stored, origins, row, cursor, life>>
lockVars == <<admission, jsonl>>
vars == <<dir, recs, torn, today, minted, stored, origins, row, cursor, life,
          received, admission, jsonl, pc, todo, flight, tried, victim>>

Events  == 1..MaxEvents
Written == 1..minted

-----------------------------------------------------------------------------
(* Journal files.  Names are numbers in the order in which                 *)
(* discover_generations lists them: date, then counter (0 is the           *)
(* date-stamped base name), the active file last.                          *)

Absent     == -1
ActiveName == Days * Counters
NamesOf(d) == (d * Counters)..(d * Counters + Counters - 1)

Listed    == {g \in Gens : dir[g] # Absent}
ActiveGen == {g \in Gens : dir[g] = ActiveName}
Rotated   == {g \in Listed : dir[g] # ActiveName}
Size(g)   == Len(recs[g]) + (IF g \in torn THEN 1 ELSE 0)

\* rotate_file: the base name, or the first counter whose name is free.
FreeName(n) ==
  /\ n \in NamesOf(today)
  /\ \A g \in Gens : dir[g] # n
  /\ \A m \in NamesOf(today) : m < n => \E g \in Gens : dir[g] = m

\* A file the file system can hand out: a new identity, or a freed one.
Creatable(g) ==
  /\ dir[g] = Absent
  /\ ReuseInodes \/ life[g] = "none"

-----------------------------------------------------------------------------
(* The ingest cursor and the plan of a reconciliation.                     *)

NoCursor == [gen |-> NoGen, off |-> 0, seen |-> 0]

\* verify_cursor_against_snapshot (the contents of a file never change here
\* before an offset, so its two hashes always match).
CursorVerifies ==
  /\ cursor.gen \in Listed
  /\ cursor.off <= Len(recs[cursor.gen])
  /\ cursor.seen <= Size(cursor.gen)

\* ensure_generation_metadata and the checks of build_reconciliation_plan.
ReconcileAccepts ==
  /\ \A g \in Gens : life[g] = "present" => g \in Listed
  /\ \A g \in Gens : life[g] = "pruned" => g \notin Listed
  /\ cursor # NoCursor => CursorVerifies

\* validate_generation_metadata_readonly.
MetadataValid ==
  /\ \A g \in Gens : life[g] = "present" => g \in Listed
  /\ \A g \in Listed : life[g] \in {"present", "prune_pending"}

\* The files from the cursor's on, and those that a reconciliation reads: it
\* stops at the first file that ends in a partial record.
AtOrAfterCursor(g) ==
  /\ g \in Listed
  /\ cursor # NoCursor => dir[cursor.gen] <= dir[g]
UnreadGens == {g \in Gens : AtOrAfterCursor(g)}
ReadGensWithoutTorn ==  \* variant: gives up on the whole file with the partial record
  {g \in UnreadGens : \A h \in UnreadGens \cap torn : dir[g] < dir[h]}
ReadGens   == {g \in UnreadGens : \A h \in UnreadGens \cap torn : dir[g] <= dir[h]}

StartSkippingOne(g) ==  \* variant: off by one
  IF g = cursor.gen THEN cursor.off + 2 ELSE 1
StartOf(g) == IF g = cursor.gen THEN cursor.off + 1 ELSE 1
PayloadsOf(g) == {recs[g][i] : i \in StartOf(g)..Len(recs[g])}
UnreadEvents  == UNION {PayloadsOf(g) : g \in UnreadGens}
ReadEvents    == UNION {PayloadsOf(g) : g \in ReadGens}

OpenEvents == {e \in Events : \E s \in Sinks : row[<<e, s>>] \in {"pending", "blocked"}}

-----------------------------------------------------------------------------
(* Pruning eligibility.                                                    *)

\* is_newest_kept_generation: one of the last Keep rotated files by name.
NewestKept(g) == Cardinality({h \in Rotated : dir[h] > dir[g]}) < Keep

\* generation_origins_match.
OriginsMatch(g) ==
  /\ {o \in origins : o[1] = g} = {<<g, i, recs[g][i]>> : i \in DOMAIN recs[g]}
  /\ \A i \in DOMAIN recs[g] : recs[g][i] \in stored

\* generation_is_eligible.
Eligible(g) ==
  /\ g \in Rotated
  /\ cursor # NoCursor /\ CursorVerifies
  /\ g \notin torn
  /\ dir[g] < dir[cursor.gen]
  /\ OriginsMatch(g)

\* generation_is_eligible returns an error instead of a verdict.
EligibilityFails == cursor # NoCursor /\ ~CursorVerifies

-----------------------------------------------------------------------------
Init ==
  /\ dir = [g \in Gens |-> Absent]
  /\ recs = [g \in Gens |-> <<>>]
  /\ torn = {}
  /\ today = 0
  /\ minted = 0
  /\ stored = {}
  /\ origins = {}
  /\ row = [es \in Events \X Sinks |-> "none"]
  /\ cursor = NoCursor
  /\ life = [g \in Gens |-> "none"]
  /\ received = {}
  /\ admission = NoProc
  /\ jsonl = NoProc
  /\ pc = [p \in Procs |-> "idle"]
  /\ todo = 0
  /\ flight = {}
  /\ tried = {}
  /\ victim = NoGen

\* Leaving an operation, whether by returning, by an error or by a crash,
\* releases the locks the process holds and forgets its local state.
Leave(p) ==
  /\ pc' = [pc EXCEPT ![p] = "idle"]
  /\ admission' = IF admission = p THEN NoProc ELSE admission
  /\ todo' = IF admission = p THEN 0 ELSE todo
  /\ flight' = IF admission = p THEN {} ELSE flight
  /\ jsonl' = IF jsonl = p THEN NoProc ELSE jsonl
  /\ tried' = IF jsonl = p THEN {} ELSE tried
  /\ victim' = IF jsonl = p THEN NoGen ELSE victim

Goto(p, l) == pc' = [pc EXCEPT ![p] = l]

\* persist_for_durable_replay with a batch of n events: takes the admission lock.
StartPersist(p, n) ==
  /\ pc[p] = "idle" /\ admission = NoProc
  /\ minted + n <= MaxEvents
  /\ admission' = p
  /\ todo' = n
  /\ Goto(p, "recover")
  /\ UNCHANGED <<fileVars, dbVars, received, jsonl, flight, tried, victim>>

\* deliver_durable: takes the admission lock and dispatches.
StartDeliver(p) ==
  /\ pc[p] = "idle" /\ admission = NoProc
  /\ admission' = p
  /\ Goto(p, "drain")
  /\ UNCHANGED <<fileVars, dbVars, received, jsonl, todo, flight, tried, victim>>

\* The JSONL sidecar lock is busy: the operation fails where it stands.
JsonlBusy(p) ==
  /\ pc[p] \in {"recover", "capacity", "append", "reconcile"}
  /\ jsonl # NoProc
  /\ Leave(p)
  /\ UNCHANGED <<fileVars, dbVars, received>>

AfterReconcile(p) == Goto(p, IF pc[p] = "recover" THEN "predrain" ELSE "prune")

\* reconcile_jsonl over a journal without files.
ReconcileEmpty(p) ==
  /\ pc[p] \in {"recover", "reconcile"} /\ jsonl = NoProc
  /\ ReconcileAccepts /\ Listed = {}
  /\ AfterReconcile(p)
  /\ UNCHANGED <<fileVars, dbVars, received, lockVars, todo, flight, tried, victim>>

\* Variant: a delivery-failure alert is queued like any other event.
InsertedForAlerts(es) == es[1] \in ReadEvents
\* insert_payload_transaction inserts the delivery rows of an event it reads; an alert has none.
Inserted(es) == es[1] \in ReadEvents \ Alerts

\* reconcile_jsonl: events, origins, delivery rows, generation rows and the
\* cursor move in one transaction.  last is the file at which reading stopped;
\* a cursor that would not move keeps its observed length.
Reconcile(p, last) ==
  /\ pc[p] \in {"recover", "reconcile"} /\ jsonl = NoProc
  /\ ReconcileAccepts
  /\ last \in ReadGens /\ \A g \in ReadGens : dir[g] <= dir[last]
  /\ stored' = stored \cup ReadEvents
  /\ origins' = origins \cup UNION {{<<g, i, recs[g][i]>> :
                                       i \in StartOf(g)..Len(recs[g])} : g \in ReadGens}
  /\ row' = [es \in Events \X Sinks |->
               IF Inserted(es) /\ row[es] = "none" THEN "pending" ELSE row[es]]
  /\ life' = [g \in Gens |-> IF g \in Listed /\ life[g] = "none" THEN "present" ELSE life[g]]
  /\ cursor' = IF last = cursor.gen /\ Len(recs[last]) = cursor.off
                 THEN cursor
                 ELSE [gen |-> last, off |-> Len(recs[last]), seen |-> Size(last)]
  /\ AfterReconcile(p)
  /\ UNCHANGED <<fileVars, received, lockVars, todo, flight, tried, victim>>

\* reconcile_jsonl fails closed: the files contradict the database.
ReconcileRefuses(p) ==
  /\ pc[p] \in {"recover", "reconcile"} /\ jsonl = NoProc
  /\ ~ReconcileAccepts
  /\ Leave(p)
  /\ UNCHANGED <<fileVars, dbVars, received>>

-----------------------------------------------------------------------------
(* Dispatch: one transport attempt for a row, then its committed result.   *)

Outcomes == {"acked", "pending", "blocked", "dead"}

\* next_ready_delivery and emit_canonical_once.  A receiver may take an event
\* whose answer is lost; only an accepted one is reported as acknowledged.
Transport(p, e, s, outcome, arrived) ==
  /\ pc[p] \in {"predrain", "drain"} /\ flight = {}
  /\ row[<<e, s>>] = "pending"
  /\ outcome = "acked" => arrived
  /\ received' = IF arrived THEN received \cup {<<e, s>>} ELSE received
  /\ flight' = {<<e, s, outcome>>}
  /\ UNCHANGED <<fileVars, dbVars, lockVars, pc, todo, tried, victim>>

\* Variant: whatever the transport reports is taken for an acknowledgement.
RecordDeliveryAsAcked(p) ==
  /\ pc[p] \in {"predrain", "drain"}
  /\ \E f \in flight : row' = [row EXCEPT ![<<f[1], f[2]>>] = "acked"]
  /\ flight' = {}
  /\ UNCHANGED <<fileVars, stored, origins, cursor, life, received, lockVars, pc,
                 todo, tried, victim>>

\* record_delivery_at.
RecordDelivery(p) ==
  /\ pc[p] \in {"predrain", "drain"}
  /\ \E f \in flight : row' = [row EXCEPT ![<<f[1], f[2]>>] = f[3]]
  /\ flight' = {}
  /\ UNCHANGED <<fileVars, stored, origins, cursor, life, received, lockVars, pc,
                 todo, tried, victim>>

\* A durable-storage error during dispatch leaves the row pending and fails the run.
DispatchFails(p) ==
  /\ pc[p] \in {"predrain", "drain"}
  /\ Leave(p)
  /\ UNCHANGED <<fileVars, dbVars, received>>

\* The pre-admission drain ends: an empty batch goes straight to pruning.
EndPredrain(p) ==
  /\ pc[p] = "predrain" /\ flight = {}
  /\ Goto(p, IF todo = 0 THEN "prune" ELSE "capacity")
  /\ UNCHANGED <<fileVars, dbVars, received, lockVars, todo, flight, tried, victim>>

\* deliver_durable drops the admission lock before it prunes.
EndDeliver(p) ==
  /\ pc[p] = "drain" /\ flight = {}
  /\ admission' = NoProc
  /\ Goto(p, "prune")
  /\ UNCHANGED <<fileVars, dbVars, received, jsonl, todo, flight, tried, victim>>

\* retry-blocked: runs without the admission lock.
ReleaseBlocked(s) ==
  /\ \E e \in Events : row[<<e, s>>] = "blocked"
  /\ row' = [es \in Events \X Sinks |->
               IF es[2] = s /\ row[es] = "blocked" THEN "pending" ELSE row[es]]
  /\ UNCHANGED <<fileVars, stored, origins, cursor, life, received, lockVars, pc,
                 todo, flight, tried, victim>>

-----------------------------------------------------------------------------
(* Admission of a batch: capacity check, rotation, append.                 *)

\* inspect_unread_jsonl_capacity fails on a partial record before the last file.
CapacityInspectable ==
  /\ MetadataValid
  /\ cursor # NoCursor => CursorVerifies
  /\ \A g \in UnreadGens \cap torn : \A h \in UnreadGens : dir[h] <= dir[g]

HasRoomBeforeBatch ==  \* variant: the batch itself is not counted
  Cardinality(OpenEvents) + Cardinality(UnreadEvents \ stored) <= MaxPending
HasRoom == Cardinality(OpenEvents) + Cardinality(UnreadEvents \ stored) + todo <= MaxPending

\* check_capacity_for_payloads admits the batch.
Admit(p) ==
  /\ pc[p] = "capacity" /\ jsonl = NoProc
  /\ CapacityInspectable /\ HasRoom
  /\ Goto(p, "append")
  /\ UNCHANGED <<fileVars, dbVars, received, lockVars, todo, flight, tried, victim>>

\* check_capacity_for_payloads rejects the batch.
RejectFull(p) ==
  /\ pc[p] = "capacity" /\ jsonl = NoProc
  /\ ~(CapacityInspectable /\ HasRoom)
  /\ Leave(p)
  /\ UNCHANGED <<fileVars, dbVars, received>>

\* emit_jsonl_bytes refuses an active file that ends in a partial record.
RefuseTornTail(p) ==
  /\ pc[p] = "append" /\ jsonl = NoProc
  /\ ActiveGen \cap torn # {}
  /\ Leave(p)
  /\ UNCHANGED <<fileVars, dbVars, received>>

\* emit_jsonl_bytes takes the JSONL lock; the active file needs no rotation.
KeepActive(p) ==
  /\ pc[p] = "append" /\ jsonl = NoProc
  /\ ActiveGen \cap torn = {}
  /\ \A g \in ActiveGen : Len(recs[g]) < MaxRecords
  /\ jsonl' = p
  /\ Goto(p, "open")
  /\ UNCHANGED <<fileVars, dbVars, received, admission, todo, flight, tried, victim>>

\* rotate_file: rename the full active file; durable mode deletes nothing here.
Rotate(p, g, n) ==
  /\ pc[p] = "append" /\ jsonl = NoProc
  /\ g \in ActiveGen /\ g \notin torn
  /\ Len(recs[g]) >= MaxRecords
  /\ FreeName(n)
  /\ dir' = [dir EXCEPT ![g] = n]
  /\ jsonl' = p
  /\ Goto(p, "open")
  /\ UNCHANGED <<recs, torn, today, minted, dbVars, received, admission, todo, flight,
                 tried, victim>>

\* open_append on an existing file.
OpenActive(p) ==
  /\ pc[p] = "open" /\ ActiveGen # {}
  /\ Goto(p, "write")
  /\ UNCHANGED <<fileVars, dbVars, received, lockVars, todo, flight, tried, victim>>

\* open_append creates the active file.
CreateActive(p, g) ==
  /\ pc[p] = "open" /\ ActiveGen = {}
  /\ Creatable(g)
  /\ dir' = [dir EXCEPT ![g] = ActiveName]
  /\ Goto(p, "write")
  /\ UNCHANGED <<recs, torn, today, minted, dbVars, received, lockVars, todo, flight,
                 tried, victim>>

\* Variant: writes on after the end of the batch.
WriteRecordPastEnd(p, g) ==
  /\ pc[p] = "write"
  /\ g \in ActiveGen
  /\ recs' = [recs EXCEPT ![g] = Append(@, minted + 1)]
  /\ minted' = minted + 1
  /\ todo' = todo - 1
  /\ UNCHANGED <<dir, torn, today, dbVars, received, lockVars, pc, flight, tried, victim>>

\* write_all makes one more record of the batch complete.
WriteRecord(p, g) ==
  /\ pc[p] = "write" /\ todo > 0
  /\ g \in ActiveGen
  /\ recs' = [recs EXCEPT ![g] = Append(@, minted + 1)]
  /\ minted' = minted + 1
  /\ todo' = todo - 1
  /\ UNCHANGED <<dir, torn, today, dbVars, received, lockVars, pc, flight, tried, victim>>

\* The process or the disk gives out inside a record.
TearRecord(p, g) ==
  /\ pc[p] = "write" /\ todo > 0
  /\ g \in ActiveGen
  /\ torn' = torn \cup {g}
  /\ Leave(p)
  /\ UNCHANGED <<dir, recs, today, minted, dbVars, received>>

\* The batch is written and synced; the JSONL lock is released.
EndAppend(p) ==
  /\ pc[p] = "write" /\ todo = 0
  /\ jsonl' = NoProc
  /\ Goto(p, "reconcile")
  /\ UNCHANGED <<fileVars, dbVars, received, admission, todo, flight, tried, victim>>

-----------------------------------------------------------------------------
(* prune_eligible_rotations, under the JSONL lock.  The pass first settles *)
(* the claims left by earlier passes, then claims and removes candidates   *)
(* in discovery order.                                                     *)

PruneSkipped(p) ==
  /\ pc[p] = "prune"
  /\ jsonl # NoProc \/ ActiveGen = {} \/ ~MetadataValid
  /\ Leave(p)
  /\ UNCHANGED <<fileVars, dbVars, received>>

StartPrune(p) ==
  /\ pc[p] = "prune"
  /\ jsonl = NoProc /\ ActiveGen # {} /\ MetadataValid
  /\ jsonl' = p
  /\ Goto(p, "pruning")
  /\ UNCHANGED <<fileVars, dbVars, received, admission, todo, flight, tried, victim>>

Claimed(g) == life[g] = "prune_pending" /\ g \notin tried
Candidate(g) ==
  /\ g \in Rotated \ tried
  /\ ~NewestKept(g)
  /\ life[g] = "present"
  /\ Eligible(g)

\* recover_prune_pending: the claimed file is already gone.
FinalizeAbsent(p, g) ==
  /\ pc[p] = "pruning" /\ Claimed(g)
  /\ g \notin Listed
  /\ life' = [life EXCEPT ![g] = "pruned"]
  /\ tried' = tried \cup {g}
  /\ UNCHANGED <<fileVars, stored, origins, row, cursor, received, lockVars, pc, todo,
                 flight, victim>>

\* recover_prune_pending: the claimed file is active, kept or not eligible.
RestorePresent(p, g) ==
  /\ pc[p] = "pruning" /\ Claimed(g)
  /\ g \in Listed
  /\ \/ g \in ActiveGen \/ NewestKept(g)
     \/ ~Eligible(g) /\ ~EligibilityFails
  /\ life' = [life EXCEPT ![g] = "present"]
  /\ tried' = tried \cup {g}
  /\ UNCHANGED <<fileVars, stored, origins, row, cursor, received, lockVars, pc, todo,
                 flight, victim>>

\* Variant: the file is removed before the claim is committed.
UnlinkUnclaimed(p, g) ==
  /\ pc[p] = "pruning"
  /\ Claimed(g) \/ Candidate(g)
  /\ g \in Rotated /\ ~NewestKept(g) /\ Eligible(g)
  /\ dir' = [dir EXCEPT ![g] = Absent]
  /\ recs' = [recs EXCEPT ![g] = <<>>]
  /\ victim' = g
  /\ Goto(p, "unlinked")
  /\ UNCHANGED <<torn, today, minted, dbVars, received, lockVars, todo, flight, tried>>

\* recover_prune_pending unlinks the file; its transaction stays open.
Unlink(p, g) ==
  /\ pc[p] = "pruning" /\ Claimed(g)
  /\ g \in Rotated /\ ~NewestKept(g) /\ Eligible(g)
  /\ dir' = [dir EXCEPT ![g] = Absent]
  /\ recs' = [recs EXCEPT ![g] = <<>>]
  /\ victim' = g
  /\ Goto(p, "unlinked")
  /\ UNCHANGED <<torn, today, minted, dbVars, received, lockVars, todo, flight, tried>>

\* finalize_prune_pending_transaction and commit.
FinalizePrune(p) ==
  /\ pc[p] = "unlinked"
  /\ life' = [life EXCEPT ![victim] = "pruned"]
  /\ tried' = tried \cup {victim}
  /\ victim' = NoGen
  /\ Goto(p, "pruning")
  /\ UNCHANGED <<fileVars, stored, origins, row, cursor, received, lockVars, todo, flight>>

\* The check, the removal or the commit for a claimed file fails with a warning.
RecoverFails(p, g) ==
  /\ pc[p] = "pruning" /\ Claimed(g)
  /\ tried' = tried \cup {g}
  /\ UNCHANGED <<fileVars, dbVars, received, lockVars, pc, todo, flight, victim>>

\* mark_generation_prune_pending for the oldest remaining candidate.
ClaimForPrune(p, g) ==
  /\ pc[p] = "pruning" /\ \A h \in Gens : ~Claimed(h)
  /\ Candidate(g) /\ \A h \in Gens : Candidate(h) => dir[g] <= dir[h]
  /\ life' = [life EXCEPT ![g] = "prune_pending"]
  /\ UNCHANGED <<fileVars, stored, origins, row, cursor, received, lockVars, pc, todo,
                 flight, tried, victim>>

EndPrune(p) ==
  /\ pc[p] = "pruning" /\ \A g \in Gens : ~Claimed(g) /\ ~Candidate(g)
  /\ Leave(p)
  /\ UNCHANGED <<fileVars, dbVars, received>>

-----------------------------------------------------------------------------
(* The environment.                                                        *)

\* The process stops; its open transaction rolls back, its locks are freed.
Crash(p) ==
  /\ pc[p] # "idle"
  /\ Leave(p)
  /\ UNCHANGED <<fileVars, dbVars, received>>

NextDay ==
  /\ today + 1 < Days
  /\ today' = today + 1
  /\ UNCHANGED <<dir, recs, torn, minted, dbVars, received, lockVars, pc, todo, flight,
                 tried, victim>>

\* The documented remedy for a partial record: the operator cuts it off.
RepairTail(g) ==
  /\ OperatorRepairs
  /\ g \in torn /\ jsonl = NoProc
  /\ torn' = torn \ {g}
  /\ UNCHANGED <<dir, recs, today, minted, dbVars, received, lockVars, pc, todo, flight,
                 tried, victim>>

PersistStep(p) ==
  \/ \E n \in 0..MaxBatch : StartPersist(p, n)
  \/ ReconcileEmpty(p) \/ ReconcileRefuses(p) \/ \E g \in Gens : Reconcile(p, g)
  \/ EndPredrain(p) \/ Admit(p) \/ RejectFull(p) \/ RefuseTornTail(p) \/ JsonlBusy(p)
  \/ KeepActive(p) \/ \E g \in Gens, n \in NamesOf(today) : Rotate(p, g, n)
  \/ OpenActive(p) \/ \E g \in Gens : CreateActive(p, g)
  \/ \E g \in Gens : WriteRecord(p, g)
  \/ EndAppend(p)

DispatchStep(p) ==
  \/ StartDeliver(p)
  \/ \E e \in Events, s \in Sinks, o \in Outcomes, a \in BOOLEAN : Transport(p, e, s, o, a)
  \/ RecordDelivery(p)
  \/ EndDeliver(p)

PruneStep(p) ==
  \/ PruneSkipped(p) \/ StartPrune(p) \/ FinalizePrune(p) \/ EndPrune(p)
  \/ \E g \in Gens : \/ FinalizeAbsent(p, g) \/ RestorePresent(p, g) \/ Unlink(p, g)
                     \/ ClaimForPrune(p, g)

Fault(p) ==
  \/ Crash(p) \/ DispatchFails(p)
  \/ \E g \in Gens : TearRecord(p, g) \/ RecoverFails(p, g)

Environment ==
  \/ \E s \in Sinks : ReleaseBlocked(s)
  \/ NextDay
  \/ \E g \in Gens : RepairTail(g)

Next ==
  \/ \E p \in Procs : PersistStep(p) \/ DispatchStep(p) \/ PruneStep(p) \/ Fault(p)
  \/ Environment

Spec == Init /\ [][Next]_vars

-----------------------------------------------------------------------------
(* Properties.                                                             *)

Labels == {"idle", "recover", "predrain", "capacity", "append", "open", "write",
           "reconcile", "drain", "prune", "pruning", "unlinked"}

\* Every variable has its type: files, tables, locks and control states.
TypeOK ==
  /\ dir \in [Gens -> Absent..ActiveName]
  /\ recs \in [Gens -> Seq(Nat)]
  /\ torn \subseteq Gens
  /\ today \in 0..(Days - 1)
  /\ minted \in 0..MaxEvents
  /\ stored \subseteq Nat
  /\ origins \subseteq Gens \X Nat \X Nat
  /\ row \in [Events \X Sinks -> {"none"} \cup Outcomes]
  /\ cursor \in [gen : Gens \cup {NoGen}, off : Nat, seen : Nat]
  /\ life \in [Gens -> {"none", "present", "prune_pending", "pruned"}]
  /\ received \subseteq Events \X Sinks
  /\ admission \in Procs \cup {NoProc}
  /\ jsonl \in Procs \cup {NoProc}
  /\ pc \in [Procs -> Labels]
  /\ todo \in Nat
  /\ flight \subseteq Events \X Sinks \X Outcomes
  /\ tried \subseteq Gens
  /\ victim \in Gens \cup {NoGen}

\* No record that reached the journal is lost: at every moment it is in the
\* events table or at a place the next reconciliation still reads, whatever
\* was rotated under a reused name, pruned, torn or interrupted in between.
NoRecordLost == Written \subseteq stored \cup UnreadEvents

\* Reconciliation never fails closed on files that only telltale touched: after
\* any crash in a rotation, an append or a prune, and next to a concurrent
\* prune, the next reconcile_jsonl accepts what it finds.
RecoveryNeverRefused == ReconcileAccepts

\* "repair or replace it before retrying": once no file ends in a partial record
\* any more, the next reconcile_jsonl accepts the journal.
RepairedJournalAccepted == torn = {} => ReconcileAccepts

\* The bounded queue: events with an open delivery plus written events still to
\* be ingested never exceed max_pending_events, also when a batch was written
\* but not ingested, and whatever another process prunes or releases.
QueueWithinCapacity ==
  Cardinality(OpenEvents \cup (Written \ (stored \cup Alerts))) <= MaxPending

\* Delivery rows exist exactly for the ingested events that are not alerts,
\* at every sink (an alert about a failing sink is never queued for it).
RowsFollowEvents ==
  \A e \in Events, s \in Sinks : row[<<e, s>>] # "none" <=> e \in stored \ Alerts

\* The delivery guarantee: the pipeline implements AtLeastOnce.
ALO == INSTANCE AtLeastOnce WITH
  written <- Written,
  acked <- {es \in Events \X Sinks : row[es] = "acked"},
  dead <- {es \in Events \X Sinks : row[es] = "dead"}
DeliversAtLeastOnce == ALO!Spec

\* Fairness.  A running operation goes on; dispatch ends because it takes at
\* most 16 rows per sink; scans and restarts call persist again and again; and
\* faults and busy locks do not hit every single reconciliation attempt.
Fairness ==
  \A p \in Procs :
    /\ WF_vars(PersistStep(p)) /\ WF_vars(PruneStep(p)) /\ WF_vars(RecordDelivery(p))
    /\ SF_vars(EndPredrain(p)) /\ SF_vars(EndDeliver(p))
    /\ SF_vars(\E n \in 0..MaxBatch : StartPersist(p, n))
    /\ SF_vars(\E g \in Gens : Reconcile(p, g))

FairSpec == Spec /\ Fairness

\* Every record that reached the journal is eventually in the outbox, so that
\* dispatch can see it: a crash between append and reconcile only delays it.
EventuallyIngested == \A e \in Events : e \in Written ~> e \in stored
=============================================================================
