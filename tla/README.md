# TLA+ models of telltale

telltale watches the session files of AI coding clients, evaluates detection
rules over them and reports detections to sinks.  This directory holds TLA+
models of the parts of it whose correctness depends on *order*: what happens
when two processes share a journal, when a process stops between two steps, when
a file is rotated, torn or removed, when an answer is lost, when a queue is full.
The models are translated from the Rust sources; `PROJECT.json` maps every
definition to the lines it stands for.

* [Inventory](#inventory) - parts of the system, their state, how they interact
* [Modules](#modules) - what models what, and how
* [Runs](#runs) - what TLC checks, bounds, fairness
* [Findings](#findings) - where code and documentation disagree
* [Proofs](#proofs) - what TLAPS proves, and how
* [Not modelled](#not-modelled)
* [Plan](#plan)

## Inventory

| Part | Source | State it keeps | Operations |
|---|---|---|---|
| Canonical journal | `src/sink/jsonl.rs`, `crates/telltale-sources/src/journal.rs` | active file, rotated generations named by date and counter | append under the sidecar lock, rotate, clean up, discover in name order |
| Durable outbox | `src/sink/outbox.rs`, `src/sink/outbox/storage.rs` | SQLite tables `events`, `event_origins`, `deliveries`, `ingest_cursor`, `journal_generations` | capacity check, reconcile from the cursor, select and settle deliveries, release blocked rows, claim and prune generations |
| Sink set | `src/sink/mod.rs` | configured sinks, durable sink identities | persist for replay (recover, drain, admit, append, reconcile, prune), deliver, dispatch |
| Sidecar locks, pinned files | `src/file_lock.rs` | lock files, snapshots by identity | try-lock, release on drop or exit, verified removal, rename without replacement |
| Watch loop | `src/cli/scan/watch.rs` | notification channel, overflow flag, error channel, pending changes, source index, iteration budget, heartbeat | admit notification, coalesce, debounce, rate-limit, full or targeted scan |
| Scan | `src/cli/scan.rs`, `src/state.rs` | one set of keys (what was reported, latches of outages, threshold and sink episodes, time of the last health event), baselines, source inventory, ingestion cursors | discover, read and detect, select, persist, install the state, deliver, alert, save the latch |
| OpenCode acquisition | `src/cli/scan/canonical.rs`, `crates/telltale/src/canonical_runtime.rs`, `crates/telltale-sources/src/acquisition.rs`, `.../sources/opencode/session_message.rs` | the cursor (checkpoint and cut) in the scan state | read a window, shrink it, quarantine rows, drain window after window, stage the cursor |
| Protected assignment store | `crates/telltale/src/assignment.rs` | receipt files, SQLite rows, authority file, key epochs and key files, lock file | open with recovery, claim or replay, look up, rotate the key |
| Best-effort sinks | `src/sink/{http,splunk_hec,elastic}.rs` | none that outlives a call | one batch, retried in process |
| Detection | `crates/telltale-detect`, `crates/telltale-rules`, `crates/telltale-schema` | none | pure evaluation of rules and formats |
| Event feed, console | `crates/telltale/src/local_event_feed.rs`, `apps/telltale-console` | reading position in the journal | follow the journal read-only |
| Rules server, migration, export, configuration | `src/cli/*.rs`, `src/config.rs`, `src/settings.rs` | files replaced as a whole | sequential commands |

How they interact.  A scan (one-shot, or started by the watch loop) produces a
batch of events and calls `persist_for_durable_replay`, which holds the
*admission* lock (the outbox's sidecar) throughout: it reconciles what an earlier
run left in the journal, drains some ready deliveries, checks the capacity,
appends the batch to the journal under the *jsonl* lock (the journal's sidecar),
reconciles the batch into SQLite and prunes rotated generations.
`deliver_durable` takes the admission lock for a dispatch, drops it, and then
prunes under the jsonl lock alone.  Both locks are try-locks: the loser fails and
a later run makes up for it.  `retry-blocked` changes delivery rows without
taking either.  The notify thread, the signal handler and the watch loop share a
bounded channel and three flags.  A scan that reads an OpenCode store drains it in
windows and stages the position it reached; the scan state, and with it the
position, is installed after the events are persisted.  The assignment store is
used by library callers of `crates/telltale`, several processes at a time.

What is hard, and what must hold:

* **Journal and outbox** - the journal is the only copy of an event between its
  append and its ingestion; the ingest cursor goes by file names which rotation
  reuses; pruning removes files and may be interrupted between the unlink and
  its commit, or run next to another process's append.  *No record is lost; the
  queue stays within its limit; reconciliation never refuses a journal only
  telltale touched; every record is eventually ingested.*
* **Dispatch** - results are lost, rows are released by an operator in the middle
  of a dispatch, a delay may be configured as 0, the clock saturates.  *At least
  once per sink; nothing after a final state; bounded attempts; no row twice in
  one dispatch; no sink starved by the one before it; everything pending is
  eventually settled.*
* **Watch** - channel, event, pending set and kernel queue all overflow, and files
  change while a scan reads them.  *No change is lost; every change is eventually
  scanned; a shutdown ends the loop.*
* **Scan state** - a scan may stop between any two of dispatch, write, install,
  deliver, alert and latch save; other dispatches run in between and change the sinks'
  health; latches and detection keys share one set whose size decides whether it is
  saved; the wall clock, which stamps successes and errors, jumps.  *What is remembered was written; an
  outage or a refused sink is silent only if it was alerted since its last
  recovery; the heartbeat is not silenced.*
* **OpenCode drain** - rows change, appear late or vanish between two reads; equal
  timestamps straddle a cut; a window is re-read, shrunk, quarantined.  *No row
  version falls behind the cursor; a history pass reads everything; the drain
  ends.*
* **Assignment store** - three records of one fact, written one after the other by
  processes that fail.  *One identity per fact for ever; always recoverable;
  nothing committed is taken back.*
* **Retention** - removals fail or are cut off, names are reused.  *Bounded number
  of files, never fewer than `keep` after a clean-up, earlier dates first.*

`PROJECT.json` lists the hazards with their source lines and the properties that
would catch them.

## Modules

| Module | Models | Used by |
|---|---|---|
| `DurableOutbox` | journal files, outbox tables, locks and the processes that persist, dispatch and prune | `MCDurableOutbox`, `DurableOutboxProofs` |
| `AtLeastOnce` | abstract specification: what durable delivery promises per event and sink | instantiated by `DurableOutbox` and by `Dispatch` |
| `Dispatch` | row selection, attempts, retry schedule, per-sink share, operator release | `MCDispatch`, `DispatchProofs` |
| `Watch` | notify thread, inbox, watch loop, scans | `MCWatch`, `WatchProofs` |
| `JsonlRotation` | the JSONL sink without an outbox: rotation and retention | its own cfg, `JsonlRotationProofs` |
| `ScanCommit` | one scan's state, its commit order, latches, sink-failure episodes, heartbeat | `MCScanCommit`, `ScanCommitProofs` |
| `SessionDrain` | windows, drain, quarantine and cursor over an OpenCode store that changes | `MCSessionDrain`, `SessionDrainProofs` |
| `AssignmentStore` | the protected assignment store: receipts, rows, authority, keys | `MCAssignmentStore`, `AssignmentStoreProofs` |
| `DurableOutboxProofs`, `DispatchProofs`, `JsonlRotationProofs`, `WatchProofs`, `ScanCommitProofs`, `SessionDrainProofs`, `AssignmentStoreProofs` | theorems | |
| `NumberFacts` | lemmas on numbers and finite sets of numbers | `DispatchProofs`, `JsonlRotationProofs`, `ScanCommitProofs`, `SessionDrainProofs` |

Definitions marked *variant* stand next to the definition they differ from by one
plausible mistake (a dropped guard, an off-by-one).  They are not part of any
specification: substituted for the real definition, each makes TLC report the
property it is aimed at, which shows that the property can fail.
`PROJECT.json` lists the pairs under "mutants".

### DurableOutbox

State.  `dir`, `recs`, `torn` are the journal directory: the name a file is linked
under, its complete records, whether it ends in a partial one.  Names are numbers
in the order of `discover_generations` (date, counter, active file last).
`stored`, `origins`, `row`, `cursor`, `life` are the five tables.  `admission` and
`jsonl` are the locks; `pc`, `todo`, `flight`, `tried`, `victim` the local state of
the running operations (one variable for all processes where the lock that guards
it has one holder).  `received` and `minted` are history.

Control.  `persist_for_durable_replay` is the path

    idle -StartPersist-> recover -Reconcile-> predrain -Transport/RecordDelivery*->
      -EndPredrain-> capacity -Admit-> append -KeepActive|Rotate-> open
      -OpenActive|CreateActive-> write -WriteRecord*, EndAppend-> reconcile
      -Reconcile-> prune -StartPrune-> pruning -...EndPrune-> idle

with the early returns `JsonlBusy`, `ReconcileRefuses`, `RejectFull`,
`RefuseTornTail`, `DispatchFails`, `PruneSkipped`.  `deliver_durable` is
`StartDeliver`, `drain`, `EndDeliver` (which drops the admission lock), `prune`.  A
prune pass settles old claims (`FinalizeAbsent`, `RestorePresent`, `Unlink` then
`FinalizePrune`, `RecoverFails`) and then claims candidates one by one
(`ClaimForPrune`).  One SQLite transaction is one step, except the one that
`recover_prune_pending` keeps open around the unlink: it is two, and a crash
between them rolls the row back but not the unlink.  `Crash` is enabled at every
step; `TearRecord` stops a write inside a record; `RepairTail` is the operator's
remedy; `NextDay` moves the date.

Abstraction.  A record is one unit of length, a partial record too; the k-th record
written is event k (identities are random).  Hashes over file prefixes always
match, because nothing in the model rewrites a file.  Byte capacity and the scan
limit are further limits of the same kind as the event limit and are not
separate.  Retry times and attempt counts are left to `Dispatch`: here a dispatch
may pick any pending row, or none.

### Dispatch

One dispatch at a time (the admission lock).  `StartDispatch` reads the clock once,
as the code does; `Attempt` is the transport call, `Record` its committed result,
`CloseAlert` the closing of a stale alert row, `NextSink` the end of a sink's share
(16 rows, or 100 ms after the first row; the model lets the time run out after any
row), `LoseRun` a crash or a storage error.  `Recorded` is the verdict on a result,
`NextRetryAt` the schedule with its floor of 1, cap and saturation; `Before` is the
`ORDER BY` of the selection.  Attempt counters are bounded by the releases and
losses that may happen (`MaxReleases`, `MaxLosses`).  The module is about rows of the
outbox; the one direct send of a failure alert to the healthy sinks (`deliver_alerts`)
leaves no row and is part of `Alert` in `ScanCommit`, as accepted or not.

### Watch

`kernel` is the operating system's stream, `queue`/`overflow`/`failed`/`shutdown` what
the threads share, the rest the loop's.  The idle loop is `wait` (take the
signals) and `recv`; the debounce and rate-limit windows are both `window` and
`windowRecv`; `decide` is the last look at the signals and the choice of the scan;
`discover` and `scan` are `run_scan`.  The contents of a file are its version, and
`scanned` remembers which version a scan last saw.  Durations are abstracted to
"may end now".

### JsonlRotation

One emit at a time, one step per file-system call.  The size is compared with the
threshold before the append and the append writes a whole batch, so that the active
file may pass the threshold by less than one batch (`TypeOK`); an append that is cut
off leaves some of the batch's records and a partial one.  Files are numbered in the order
of creation and names by (date, counter), so "oldest" and "first by name" can
differ, as they do in the code.

### ScanCommit

Everything a scan does up to its first write is one step (`FullScan`,
`TargetedScan`, `Backfill`): it holds the state lock and changes its memory only.
Then

    prepared -Drain-> drained -Persist-> persisted -Install-> installed -Deliver->
      delivered -Observe-> observed -Alert-> alerted -Finish-> idle

`Drain` is the dispatch that `persist_for_durable_replay` makes before it looks at the
queue; `QueueFull` is the error that may follow it, which ends the command and loses what
the dispatch reported; `Persist` is the append, `Install` the state file (if the save
policy says so), `Deliver` the durable and best-effort sinks, whose failures add to the
drain's.  `Observe` reads the sinks' health, closes episodes and selects the failures to
alert; `Alert` stores the alerts, which dispatches once more and drops what that reports,
and records the episodes; `Finish` saves the latch, which may fail with a warning.  `Stop`
is enabled between any two of them, and so is `Dispatch`: idle delivery of the watch or
another process, whose failures are printed and no more.

A dispatch has any outcome (`Outcome`: whether something was acknowledged, the failures in
order) and stamps `last_success_at` and `last_error_at` with the wall clock read when it
began, as `record_delivery_at` does.  The clock may be set at any time (`Jump`), and a
dispatch of another process may have read it earlier.

`disk.keys` is `seen_detection_fingerprints`: detection keys with and without
the classification, scanner errors, latches, the health time and one open episode
per sink.  `ShouldSave` compares sizes, as `StateChangeProbe` does.  `told`, `toldSink`,
`healths` and `unseen` are history; `unseen` says that a sink's last success carries a time
an open episode, or the scan about to record one, refers to.

A detection is a posture with a classification, its key is injective.  Detections
are selected in emission order, and only the first of a posture matters to the
others (it may be hidden by the legacy key): `Orders` quantifies over that choice,
`SelectEvents` says what is emitted under it.  The order with an outbox is modelled; without one
`deliver` writes the journal and the best-effort sinks before the install.  Dry runs
and history scans touch no state.

### SessionDrain

One read is one SQLite snapshot, hence one step: `Acquire` computes candidates,
selection, mapped rows and window from the store (`ReadOf`), `Evaluate` accepts the
window, `OverCapacity` shrinks it or sets its rows aside, `ReadFails` is any other
failure; `Persist`, `Install`, `Abandon` end the scan.  A row is its `time_updated`, the
bytes it retains and the bytes stored (`TotalBytes` counts pairs of row and offset,
so that a sum over rows is a cardinality); a row may map to no observation and still cut a
window, unless its mapping is refused and the row quarantined (`Rejected`).  `Write`, `Delete` and `Tick` are OpenCode and the
clock.  `owed` are the row versions no persisted scan has evaluated, quarantined or
left out of the bootstrap sample by design.

Two assumptions are constants, because the code does not hold without them (see
[Findings](#findings)): `LateInDrain` (a row may become visible at or before the cut of
an unfinished drain) and `ChangeInReread` (the store may change between the two reads
of a quarantine, `Rereading`).  The run has both FALSE.  Outside a drain rows may be late by
`MaxLag`, at most the resume overlap.

### AssignmentStore

A call is `Lock`, the repairs one file operation at a time (`RecoverStray`,
`RecoverReceipt`, `RecoverAuthority`, `RecoverRemove`, `RecoverDone`), and then its own
steps: `Pend`, `Commit`, `Seal`, `Confirm` for a claim, `Replay` or `Collide` for a known
fact, `CreateKey` and `Activate` for a rotation.  After the lock is released a claim
reads its assignment back (`Lookup`, `Compare`), which fails if another process left
something to repair (`Unverifiable`).  `Fail` is a crash or an error at any step.
Hashes, MACs and random identifiers are injective: the head of the chain is the set of
assignments below it.  A fact stands for domain, replay association and ordinal.

## Runs

| Run | Configuration | States | Shows |
|---|---|---|---|
| `outbox` | 2 processes, 3 file identities, 1 sink, 3 events, batches of 2, rotation at 1 record, capacity 2, keep 0, reused inodes, repairs | 932 k | `TypeOK`, `NoRecordLost`, `QueueWithinCapacity`, refinement of `AtLeastOnce` |
| `outbox_liveness` | 1 process, 3 identities, 4 events (all but one alerts), 2 dates of 2 names | 103 k | `RecoveryNeverRefused`, `RowsFollowEvents`, `EventuallyIngested` |
| `inode_reuse` | 1 process, 1 record per file, identities may be reused | - | violation of `EventuallyIngested` |
| `torn_repair` | 1 process, repairs | - | violation of `RepairedJournalAccepted` |
| `dispatch` | 2 events (one a legacy alert), 2 sinks, 2 attempts, configured delay 0, 2 ticks, 1 release, 1 loss per row | 2 M | `RetryBudget`, `ShareForEachSink`, `NoResendInDispatch`, refinement of `AtLeastOnce` |
| `dispatch_liveness` | 2 events, 1 sink, 1 row per dispatch, delay 1 capped at 2 | 178 k | `EventuallySettled` |
| `watch` | 2 files, every capacity 1, notifications naming 2 files, initial scan, 2 iterations, heartbeats | 128 k | `TypeOK` with the limits, `NoChangeLost`, `ChangeEventuallyScanned`, `ShutdownStops` |
| `jsonl_retention` | 9 files, 3 dates of 4 names, threshold 2, batches of up to 2, keep 2, faults | 153 k | `RetentionLimit`, `KeepsEnough`, `OldestDateFirst` |
| `scan_commit` | three installations: a one-shot scanner with legacy keys, a watch with a heartbeat, a watch with a durable sink; 1 client, 2 classifications, 4 ms (3 with the sink), up to 4 changes of sources or clock (with the sink 1: a foreign dispatch or a clock setting), 1 stop | 4.0 M | `RememberedIsWritten`, `OutageAlerts`, `HeartbeatNotSilent`, `SilentOnlyInEpisode` |
| `scan_outage_probe` | a watch that inherited legacy keys | - | violation of `OutageAlerts` |
| `session_drain` | 3 rows (one that maps to nothing, one that fits a window, one larger than any) in every start arrangement, windows of 2 rows or 4 bytes, 2 windows per scan, 2 writes, 1 fault | 208 k | `NothingSkipped`, `HistoryReadsAll`, `DrainAdvances`, `EventuallyAccounted` |
| `assignment_store` | 2 processes, 2 facts, 2 contents, 2 identifiers, 2 keys, 2 failures | 217 k | `OneIdentity`, `AlwaysRecoverable`, `NothingTakenBack` |

Why the bounds are enough for the interesting cases.  In `outbox` three
identities with rotation at one record and batches of two allow a full file, a rotated
file with an unread rest, a pruned one, and the identity of a removal that was cut
short handed to the next active file; two names per date allow a base name to be freed and
taken again, which is where name order and creation order part.  Capacity 2 with
batches of 2 makes the limit bind at once.  In `Watch` a capacity of 1 makes each of
the four queues overflow with two files.  `MaxTime` 2 is the end of the clock, so
that saturation happens.  Three dates let a clean-up span an earlier date with a
missed removal.  In `SessionDrain` two start times over three rows make equal
timestamps at every cut, and two windows per scan leave drains unfinished.  Four
milliseconds in `ScanCommit` are an outage that starts, ends and starts again; with the
sink three are two scans, one to open an episode and one to judge it, each with three
dispatches of its own, and the one outside change puts a success, an error or a clock
setting anywhere between their steps.  The three installations split what would multiply
(legacy keys, clock jumps, sink outcomes); the proofs do not split them.  Two failures in `AssignmentStore` let a recovery fail as well.
`outbox_liveness` has one process: that a prune next to another process's append leaves
nothing recovery refuses is shown by the theorem `RecoveryAccepted` alone, and
`dispatch_liveness` has finitely many events, so it does not speak of a retry starved by
an endless inflow.  The
processes and file identities of `outbox` are symmetric; no liveness run uses symmetry.

Deadlock is checked except in `ScanCommit` and its probe, whose clock ends: idle processes can always start an operation
(with an empty batch), the watch environment can always signal, a dispatch can
always start.  A stopped watch is therefore not a deadlock of the model; that it
stops only when it should is what the liveness properties say.

Fairness, and why the code justifies it.

* `DurableOutbox!Fairness`: a process that runs goes on, and so do prune passes and
  the commit of a result (weak fairness).  A dispatch takes at most 16 rows per
  sink, so its end cannot be put off for ever (strong fairness of the two ends).
  Scans call persist again and again, and faults or a busy lock do not strike every
  single reconciliation (strong fairness of `StartPersist` and of `Reconcile`): no
  system that crashes every time makes progress.
* `Dispatch!Fairness`: time passes, each scan and each idle interval starts a
  dispatch, a started dispatch goes on, and losses do not strike every attempt.
* `Watch!Fairness`: both threads are scheduled; a window has a deadline, so its end
  is strongly fair; the idle loop delivers at most once per interval and receives
  otherwise, so receiving is strongly fair.  Nothing is assumed about the
  environment.
* `SessionDrain!Fairness`: a scan in progress goes on, and routine scans start again and
  again (strong fairness of `StartScan`: history passes do not keep them out for
  ever).  `EventuallyAccounted` speaks of a store that OpenCode has stopped writing
  to, which the bounded number of writes gives; it excepts the two errors the code
  reports until OpenCode writes again (`Stuck`).

No other module states a liveness property: the calls of the assignment store are
straight-line with a deadline on the lock, and those of a scan and an emit likewise.

`EventuallyIngested` holds when file identities are not reused (`outbox_liveness`)
and fails when they are (`inode_reuse`).

## Findings

1. **A cleared outage latch may not be saved** (`scan_outage_probe`).  In watch mode the
   state is saved only if it changed, and `StateChangeProbe` compares the *number* of
   keys.  A scan that learns the classified key of a detection known under a legacy
   key (one more) and clears the latch of a client that recovered (one less), with
   nothing to emit, counts as unchanged.  The latch stays on disk, and when the client
   loses its sources again the outage is silent.  The comment in `run_scan` says it
   "alerts again if it recurs after a full scan saw one of the client's sources process
   successfully".
2. **A reused inode blocks ingestion** (`inode_reuse`).  A generation is identified
   by device and inode, and a pruned identity stays in `journal_generations` for
   ever.  If the file system gives the freed inode to a new active file,
   `ensure_generation_metadata` refuses the journal in every later run.  Nothing is
   lost (`NoRecordLost` holds with reuse), but nothing is delivered either.
3. **The documented repair of a partial record is refused** (`torn_repair`).  The
   cursor's observed length includes the partial record, so that after it is cut
   off the file counts as truncated.  `docs/telemetry-output.md` says to repair or
   replace the file before retrying.

Further disagreements, without a run of their own:

* *Oldest-first within a day.*  `rotate_file` takes the first free name of the date;
  once clean-up has freed the base name the next rotation takes it and sorts first
  although it is the newest.  `src/sink/jsonl.rs` and `docs/telemetry-output.md` say
  "oldest-first"; `OldestDateFirst` is what holds, across dates.
* *"The same selection is re-read"* (`canonical_runtime.rs`).  The second read of a
  quarantine is another snapshot: a row that OpenCode changed in between may be
  counted as read and was not evaluated.  With `ChangeInReread = TRUE` TLC violates
  `NothingSkipped`, and `HistoryReadsAll` once two rows of 2 bytes share a window
  (`RowBytes` of `MCSessionDrain` set to 2, 2 and 5).
* *"Continuing strictly after its high-water skips nothing"* (`acquisition.rs`).  True
  of one snapshot; a row that becomes visible later with an earlier time is skipped
  by an unfinished drain.  With `LateInDrain = TRUE` TLC violates `NothingSkipped`.
* *A failure that is never alerted.*  `docs/telemetry-output.md` promises an alert when a
  delivery fails.  Only the failures that `run_scan` collects reach the selection.  A row
  blocked by the dispatch inside the storing of the alerts (`persist_for_durable_replay`
  drops its failures), by the dispatch before a queue-full error, or by idle delivery
  (printed only) is not tried again and never alerted; the sink's next failure in a scan
  is.  `SilentOnlyInEpisode` is therefore about the failures a scan reports.
* *A success nobody sees.*  "The next failure alerts immediately after a successful
  delivery" (`docs/telemetry-output.md`).  Episodes are closed by comparing success times
  in milliseconds.  A success in the very millisecond the open episode refers to (two
  deliveries that close, or a clock set back) leaves the time as it was, and the episode
  open unless the last error has that time too.  `SilentOnlyInEpisode` excepts exactly
  this case; without the exception TLC violates it.
* `crates/telltale/README.md` says that `open` never repairs state; it runs the
  recovery, which completes or drops an interrupted claim.

## Proofs

TLAPS proves these for every value of the constants that satisfies the assumptions
of the modules.

| Theorem | States |
|---|---|
| `DurableOutboxProofs!TypeCorrect` | `Spec => []TypeOK` |
| `DurableOutboxProofs!NothingLost` | `Spec => []NoRecordLost` |
| `DurableOutboxProofs!ImplementsAtLeastOnce` | `Spec => DeliversAtLeastOnce` |
| `DurableOutboxProofs!RowsAlwaysFollowEvents` | `Spec => []RowsFollowEvents` |
| `DurableOutboxProofs!QueueBounded` | `Spec => []QueueWithinCapacity` |
| `DurableOutboxProofs!RecoveryAccepted` | `Spec => []RecoveryNeverRefused`, assuming no reused identities and no repairs |
| `DispatchProofs!DispatchTypeCorrect` | `Spec => []TypeOK` |
| `DispatchProofs!RetriesAreBounded` | `Spec => []RetryBudget` |
| `DispatchProofs!EverySinkServed` | `Spec => []ShareForEachSink` |
| `DispatchProofs!NoRowSentTwice` | `Spec => NoResendInDispatch` |
| `DispatchProofs!RowsDeliverAtLeastOnce` | `Spec => DeliversAtLeastOnce` |
| `JsonlRotationProofs!RotationTypeCorrect` | `Spec => []TypeOK`, the active file below threshold plus batch included |
| `JsonlRotationProofs!RetentionBounded` | `Spec => []RetentionLimit` |
| `JsonlRotationProofs!CleanupKeepsEnough` | `Spec => KeepsEnough` |
| `JsonlRotationProofs!RemovesOldestDateFirst` | `Spec => OldestDateFirst` |
| `WatchProofs!WatchTypeCorrect` | `Spec => []TypeOK`, the limits of channel and pending set included |
| `WatchProofs!WatchLosesNothing` | `Spec => []NoChangeLost` |
| `ScanCommitProofs!TypeCorrect` | `Spec => []TypeOK`, at most one open episode per sink included |
| `ScanCommitProofs!RememberedWasWritten` | `Spec => []RememberedIsWritten` |
| `ScanCommitProofs!HeartbeatHeard` | `Spec => []HeartbeatNotSilent` |
| `ScanCommitProofs!SilenceInEpisode` | `Spec => SilentOnlyInEpisode` |
| `ScanCommitProofs!OutagesAlert` | `Spec => []OutageAlerts`, assuming `LegacyFreeWatch` |
| `SessionDrainProofs!TypeCorrect` | `Spec => []TypeOK`, windows within the byte budget included |
| `SessionDrainProofs!NoDrainRepeats` | `Spec => DrainAdvances` |
| `SessionDrainProofs!HistoryComplete` | `Spec => []HistoryReadsAll`, assuming `~ChangeInReread` |
| `SessionDrainProofs!NoRowSkipped` | `Spec => []NothingSkipped`, assuming `~LateInDrain` and `~ChangeInReread` |
| `AssignmentStoreProofs!StoreTypeCorrect` | `Spec => []TypeOK` |
| `AssignmentStoreProofs!FactHasOneIdentity` | `Spec => []OneIdentity` |
| `AssignmentStoreProofs!StoreStaysRecoverable` | `Spec => []AlwaysRecoverable` |
| `AssignmentStoreProofs!CommittedStays` | `Spec => NothingTakenBack` |

Assumptions.  `ConstantsAssumption`: limits are natural numbers, a file holds at
least one record, there is at least one date and one name, and `NoProc`, `NoGen`
are not members of the sets they stand outside of.  `Procs`, `Gens` and `Sinks` may
be any sets, also infinite ones.  `WatchAssumption`: finitely many files, capacities
at least 1.  `DispatchAssumption`: delays and clock are natural numbers, the cap and
the row limit at least 1, the events a finite set of numbers, the sinks a sequence.
`RotationAssumption`: limits as in `ConstantsAssumption`.  `AssignmentStore`: `NoProc` is
no process and the first key is a key; all sets may be infinite.  `ScanCommit`: clients,
postures, classifications and sinks are finite sets (a scan finds finitely much, and the
save policy counts keys), durable sinks are sinks, a setup has the fields of a
configuration.  `SessionDrain`: finitely many rows, byte sizes are natural numbers,
budget and limits at least 1, rows whose mapping is refused retain nothing, and lateness
is at most the resume overlap.

Three theorems have a hypothesis of their own, each the exact condition that TLC shows
to be needed.  `LegacyFreeWatch` (an installation saves every scan or inherited no
legacy keys) excludes what finding 1 is about.  `~ChangeInReread` and `~LateInDrain`
exclude the two disagreements on the OpenCode store: TLC finds a skipped row with
either flag TRUE, and an unread one in a history pass with the first.

**Nothing lost.**  `NoRecordLost` is not inductive.  Its inductive strengthening is
`SafeInv = TypeInv /\ LocksHeld /\ DataInv /\ CaughtUp`:

* `TypeInv` adds to the types that the admitted batch fits under `MaxEvents`;
* `LocksHeld`: a process at a label under a lock holds that lock, so that at most
  one is inside - every other part needs it;
* `TornActive`: only the active file ends in a partial record, so a reconciliation
  that stops at a partial record stops at the end of the list and skips no file;
* `CursorListed`: the cursor's file is linked, which is what keeps "from the
  cursor on" meaningful.  `Unlink` keeps it because `generation_is_eligible` asks
  for a name strictly before the cursor's;
* `CaughtUp`: between the recovering reconciliation and the append everything written
  is stored.  This is what makes rotation safe in spite of reused names: the file
  that is renamed to a name before the cursor's holds nothing unread.

`UnlinkData` shows that a removed file's records are stored, from `OriginsMatch`;
`ReconcileStores` that a reconciliation stores all that was unread; `WriteData` that
a new record lands in an active file at or after the cursor.

**At least once.**  The refinement maps `written` to the events 1..`minted`,
`acked` and `dead` to the rows in these states.  It needs `RefInv = TypeInv /\
LocksHeld /\ RowInv`: records and rows belong to written events, no row belongs to
an alert, and the row of the attempt in flight is still pending and, if it is to be
acknowledged, received.  The last is the part that two actors could break: the
operator's release touches only blocked rows, the admission lock keeps other
dispatches away.  Each step is then a step of `AtLeastOnce` or a stutter.

**Watch.**  `WatchInv = TypeOK /\ NoChangeLost /\ StartEmpty`.  `AbsorbKeeps` and
`TakeOverflowKeeps` carry the argument: coalescing keeps the limit, and whatever was
noted or announced before is still noted or a full scan is due.

**Queue and recovery.**  `QueueInv` adds `RoomForBatch` to the two properties: between
admission and the end of the append, the open events and the rest of the admitted
batch fit under the limit together, which is what the admission lock is for.
`RecoverInv` relates the table of generations to the directory: a generation recorded as
present is linked and a pruned one is not, the file of an open removal is gone and its
identity known, and the cursor's observed length is at most the file's.

**Dispatch.**  `DispatchInv = TypeOK /\ OneFlight /\ Accounted`: at most one attempt is in
flight and its row is still pending; sends are covered by the counted attempts, the
losses and the one in flight, and attempts by the budget and the releases.
`SentNotReady` (a row sent in this dispatch is in flight or due later) carries
`NoResendInDispatch` and rests on `RetryLater`: the floor of 1 makes a retry strictly
later until the clock saturates.  `Shared` says that every sink before the present one
was served or has nothing that was ready all along.

**Retention.**  `RotationInv` contains that names are distinct and files created in
order (`Names`), that of two rotated files the older has no later date (`Dated`), that
every file on the clean-up's list has `Keep` files above it and nothing but doomed or
missed ones below (`ListLeft`), and the bound on the rest (`Kept`).

**Assignment store.**  `StoreInv` is `TypeOK`, the ledger in a form without existential
bounds (`Numbered`, `Chained`, `Keyed`), `Distinct` (rows differ in fact and identifier),
and for each process what it knows in the middle of a call (`Knows`): the receipt, the
row or the count it wrote is as it left it, because it holds the lock.  `OneIdentity`
needs `Distinct`, and `Distinct` that a claim looks under every epoch and that nothing
is pending when it looks.

**Scan state.**  Five invariants over `TypeInv`, each for one theorem:

* `LatchInv`: at most one open episode per sink and one health time, in memory and on
  disk.  Every writer removes what it replaces; `HealthTimes` and `EpisodesOf` of the
  inherited legacy keys are empty.
* `WrittenInv`: what the installed state remembers is in the journal; what the memory of
  a prepared scan remembers is in the journal or in the events it is about to write.
  `Persist` closes the gap before `Install` uses it: this is the order the code depends
  on.  The part about one classification per legacy key makes it inductive under every
  emission order.
* `HealthInv`: every health time in state, memory or heartbeat was written.
* `EpisodeInv`: an episode, in memory or on disk, that refers to a sink's present success
  was alerted since that success, unless the success is `unseen`; a failed latch save or a
  stop leaves the older episode on disk, which satisfies the same.  A dispatch that succeeds
  at a time no episode refers to makes every episode one of an earlier success, whatever the
  clock says.  Between `Observe` and `Alert` the same is said of the failures the scan has
  decided to leave unalerted and of the success times it has read (`SilentTold`): a success
  of another dispatch in between makes the episode it records one of an earlier success.
* `OutageInv`: every latch on disk was alerted since a scan saw it gone, and a scan that
  emits nothing has learned nothing (`QuietScan`).  `InstalledKeys` then shows that a
  state the size comparison does not save *is* the installed one, which fails exactly
  when a legacy key hides a detection.  It needs the key set to be finite.

**OpenCode drain.**  `RetainedBound` (a window retains at most the budget) is the one
fact about bytes; it is about cardinalities, so no sum is unfolded.  `LeftBehind` and
the lemmas on whole groups say that a cut window is a prefix in time: what it leaves is
strictly later than its high-water.  On these rest

* `ReadInv`: where the next read of a scan begins, from the installed position or from
  the drain's high-water;
* `ProgressInv`: a strict read completes or ends at or after its lower bound - hence
  `DrainAdvances`, with a store that changes at any time;
* `WindowInv`: the window under evaluation is the one the store holds, and the rows set
  aside are its rows.  It is what `ChangeInReread` breaks;
* `HistoryInv`, `ScanInv`: while a drain is unfinished, what it has not seen is later than
  its high-water.  When it is complete a history pass has seen everything, and what a
  routine scan has not seen (rows written meanwhile) is within the resume overlap of the
  position it will install.  `LateInDrain` breaks the first part.

Only model-checked: liveness (`EventuallyIngested`, `EventuallySettled`,
`ChangeEventuallyScanned`, `ShutdownStops`, `EventuallyAccounted`), which
the installed provers do not support.  Every invariant and action property of a passing
run is also a theorem.

## Not modelled

* Format-specific parsing of session files, the detection engine, rule compilation,
  redaction, scoring, the event schema: pure data transformation without protocol,
  and most of the repository's lines.  Their correctness is about strings and rule
  data, not about order.
* Transports: the outcome of an attempt is a nondeterministic choice.
* Forward migration of the outbox schema and permission checks: sequential, once.
* An interrupted initialisation of the assignment store, which its README asks to
  remove by hand.
* Verification of lock files and of hard or symbolic links in the journal directory:
  input validation against a third party.
* The macOS metadata poll of the watch loop and the path filter for sidecars.
* `run_scan` without an outbox, dry runs, the install inventory.
* Starvation of a retry by an endless inflow (`next_ready_delivery` puts new rows
  first): needs an unbounded number of events.
* Command-line, configuration, console, rules server, export.

## Plan

What is left, the most consequential first:

1. `LocalEventFeed` - a follower of the rotating journal that must neither skip nor
   repeat records while `DurableOutbox` rotates and prunes.
2. Abstract specifications of a scan (report each detection at least once) and of the
   drain (every row version is read or accounted for), with refinement theorems.
3. `Migration` - crash recovery of the one-shot copy; lock-file verification.
4. Runs that expect the violations of `NothingSkipped` with `LateInDrain` and with
   `ChangeInReread`, now described above only.
5. Retry starvation as a property of an open system.
6. `ScanCommit` composed with `DurableOutbox` through its persist operation.
