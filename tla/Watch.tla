-------------------------------- MODULE Watch --------------------------------
(***************************************************************************)
(* telltale watch: file-system notifications, the bounded inbox between    *)
(* the notify thread and the main loop, the coalescing of changes, and the *)
(* scans that the main loop starts.  Two threads share the notification    *)
(* channel, the overflow flag and the error channel; a third party changes *)
(* the session files all the time.                                         *)
(*                                                                         *)
(* Data abstraction.  The contents of a session file are its version, the  *)
(* number of changes made to it.  Paths are already normalised and belong  *)
(* to watched sources (the sidecar filter drops the others).  Durations    *)
(* are not modelled: a window may end at any time, a heartbeat may be due  *)
(* at any time.  Parsing and detection of a source are one step, the read. *)
(***************************************************************************)
EXTENDS Integers, Sequences, FiniteSets

CONSTANTS
  Paths,             \* session files under the watched roots
  QueueCapacity,     \* WATCH_NOTIFICATION_CAPACITY
  EventCapacity,     \* WATCH_EVENT_PATH_CAPACITY
  PendingCapacity,   \* WATCH_PENDING_PATH_CAPACITY
  InitialScan,       \* --initial-scan
  Iterations,        \* --iterations, Unlimited if not given
  Heartbeats,        \* the liveness heartbeat is configured
  MaxChanges,        \* bound: changes to each file, a function of the path
  MaxPathsPerEvent   \* bound: files named by one notification

Unlimited == -1

ASSUME WatchAssumption ==
  /\ IsFiniteSet(Paths)
  /\ QueueCapacity \in Nat \ {0} /\ EventCapacity \in Nat \ {0}
  /\ PendingCapacity \in Nat \ {0}
  /\ InitialScan \in BOOLEAN /\ Heartbeats \in BOOLEAN
  /\ Iterations \in Nat \cup {Unlimited}
  /\ MaxChanges \in [Paths -> Nat] /\ MaxPathsPerEvent \in Nat

VARIABLES
  \* the file system and the operating system's notification stream
  present,    \* session files that exist
  version,    \* changes made to each file so far
  kernel,     \* notifications not yet handed to the notify callback
  \* shared by the notify callback, the signal handler and the main loop
  queue,      \* notification channel
  overflow,   \* overflow flag
  failed,     \* the error channel holds an error
  shutdown,   \* shutdown flag
  \* the main loop
  pc,         \* control state
  initial,    \* initial_scan
  pending,    \* PendingWatchChanges
  index,      \* source_index
  remaining,  \* iterations left
  full,       \* the running scan is a full one
  found,      \* sources the running full scan discovered
  todo,       \* sources the running scan has yet to read
  scanned     \* history: the version of each file that a scan last looked at

envVars    == <<present, version>>
sharedVars == <<queue, overflow, failed, shutdown>>
scanVars   == <<full, found, todo, scanned>>
vars == <<present, version, kernel, queue, overflow, failed, shutdown, pc, initial,
          pending, index, remaining, full, found, todo, scanned>>

Notifications ==
  [kind : {"change", "remove", "rescan"}, paths : SUBSET Paths]
Rescan == [kind |-> "rescan", paths |-> {}]

NothingPending == [paths |-> {}, remove |-> FALSE, rescan |-> FALSE]
IsEmpty(c) == c = NothingPending

\* PendingWatchChanges::require_full_scan.
RequireFullScan(c) == [c EXCEPT !.rescan = TRUE, !.paths = {}]

\* Variant: the pending set has no limit.
AbsorbUnbounded(c, n) ==
  CASE c.rescan -> c
    [] ~c.rescan /\ n.kind = "rescan" -> RequireFullScan(c)
    [] ~c.rescan /\ n.kind # "rescan" ->
         [c EXCEPT !.paths = @ \cup n.paths, !.remove = @ \/ n.kind = "remove"]

\* PendingWatchChanges::absorb_with_filter.
Absorb(c, n) ==
  LET marked == IF n.kind = "remove" THEN [c EXCEPT !.remove = TRUE] ELSE c
  IN  CASE c.rescan -> c
        [] ~c.rescan /\ n.kind = "rescan" -> RequireFullScan(c)
        [] ~c.rescan /\ n.kind # "rescan" ->
             IF Cardinality(c.paths \cup n.paths) > PendingCapacity
               THEN RequireFullScan(marked)
               ELSE [marked EXCEPT !.paths = c.paths \cup n.paths]

\* Variant: the flag is cleared and not acted upon.
TakeOverflowIgnored(c) == c

\* WatchInbox::take_signals, without the error check.
TakeOverflow(c) == IF overflow THEN RequireFullScan(c) ELSE c

-----------------------------------------------------------------------------
\* All watches are registered; the source index is not built yet.  Without
\* --initial-scan the sessions that exist are not scanned until they change.
Init ==
  /\ present \in SUBSET Paths
  /\ version = [p \in Paths |-> 0]
  /\ kernel = {}
  /\ queue = <<>>
  /\ overflow = FALSE /\ failed = FALSE /\ shutdown = FALSE
  /\ pc = "start"
  /\ initial = InitialScan
  /\ pending = NothingPending
  /\ index = {}
  /\ remaining = Iterations
  /\ full = FALSE /\ found = {} /\ todo = {}
  /\ scanned = [p \in Paths |-> IF InitialScan THEN -1 ELSE 0]

-----------------------------------------------------------------------------
(* The environment and the notify thread.                                  *)

Bump(ps) == version' = [p \in Paths |-> IF p \in ps THEN version[p] + 1 ELSE version[p]]

\* Clients create or write session files; one notification names them all.
ChangeFiles(ps) ==
  /\ ps # {} /\ Cardinality(ps) <= MaxPathsPerEvent
  /\ \A p \in ps : version[p] < MaxChanges[p]
  /\ present' = present \cup ps
  /\ Bump(ps)
  /\ kernel' = kernel \cup {[kind |-> "change", paths |-> ps]}
  /\ UNCHANGED <<sharedVars, pc, initial, pending, index, remaining, scanVars>>

RemoveFile(p) ==
  /\ p \in present /\ version[p] < MaxChanges[p]
  /\ present' = present \ {p}
  /\ Bump({p})
  /\ kernel' = kernel \cup {[kind |-> "remove", paths |-> {p}]}
  /\ UNCHANGED <<sharedVars, pc, initial, pending, index, remaining, scanVars>>

\* The kernel's own queue overflows: it drops notifications and asks for a rescan.
KernelOverflow ==
  /\ kernel \ {Rescan} # {}
  /\ kernel' = {Rescan}
  /\ UNCHANGED <<envVars, sharedVars, pc, initial, pending, index, remaining, scanVars>>

\* admit_filtered_watch_event on a notification.
AdmitEvent(n) ==
  /\ n \in kernel
  /\ kernel' = kernel \ {n}
  /\ IF Cardinality(n.paths) > EventCapacity \/ Len(queue) = QueueCapacity
       THEN overflow' = TRUE /\ UNCHANGED queue
       ELSE queue' = Append(queue, n) /\ UNCHANGED overflow
  /\ UNCHANGED <<envVars, failed, shutdown, pc, initial, pending, index, remaining, scanVars>>

\* admit_filtered_watch_event on a watcher error: the first one is retained.
AdmitError ==
  /\ failed' = TRUE
  /\ UNCHANGED <<envVars, kernel, queue, overflow, shutdown, pc, initial, pending, index,
                 remaining, scanVars>>

\* The ctrl-c handler.
RequestShutdown ==
  /\ shutdown' = TRUE
  /\ UNCHANGED <<envVars, kernel, queue, overflow, failed, pc, initial, pending, index,
                 remaining, scanVars>>

-----------------------------------------------------------------------------
(* The main loop.                                                          *)

LoopUnchanged == UNCHANGED <<envVars, kernel, failed, shutdown>>

\* The sources are discovered only now, after every watch is registered.
\* The top of the loop asks for a full scan at once if it is the initial one.
Start ==
  /\ pc = "start"
  /\ index' = present
  /\ pending' = IF initial THEN RequireFullScan(NothingPending) ELSE NothingPending
  /\ pc' = IF initial THEN "decide" ELSE "wait"
  /\ LoopUnchanged
  /\ UNCHANGED <<queue, overflow, initial, remaining, scanVars>>

\* take_signals finds an error: run_watch returns it.
FailLoop ==
  /\ pc \in {"wait", "window", "decide"} /\ failed
  /\ pc' = "stopped"
  /\ LoopUnchanged
  /\ UNCHANGED <<queue, overflow, initial, pending, index, remaining, scanVars>>

\* Variant: the idle loop does not look at the shutdown flag.
WaitSignalsOnly ==
  /\ pc = "wait" /\ ~failed
  /\ overflow' = FALSE
  /\ pending' = TakeOverflow(pending)
  /\ pc' = IF IsEmpty(pending') THEN "recv" ELSE "window"
  /\ LoopUnchanged
  /\ UNCHANGED <<queue, initial, index, remaining, scanVars>>

\* Variant: an overflow is noted, but the loop waits for a notification all the same.
WaitSignalsThenReceive ==
  /\ pc = "wait" /\ ~failed
  /\ overflow' = FALSE
  /\ pending' = TakeOverflow(pending)
  /\ pc' = IF shutdown THEN "stopped" ELSE "recv"
  /\ LoopUnchanged
  /\ UNCHANGED <<queue, initial, index, remaining, scanVars>>

\* The idle loop takes the overflow flag and looks at the shutdown flag.
WaitSignals ==
  /\ pc = "wait" /\ ~failed
  /\ overflow' = FALSE
  /\ pending' = TakeOverflow(pending)
  /\ pc' = IF shutdown THEN "stopped" ELSE IF IsEmpty(pending') THEN "recv" ELSE "window"
  /\ LoopUnchanged
  /\ UNCHANGED <<queue, initial, index, remaining, scanVars>>

\* A due heartbeat asks for a full scan.
HeartbeatDue ==
  /\ pc = "recv" /\ Heartbeats
  /\ pending' = RequireFullScan(pending)
  /\ pc' = "window"
  /\ LoopUnchanged
  /\ UNCHANGED <<queue, overflow, initial, index, remaining, scanVars>>

\* The recovery at start-up or a delivery of the idle loop returns an error (another
\* process holds the admission lock, say): the watch ends with it.
DeliveryFails ==
  /\ pc \in {"start", "recv"}
  /\ pc' = "stopped"
  /\ LoopUnchanged
  /\ UNCHANGED <<queue, overflow, initial, pending, index, remaining, scanVars>>

\* The idle loop waits in vain, or spends its turn on durable delivery.
IdleTurn ==
  /\ pc = "recv"
  /\ pc' = "wait"
  /\ LoopUnchanged
  /\ UNCHANGED <<queue, overflow, initial, pending, index, remaining, scanVars>>

\* recv_timeout of the idle loop returns a notification.
Receive ==
  /\ pc = "recv" /\ queue # <<>>
  /\ pending' = Absorb(pending, Head(queue))
  /\ queue' = Tail(queue)
  /\ pc' = IF IsEmpty(pending') THEN "wait" ELSE "window"
  /\ LoopUnchanged
  /\ UNCHANGED <<overflow, initial, index, remaining, scanVars>>

\* collect_watch_events_for (debounce window, then rate limit): take the signals;
WindowSignals ==
  /\ pc = "window" /\ ~failed
  /\ overflow' = FALSE
  /\ pending' = TakeOverflow(pending)
  /\ pc' = "windowRecv"
  /\ LoopUnchanged
  /\ UNCHANGED <<queue, initial, index, remaining, scanVars>>

\* then receive a notification,
WindowReceive ==
  /\ pc = "windowRecv" /\ ~shutdown /\ queue # <<>>
  /\ pending' = Absorb(pending, Head(queue))
  /\ queue' = Tail(queue)
  /\ pc' = "window"
  /\ LoopUnchanged
  /\ UNCHANGED <<overflow, initial, index, remaining, scanVars>>

\* or none within the poll interval,
WindowTimeout ==
  /\ pc = "windowRecv" /\ ~shutdown
  /\ pc' = "window"
  /\ LoopUnchanged
  /\ UNCHANGED <<queue, overflow, initial, pending, index, remaining, scanVars>>

\* or find the window over or a shutdown requested.
WindowEnd ==
  /\ pc = "windowRecv"
  /\ pc' = "decide"
  /\ LoopUnchanged
  /\ UNCHANGED <<queue, overflow, initial, pending, index, remaining, scanVars>>

\* PendingWatchChanges::scan_action.
NeedsFull(c) == c.remove \/ c.rescan \/ ~(c.paths \subseteq index)

\* The last look at the signals, the widening by a due heartbeat, and the
\* start of the scan.  pending is spent: the next turn starts from an empty one.
Decide(heartbeat) ==
  /\ pc = "decide" /\ ~failed /\ ~shutdown
  /\ heartbeat => Heartbeats
  /\ overflow' = FALSE
  /\ LET taken == TakeOverflow(pending)
         c == IF heartbeat THEN RequireFullScan(taken) ELSE taken
     IN  /\ full' = NeedsFull(c)
         /\ todo' = IF NeedsFull(c) THEN {} ELSE c.paths
         /\ pc' = IF NeedsFull(c) THEN "discover" ELSE IF c.paths = {} THEN "wait" ELSE "scan"
  /\ pending' = NothingPending
  /\ LoopUnchanged
  /\ UNCHANGED <<queue, initial, index, remaining, found, scanned>>

DecideShutdown ==
  /\ pc = "decide" /\ shutdown
  /\ pc' = "stopped"
  /\ LoopUnchanged
  /\ UNCHANGED <<queue, overflow, initial, pending, index, remaining, scanVars>>

\* discover_operational_sources of a full scan: a file that is gone is noticed here.
Discover ==
  /\ pc = "discover"
  /\ found' = present
  /\ todo' = present
  /\ scanned' = [p \in Paths |-> IF p \in present THEN scanned[p] ELSE version[p]]
  /\ pc' = "scan"
  /\ LoopUnchanged
  /\ UNCHANGED <<queue, overflow, initial, pending, index, remaining, full>>

ReadSource(p) ==
  /\ pc = "scan" /\ p \in todo
  /\ todo' = todo \ {p}
  /\ scanned' = [scanned EXCEPT ![p] = version[p]]
  /\ LoopUnchanged
  /\ UNCHANGED <<queue, overflow, pc, initial, pending, index, remaining, full, found>>

\* run_scan returns an error: the watch ends with it.
ScanFails ==
  /\ pc \in {"discover", "scan"}
  /\ pc' = "stopped"
  /\ LoopUnchanged
  /\ UNCHANGED <<queue, overflow, initial, pending, index, remaining, scanVars>>

\* iteration_budget_exhausted.
BudgetExhausted == remaining # Unlimited /\ remaining <= 1

\* The scan is complete: error check, new index, iteration budget.
EndScan ==
  /\ pc = "scan" /\ todo = {}
  /\ index' = IF full /\ ~failed THEN found ELSE index
  /\ initial' = (initial /\ failed)
  /\ remaining' = IF initial \/ failed \/ remaining = Unlimited \/ BudgetExhausted
                    THEN remaining ELSE remaining - 1
  /\ pc' = IF failed \/ (~initial /\ BudgetExhausted) THEN "stopped" ELSE "wait"
  /\ LoopUnchanged
  /\ UNCHANGED <<queue, overflow, pending, scanVars>>

-----------------------------------------------------------------------------
LoopStep ==
  \/ Start \/ FailLoop \/ WaitSignals \/ HeartbeatDue \/ DeliveryFails \/ IdleTurn \/ Receive
  \/ WindowSignals \/ WindowReceive \/ WindowTimeout \/ WindowEnd
  \/ \E h \in BOOLEAN : Decide(h)
  \/ DecideShutdown \/ Discover \/ \E p \in Paths : ReadSource(p)
  \/ ScanFails \/ EndScan

Environment ==
  \/ \E ps \in SUBSET Paths : ChangeFiles(ps)
  \/ \E p \in Paths : RemoveFile(p)
  \/ KernelOverflow \/ AdmitError \/ RequestShutdown

NotifyStep == \E n \in kernel : AdmitEvent(n)

Next == LoopStep \/ NotifyStep \/ Environment

Spec == Init /\ [][Next]_vars

-----------------------------------------------------------------------------
(* Properties.                                                             *)

Labels == {"start", "wait", "recv", "window", "windowRecv", "decide", "discover", "scan",
           "stopped"}

\* Every variable has its type; the inbox and the pending set keep their limits.
TypeOK ==
  /\ present \subseteq Paths /\ index \subseteq Paths
  /\ found \subseteq Paths /\ todo \subseteq Paths
  /\ version \in [Paths -> Nat] /\ scanned \in [Paths -> Int]
  /\ kernel \subseteq Notifications
  /\ queue \in Seq(Notifications) /\ Len(queue) <= QueueCapacity
  /\ overflow \in BOOLEAN /\ failed \in BOOLEAN /\ shutdown \in BOOLEAN
  /\ initial \in BOOLEAN /\ full \in BOOLEAN
  /\ pc \in Labels
  /\ pending \in [paths : SUBSET Paths, remove : BOOLEAN, rescan : BOOLEAN]
  /\ Cardinality(pending.paths) <= PendingCapacity
  /\ remaining \in Nat \cup {Unlimited}

\* Something on its way will make a scan look at file p.
Announces(n, p) == n.kind = "rescan" \/ p \in n.paths
Notified(p) == (\E n \in kernel : Announces(n, p)) \/ (\E i \in DOMAIN queue : Announces(queue[i], p))
Noted(p)    == overflow \/ pending.rescan \/ pending.remove \/ p \in pending.paths
Scheduled(p) == \/ pc = "start" /\ initial
                \/ pc = "discover"
                \/ pc = "scan" /\ p \in todo

\* No change is lost: while a file is newer than what a scan last saw of it, a
\* notification, the overflow flag, the pending set or the running scan will
\* bring a scan to it, also when the channel, the pending set or the kernel's
\* queue overflowed, or the file changed while a scan was under way.
NoChangeLost ==
  \A p \in Paths :
    scanned[p] # version[p] => pc = "stopped" \/ Notified(p) \/ Noted(p) \/ Scheduled(p)

\* Fairness.  The notify thread and the main loop go on; a window ends when its
\* deadline passes; idle delivery runs at most once per interval, so it cannot
\* take every turn of the idle loop.
Fairness == WF_vars(NotifyStep) /\ WF_vars(LoopStep) /\ SF_vars(WindowEnd) /\ SF_vars(Receive)

FairSpec == Spec /\ Fairness

\* Every change to a session file is eventually seen by a scan, unless the
\* watch ends (shutdown, watcher, delivery or scan error, iteration budget).
ChangeEventuallyScanned ==
  \A p \in Paths : \A v \in 1..MaxChanges[p] :
    version[p] = v ~> scanned[p] >= v \/ pc = "stopped"

\* A requested shutdown ends the watch, whatever keeps arriving.
ShutdownStops == shutdown ~> pc = "stopped"
=============================================================================
