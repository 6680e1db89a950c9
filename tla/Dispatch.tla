------------------------------ MODULE Dispatch ------------------------------
(***************************************************************************)
(* One durable dispatch after another over the deliveries table: selection *)
(* of the next ready row, the single transport attempt, the committed      *)
(* result with its retry time, the per-sink share of a dispatch, and the   *)
(* operator's release of blocked rows, which takes no lock.  The admission *)
(* lock (see DurableOutbox) leaves at most one dispatch running at a time. *)
(*                                                                         *)
(* Data abstraction.  Times are ticks up to MaxTime, the saturation point  *)
(* of the 64-bit clock; error classes are the four verdicts the code draws *)
(* from them; the 100 ms budget of a sink may be spent after any attempt.  *)
(***************************************************************************)
EXTENDS Integers, Sequences, FiniteSets, FiniteSetsExt

CONSTANTS
  Events,        \* numbers; the order of event identities
  SinkOrder,     \* durable_sink_ids, a sequence of sinks
  Alerts,        \* events that are delivery-failure alerts (legacy rows)
  RowLimit,      \* rows per sink and dispatch
  MaxAttempts,   \* max_attempts of the retry configuration
  BaseDelay,     \* base_delay_ms
  MaxDelay,      \* MAX_RETRY_DELAY_MILLIS
  MaxTime,       \* bound: the last tick of the clock (i64::MAX)
  MaxReleases,   \* bound: operator releases
  MaxLosses      \* bound: results of one row lost by a crash or an error

ASSUME DispatchAssumption ==
  /\ Events \subseteq Nat /\ IsFiniteSet(Events)
  /\ Alerts \subseteq Events
  /\ SinkOrder \in Seq({SinkOrder[i] : i \in DOMAIN SinkOrder})
  /\ {RowLimit, MaxAttempts, BaseDelay, MaxDelay, MaxTime, MaxReleases, MaxLosses}
       \subseteq Nat
  /\ RowLimit > 0 /\ MaxDelay > 0

VARIABLES
  clock,      \* unix_millis
  row,        \* deliveries table, a record per event and sink
  received,   \* history: rows that reached the receiver
  now,        \* the time the running dispatch works with
  turn,       \* index of its current sink, 0 when no dispatch runs
  used,       \* rows it has taken of the current sink's share
  flight,     \* the row being attempted and its result
  sent,       \* history: rows the running dispatch has attempted
  served,     \* history: sinks of which it has taken a row
  sends,      \* history: attempts made of each row
  releases,   \* history: operator releases of each sink
  losses      \* history: results never committed, per row

Sinks == {SinkOrder[i] : i \in DOMAIN SinkOrder}
Rows  == Events \X Sinks
runVars == <<now, turn, used, flight, sent, served>>
vars == <<clock, row, received, now, turn, used, flight, sent, served, sends, releases, losses>>

Null    == -1
States  == {"none", "pending", "acked", "blocked", "dead"}
Results == {"ok", "retryable", "permanent", "blocked"}

-----------------------------------------------------------------------------
RetryDelayAsConfigured(attempt) ==  \* variant: a delay of 0 is allowed
  Min({BaseDelay * 2^(Min({Max({attempt - 1, 0}), 31})), MaxDelay})

\* next_retry_at: base_delay (at least 1) times 2^(attempt-1), capped, saturating.
RetryDelay(attempt) ==
  Min({Max({BaseDelay, 1}) * 2^(Min({Max({attempt - 1, 0}), 31})), MaxDelay})
NextRetryAtUnbounded(t, attempt) == t + RetryDelay(attempt)  \* variant: no saturation
NextRetryAt(t, attempt) == Min({t + RetryDelay(attempt), MaxTime})

ReadyInAnyState(r, t) ==  \* variant: no condition on the state
  row[r].state # "none" /\ row[r].next <= t
ReadyLater(r, t) ==  \* variant: the comparison is strict
  row[r].state = "pending" /\ row[r].next < t
Ready(r, t) == row[r].state = "pending" /\ row[r].next <= t

\* ORDER BY COALESCE(next_attempt_at, 0), updated_at, event_id.
DueTime(r) == IF row[r].next = Null THEN 0 ELSE row[r].next
Before(q, r) ==
  \/ DueTime(q) < DueTime(r)
  \/ DueTime(q) = DueTime(r) /\ row[q].updated < row[r].updated
  \/ DueTime(q) = DueTime(r) /\ row[q].updated = row[r].updated /\ q[1] <= r[1]

\* next_ready_delivery(sink, now) returns row r.
NextReady(r, s) ==
  /\ r[2] = s /\ Ready(r, now)
  /\ \A q \in Rows : q[2] = s /\ Ready(q, now) => Before(r, q)

\* The attempt was not the last that max_attempts allows.
CanRetryOnceMore(attempt) == attempt <= Max({MaxAttempts, 1})  \* variant: off by one
CanRetry(attempt) == attempt < Max({MaxAttempts, 1})

\* The row after an attempt with the given result.
Recorded(r, result) ==
  LET attempt == row[r].attempts + 1
      retry == result = "retryable" /\ CanRetry(attempt)
  IN  [state |-> CASE result = "ok" -> "acked"
                   [] result = "blocked" -> "blocked"
                   [] retry -> "pending"
                   [] OTHER -> "dead",
       attempts |-> attempt,
       next |-> IF retry THEN NextRetryAt(now, attempt) ELSE Null,
       updated |-> now]

-----------------------------------------------------------------------------
NoRow == [state |-> "none", attempts |-> 0, next |-> Null, updated |-> 0]

Init ==
  /\ clock = 0
  /\ row = [r \in Rows |-> NoRow]
  /\ received = {}
  /\ now = 0 /\ turn = 0 /\ used = 0 /\ flight = {} /\ sent = {}
  /\ served = {}
  /\ sends = [r \in Rows |-> 0]
  /\ releases = [s \in Sinks |-> 0]
  /\ losses = [r \in Rows |-> 0]

\* insert_payload_transaction: one pending row per sink, due at once.
Ingest(e) ==
  /\ turn = 0
  /\ \A s \in Sinks : row[<<e, s>>].state = "none"
  /\ row' = [r \in Rows |-> IF r[1] = e
                              THEN [NoRow EXCEPT !.state = "pending", !.updated = clock]
                              ELSE row[r]]
  /\ UNCHANGED <<clock, received, runVars, sends, releases, losses>>

StartDispatch ==
  /\ turn = 0 /\ SinkOrder # <<>>
  /\ now' = clock
  /\ turn' = 1
  /\ used' = 0
  /\ sent' = {} /\ served' = {}
  /\ UNCHANGED <<clock, row, received, flight, sends, releases, losses>>

\* is_delivery_failure_alert_payload.
IsAlert(e) == e \in Alerts

\* A stale row of an alert is closed without being sent.
CloseAlert(r) ==
  /\ turn \in DOMAIN SinkOrder /\ flight = {} /\ used < RowLimit
  /\ NextReady(r, SinkOrder[turn])
  /\ IsAlert(r[1])
  /\ row' = [row EXCEPT ![r] = Recorded(r, "permanent")]
  /\ used' = used + 1
  /\ served' = served \cup {r[2]}
  /\ UNCHANGED <<clock, received, now, turn, flight, sent, sends, releases, losses>>

\* emit_canonical_once: the receiver may have the event although the answer is bad.
Attempt(r, result, arrived) ==
  /\ turn \in DOMAIN SinkOrder /\ flight = {} /\ used < RowLimit
  /\ NextReady(r, SinkOrder[turn])
  /\ ~IsAlert(r[1])
  /\ result = "ok" => arrived
  /\ flight' = {<<r, result>>}
  /\ received' = IF arrived THEN received \cup {r} ELSE received
  /\ used' = used + 1
  /\ sent' = sent \cup {r}
  /\ served' = served \cup {r[2]}
  /\ sends' = [sends EXCEPT ![r] = @ + 1]
  /\ UNCHANGED <<clock, row, now, turn, releases, losses>>

\* record_delivery_at.
Record ==
  /\ \E f \in flight : row' = [row EXCEPT ![f[1]] = Recorded(f[1], f[2])]
  /\ flight' = {}
  /\ UNCHANGED <<clock, received, now, turn, used, sent, served, sends, releases, losses>>

\* The sink's share may be over: no ready row, or, after its first row, the row
\* limit reached or its time spent.
ShareOverAnyTime == TRUE  \* variant: the time budget is shared by all sinks
ShareOver == used > 0 \/ ~\E r \in Rows : NextReady(r, SinkOrder[turn])
NextSink ==
  /\ turn \in DOMAIN SinkOrder /\ flight = {}
  /\ ShareOver
  /\ turn' = turn + 1
  /\ used' = 0
  /\ UNCHANGED <<clock, row, received, now, flight, sent, served, sends, releases, losses>>

\* Every sink had its turn.
EndDispatch ==
  /\ turn > Len(SinkOrder)
  /\ turn' = 0
  /\ UNCHANGED <<clock, row, received, now, used, flight, sent, served, sends, releases,
                 losses>>

\* A crash or a durable-storage error: the result in flight is never committed.
LoseRun ==
  /\ turn > 0
  /\ flight # {} => \A r \in Rows : losses[r] < MaxLosses
  /\ losses' = [r \in Rows |-> IF \E f \in flight : f[1] = r THEN losses[r] + 1 ELSE losses[r]]
  /\ turn' = 0
  /\ flight' = {}
  /\ UNCHANGED <<clock, row, received, now, used, sent, served, sends, releases>>

\* release_blocked_for_sink, from another process: keeps the attempt count.
ReleaseBlocked(s) ==
  /\ \E e \in Events : row[<<e, s>>].state = "blocked"
  /\ \A t \in Sinks : releases[t] < MaxReleases
  /\ row' = [r \in Rows |->
               IF r[2] = s /\ row[r].state = "blocked"
                 THEN [row[r] EXCEPT !.state = "pending", !.next = clock, !.updated = clock]
                 ELSE row[r]]
  /\ releases' = [releases EXCEPT ![s] = @ + 1]
  /\ sent' = {r \in sent : ~(r[2] = s /\ row[r].state = "blocked")}
  /\ UNCHANGED <<clock, received, now, turn, used, flight, served, sends, losses>>

Tick ==
  /\ clock < MaxTime
  /\ clock' = clock + 1
  /\ UNCHANGED <<row, received, runVars, sends, releases, losses>>

RunStep ==
  \/ StartDispatch
  \/ \E r \in Rows : CloseAlert(r) \/ \E o \in Results, a \in BOOLEAN : Attempt(r, o, a)
  \/ Record \/ NextSink \/ EndDispatch

Next ==
  \/ RunStep \/ LoseRun \/ Tick
  \/ \E e \in Events : Ingest(e)
  \/ \E s \in Sinks : ReleaseBlocked(s)

Spec == Init /\ [][Next]_vars

-----------------------------------------------------------------------------
(* Properties.                                                             *)

\* Every variable has its type.
TypeOK ==
  /\ clock \in 0..MaxTime /\ now \in 0..MaxTime
  /\ row \in [Rows -> [state : States, attempts : Nat, next : {Null} \cup 0..MaxTime,
                       updated : 0..MaxTime]]
  /\ received \subseteq Rows /\ sent \subseteq Rows /\ served \subseteq Sinks
  /\ turn \in 0..(Len(SinkOrder) + 1) /\ used \in 0..RowLimit
  /\ flight \subseteq Rows \X Results
  /\ sends \in [Rows -> Nat] /\ losses \in [Rows -> Nat] /\ releases \in [Sinks -> Nat]

\* A row is never sent more often than max_attempts plus one attempt for each
\* operator release of its sink plus one for each result that a crash lost.
RetryBudget ==
  \A r \in Rows : sends[r] <= Max({MaxAttempts, 1}) + releases[r[2]] + losses[r]

\* No dispatch sends a row twice, even if the retry delay is configured as 0,
\* unless an operator released the row in between: a retry is always due later
\* than the time the dispatch works with.
NoResendInDispatch ==
  [][\A f \in flight' \ flight : now < MaxTime => f[1] \notin sent]_vars

\* Each configured sink receives its own share of a dispatch: when a dispatch
\* has been through all sinks, a sink that still has a row which was ready all
\* along was not passed over, whatever the sinks before it cost.
ShareForEachSink ==
  turn > Len(SinkOrder) =>
    \A r \in Rows : Ready(r, now) /\ row[r].updated < now => r[2] \in served

\* The rows implement the delivery guarantee.
ALO == INSTANCE AtLeastOnce WITH
  written <- {e \in Events : \E s \in Sinks : row[<<e, s>>].state # "none"},
  Alerts <- {},
  acked <- {r \in Rows : row[r].state = "acked"},
  dead <- {r \in Rows : row[r].state = "dead"}
DeliversAtLeastOnce == ALO!Spec

\* Fairness.  Time passes, dispatches are started by every scan and every idle
\* interval, a started dispatch goes on, and crashes do not strike every dispatch
\* before its first attempt nor lose every result.
Fairness ==
  /\ WF_vars(Tick) /\ WF_vars(RunStep) /\ SF_vars(Record)
  /\ SF_vars(\E r \in Rows : CloseAlert(r) \/ \E o \in Results, a \in BOOLEAN : Attempt(r, o, a))

FairSpec == Spec /\ Fairness

\* Every pending delivery is eventually settled: acknowledged, abandoned or
\* blocked for the operator.  Backoff, the row limit and the sinks before it
\* only delay it.
EventuallySettled == \A r \in Rows : row[r].state = "pending" ~> row[r].state # "pending"
=============================================================================
