--------------------------- MODULE SessionDrain ---------------------------
(***************************************************************************)
(* How a scan reads an OpenCode v2 store that OpenCode keeps writing to.   *)
(* Rows of session_message carry time_updated, which every in-place update *)
(* refreshes.  A scan reads windows of rows in (time_updated, rowid)       *)
(* order, evaluates each, and drains a backlog window after window; the    *)
(* position it reached is installed with the scan state once the events    *)
(* are persisted.                                                          *)
(*                                                                         *)
(* The store belongs to OpenCode: rows appear, change and vanish between   *)
(* any two reads, and may become visible with a time up to MaxLag in the   *)
(* past.  One read is one SQLite snapshot, hence one step.  Whether        *)
(* evaluating a window exceeds the work budget is a free choice.           *)
(***************************************************************************)
EXTENDS Integers, FiniteSets, FiniteSetsExt

CONSTANTS
    Rows,           \* rowids of session_message: a set of integers
    StartTime,      \* the model's first millisecond
    MaxTime,        \* the model's last millisecond
    MaxLag,         \* how late a row may become visible
    LateInDrain,    \* may a row appear at or before the cut of a drain?
    ChangeInReread, \* may the store change between the two reads of a quarantine?
    Bytes,          \* retained bytes of each row, 0 when it maps to nothing
    Rejected,       \* rows whose mapping is refused: quarantined in their window
    Stored,         \* bytes of each row's stored payload
    Budget,         \* MAX_CANONICAL_RETAINED_BYTES
    BootLimit,      \* SQLITE_PART_LIMIT
    ResumeLimit,    \* OPENCODE_SQLITE_RESUME_PART_LIMIT
    Overlap,        \* OPENCODE_SQLITE_RESUME_OVERLAP_MS
    DrainOverlap,   \* DRAIN_OVERLAP_MS
    MaxWindows,     \* MAX_DRAIN_WINDOWS_PER_SCAN
    GrowthAfter,    \* WINDOW_GROWTH_AFTER
    MaxWrites, MaxFaults   \* bounds of the model only

ASSUME RowsAssumption == Rows \subseteq Nat /\ IsFiniteSet(Rows)
ASSUME SizeAssumption == Bytes \in [Rows -> Nat] /\ Stored \in [Rows -> Nat]
ASSUME RejectedAssumption == \A r \in Rejected \cap Rows : Bytes[r] = 0
ASSUME LimitAssumption ==
    {Budget, BootLimit, ResumeLimit, MaxWindows, GrowthAfter, StartTime}
        \subseteq Nat \ {0}
ASSUME TimeAssumption ==
    {MaxTime, MaxLag, Overlap, DrainOverlap} \subseteq Nat /\ StartTime <= MaxTime
\* The overlap is there for late rows: it is at least their lateness.
ASSUME LagAssumption == MaxLag <= Overlap

VARIABLES
    now,        \* the clock
    store,      \* time_updated of each row, 0 when it is not in the store
    owed,       \* rows whose present version no persisted scan accounts for
    pos,        \* installed cursor: checkpoint and raw cut, 0 for none
    pc,         \* where the scan is
    mode,       \* "scan" or "history"
    base,       \* read options of the scan's first window
    read,       \* the pending read
    shrunk,     \* bytes of the attempt before, 0 for none
    win,        \* the window just read
    units,      \* rows to quarantine by coordinates
    drain,      \* what the drain has reached so far
    seen,       \* rows this scan accounts for, at their present version
    due,        \* rows a completed history pass owes its reader
    writes, faults
vars == <<now, store, owed, pos, pc, mode, base, read, shrunk, win, units, drain,
          seen, due, writes, faults>>
storeVars == <<now, store, writes>>

Max2(a, b) == IF a >= b THEN a ELSE b
Present == {r \in Rows : store[r] > 0}
Times(S) == {store[r] : r \in S}

-----------------------------------------------------------------------------
(***************************************************************************)
(* Read options.  min is the inclusive lower bound, 0 for the newest rows  *)
(* (bootstrap); floor the resume high-water the store must still reach;    *)
(* bytes the reduced window target, 0 for none; aside is set for the       *)
(* second read of a selection whose rows are to be quarantined.            *)
(***************************************************************************)
Options(kind, min, floor, bytes) ==
    [kind |-> kind, min |-> min, floor |-> floor, bytes |-> bytes,
     aside |-> FALSE]

Bootstrap == Options("bootstrap", 0, 0, 0)

\* Incremental bounds below the first millisecond all read from the start.
ResumeAfter(last) == Options("resume", Max2(last - Overlap, 1), last, 0)
ContinueAfter(o, cut) == Options("strict", cut + 1, Max2(o.floor, cut), o.bytes)
History == Options("history", 1, 0, 0)

\* The routine options for an installed position.
ReadOptions(p) ==
    IF p.last = 0 THEN Bootstrap
    ELSE IF p.cut = 0 THEN ResumeAfter(p.last)
    ELSE ContinueAfter(ResumeAfter(p.last), p.cut)

Regressed(o) == o.floor > 0 /\ \A r \in Present : store[r] < o.floor

-----------------------------------------------------------------------------
(***************************************************************************)
(* One read.  Rows are ordered by (time_updated, rowid).                   *)
(***************************************************************************)
UpTo(S, r) == {q \in S : store[q] < store[r] \/ (store[q] = store[r] /\ q <= r)}
WindowBytes(o) == IF o.bytes = 0 THEN Budget ELSE Min({o.bytes, Budget})

\* The bytes of the rows of S, each byte a row and an offset, and their number.
BytesOf(size, S) == UNION {{r} \X (1..size[r]) : r \in S}
TotalBytes(size, S) == Cardinality(BytesOf(size, S))
StoredBytes(S) == TotalBytes(Stored, S)

Candidates(o) ==
    IF o.kind = "bootstrap"
    THEN {r \in Present : Cardinality(Present \ UpTo(Present, r)) < BootLimit}
    ELSE {r \in Present : store[r] >= o.min}

\* Of the candidates C, the rows the statement delivers: the row limit and the
\* read budget end an incremental selection, but not its first timestamp group.
Selected(o, C) ==
    LET Fits(r) == \/ UpTo(C, r) = {r}
                   \/ StoredBytes(UpTo(C, r)) <= 2 * WindowBytes(o)
                   \/ /\ store[r] = Min(Times(C))
                      /\ StoredBytes(UpTo(C, r)) <= 2 * Budget
    IN  IF o.kind = "bootstrap" THEN C
        ELSE {r \in C : Cardinality(UpTo(C, r)) <= ResumeLimit /\ Fits(r)}

\* A first row larger than any window is excluded and retains nothing.
Oversized(S) == {r \in S : UpTo(S, r) = {r} /\ Bytes[r] > Budget}
Retained(S, W) == TotalBytes(Bytes, W \ Oversized(S))

\* Of the selection S, the rows up to the first that does not fit; a row with
\* nothing to retain does not fit either once the first group passed a reduced
\* target, a refused one always does.
Mapped(o, S) ==
    LET Cuts(r) == /\ UpTo(S, r) # {r} /\ r \notin Rejected
                   /\ Retained(S, UpTo(S, r)) > WindowBytes(o)
                   /\ \/ store[r] # Min(Times(S))
                      \/ Retained(S, UpTo(S, r)) > Budget
        Cut == {r \in S : Cuts(r)}
    IN  {r \in S : UpTo(S, r) \cap Cut = {}}

\* Variant: a cut may divide a timestamp group.
SplitGroups(C, M) == M

\* A cut window ends on a whole timestamp group.
WholeGroups(C, M) == {r \in M : M = C \/ store[r] < Min(Times(C \ M))}

\* Variant: the high-water is the first time not read.
HighWaterExclusive(W) == Max({0} \cup Times(W)) + 1

HighWater(W) == Max({0} \cup Times(W))

\* The lowest time from which a next window repeats at most half of this one.
OverlapFrom(S, W) ==
    LET Tail(t) == {r \in W : store[r] >= t}
        Half == {t \in Times(W) :
                   /\ 2 * Retained(S, Tail(t)) <= Retained(S, W)
                   /\ 2 * Cardinality(Tail(t)) <= Cardinality(W)}
    IN  IF Half = {} THEN 0 ELSE Min(Half)

\* Candidates, selection, mapped rows and window of a read.
ReadOf(o) ==
    UNION {UNION {UNION {{<<C, S, M, WholeGroups(C, M)>> :
        M \in {Mapped(o, S)}} : S \in {Selected(o, C)}} : C \in {Candidates(o)}}}

\* One timestamp holds more than a whole window.
LimitExceeded(o) == \E x \in ReadOf(o) : x[3] # {} /\ x[4] = {}

\* What acquire_opencode_sqlite returns: the rows of the window and, of them,
\* the ones with nothing to evaluate; rows the bootstrap leaves out by design
\* because it samples the newest ones; and the progress.
Acquired(o, C, S, M, W) ==
    [rows |-> W,
     plain |-> {r \in W : Bytes[r] = 0} \cup (W \cap Oversized(S)),
     unsampled |-> IF o.kind = "bootstrap" THEN Present \ C ELSE {},
     retained |-> Retained(S, W),
     high |-> HighWater(W),
     complete |-> M = C,
     from |-> IF M = C THEN 0 ELSE OverlapFrom(S, W)]
NoWindow == [rows |-> {}, plain |-> {}, unsampled |-> {}, retained |-> 0,
             high |-> 0, complete |-> TRUE, from |-> 0]

-----------------------------------------------------------------------------
NoPosition == [last |-> 0, cut |-> 0]
NoDrain == [high |-> 0, complete |-> TRUE, windows |-> 0, failed |-> FALSE,
            from |-> 0, bytes |-> 0, fitted |-> 0]

\* A scan's own variables end with it.
Idle ==
    /\ pc = "idle" /\ mode = "scan"
    /\ base = Bootstrap /\ read = Bootstrap /\ shrunk = 0
    /\ win = NoWindow /\ units = {}
    /\ drain = NoDrain
    /\ seen = {} /\ due = {}

EndScan ==
    /\ pc' = "idle" /\ mode' = "scan"
    /\ base' = Bootstrap /\ read' = Bootstrap /\ shrunk' = 0
    /\ win' = NoWindow /\ units' = {}
    /\ drain' = NoDrain
    /\ seen' = {} /\ due' = {}

Init ==
    /\ now = StartTime
    /\ store \in [Rows -> 0..StartTime]
    /\ owed = Present
    /\ pos = NoPosition
    /\ Idle
    /\ writes = 0 /\ faults = 0

-----------------------------------------------------------------------------
(***************************************************************************)
(* OpenCode's own steps.                                                   *)
(***************************************************************************)
Tick ==
    /\ now < MaxTime
    /\ now' = now + 1
    /\ UNCHANGED <<store, owed, pos, pc, mode, base, read, shrunk, win, units,
                   drain, seen, due, writes, faults>>

\* How far the drain in progress, or left unfinished, has come.
Frontier ==
    Max({pos.cut} \cup (IF pc = "idle" \/ drain.complete THEN {} ELSE {drain.high})
                  \cup (IF win.complete THEN {} ELSE {win.high}))

\* Until it is evaluated, a window may turn out to need the second read; a
\* change after any other window is the same change after its evaluation.
Rereading == pc = "evaluate" \/ (pc = "read" /\ read.aside)
MayChange == writes < MaxWrites /\ (ChangeInReread \/ ~Rereading)

\* What was read of the row is no longer its present version.
Supersede(r) ==
    /\ win' = [win EXCEPT !.rows = @ \ {r}, !.plain = @ \ {r}, !.unsampled = @ \ {r}]
    /\ seen' = seen \ {r} /\ units' = units \ {r} /\ due' = due \ {r}

\* A row is inserted or updated; its new version is owed.
Write(r) ==
    /\ MayChange
    /\ \E t \in Max2(now - MaxLag, 1)..now :
         /\ LateInDrain \/ t > Frontier
         /\ store' = [store EXCEPT ![r] = t]
    /\ owed' = owed \cup {r}
    /\ Supersede(r)
    /\ writes' = writes + 1
    /\ UNCHANGED <<now, pos, pc, mode, base, read, shrunk, drain, faults>>

Delete(r) ==
    /\ MayChange /\ r \in Present
    /\ store' = [store EXCEPT ![r] = 0]
    /\ owed' = owed \ {r}
    /\ Supersede(r)
    /\ writes' = writes + 1
    /\ UNCHANGED <<now, pos, pc, mode, base, read, shrunk, drain, faults>>

-----------------------------------------------------------------------------
(***************************************************************************)
(* The scan.                                                               *)
(***************************************************************************)
Begin(m, o) ==
    /\ pc = "idle"
    /\ pc' = "read" /\ mode' = m
    /\ base' = o /\ read' = o
    /\ due' = IF m = "history" THEN Present ELSE {}
    /\ UNCHANGED <<storeVars, owed, pos, shrunk, win, units, drain, seen, faults>>

StartScan == Begin("scan", ReadOptions(pos))
StartHistory == Begin("history", History)

\* The read that follows a cut window: its tail again when there is one.
NextRead(d) ==
    LET strict == [ContinueAfter(base, d.high) EXCEPT !.bytes = d.bytes]
    IN  IF d.from = 0 THEN strict
        ELSE [strict EXCEPT !.kind = "overlapped",
                            !.min = Max2(d.from, d.high - DrainOverlap)]

Unfinished(d) ==
    /\ ~d.complete /\ ~d.failed /\ d.high > 0
    /\ mode = "history" \/ d.windows < MaxWindows

\* The search for a window that fits is over.
EndSearch == shrunk' = 0 /\ win' = NoWindow /\ units' = {}

\* A window's failure ends the drain and keeps what earlier windows reached; a
\* failed or unhelpful overlapped read is replaced by the strict one.
ReadStrictly ==
    /\ read' = [ContinueAfter(base, drain.high) EXCEPT !.bytes = drain.bytes]
    /\ pc' = "read"
    /\ EndSearch /\ UNCHANGED <<drain, seen>>

WindowFails ==
    IF read.kind = "overlapped" THEN ReadStrictly
    ELSE /\ pc' = "staged" /\ drain' = [drain EXCEPT !.failed = TRUE]
         /\ EndSearch /\ UNCHANGED <<read, seen>>

\* The size that fit sets the next windows' size and grows again.
Resized(fit) ==
    LET same == drain.windows > 0 /\ fit = drain.bytes
        fitted == IF same THEN drain.fitted + 1 ELSE 0
        doubled == IF 2 * fit < Budget THEN 2 * fit ELSE 0
    IN  IF fitted = GrowthAfter THEN <<doubled, 0>> ELSE <<fit, fitted>>

\* Variant: every overlapped window is taken.
AdvancesAlways == TRUE

\* Whether an overlapped window moved past the high-water on its own.
Advances ==
    /\ ~read.aside
    /\ win.complete \/ win.high > drain.high

Accept(rows) ==
    LET sized == Resized(read.bytes)
        d == [high |-> win.high, complete |-> win.complete, from |-> win.from,
              windows |-> drain.windows + 1, failed |-> FALSE,
              bytes |-> sized[1], fitted |-> sized[2]]
    IN  /\ drain' = d
        /\ seen' = seen \cup rows \cup win.unsampled
        /\ read' = IF Unfinished(d) THEN NextRead(d) ELSE read
        /\ pc' = IF Unfinished(d) THEN "read" ELSE "staged"
        /\ EndSearch

\* acquire_opencode_sqlite on the pending read.
Acquire ==
    /\ pc = "read"
    /\ IF Regressed(read) \/ LimitExceeded(read) THEN WindowFails
       ELSE /\ \E x \in ReadOf(read) : win' = Acquired(read, x[1], x[2], x[3], x[4])
            /\ pc' = "evaluate"
            /\ UNCHANGED <<read, shrunk, units, drain, seen>>
    /\ UNCHANGED <<storeVars, owed, pos, mode, base, due, faults>>

\* The window fits, or its rows are set aside and quarantined by coordinates.
Evaluate ==
    /\ pc = "evaluate"
    /\ IF read.kind = "overlapped" /\ ~Advances THEN ReadStrictly
       ELSE Accept(IF read.aside THEN units \cup win.plain ELSE win.rows)
    /\ UNCHANGED <<storeVars, owed, pos, mode, base, due, faults>>

\* Variant: an attempt need not be smaller than the one before.
OverCapacityRetries ==
    /\ pc = "evaluate" /\ ~read.aside
    /\ win.retained > 1
    /\ shrunk' = win.retained
    /\ read' = [read EXCEPT !.bytes = win.retained \div 2]
    /\ pc' = "read" /\ win' = NoWindow
    /\ UNCHANGED <<storeVars, owed, pos, mode, base, units, drain, seen, due, faults>>

\* Evaluating the window exceeds the work budget: a smaller one is read, or,
\* when it cannot be smaller, the same selection without its rows.
OverCapacity ==
    /\ pc = "evaluate" /\ ~read.aside
    /\ win.retained > 0
    /\ IF win.retained > 1 /\ (shrunk = 0 \/ win.retained < shrunk)
       THEN /\ shrunk' = win.retained
            /\ read' = [read EXCEPT !.bytes = win.retained \div 2]
            /\ units' = units
       ELSE /\ units' = win.rows \ win.plain
            /\ read' = [read EXCEPT !.aside = TRUE]
            /\ shrunk' = shrunk
    /\ pc' = "read" /\ win' = NoWindow
    /\ UNCHANGED <<storeVars, owed, pos, mode, base, drain, seen, due, faults>>

\* Any other failure of acquisition, evaluation or projection.
ReadFails ==
    /\ pc \in {"read", "evaluate"} /\ faults < MaxFaults
    /\ WindowFails
    /\ faults' = faults + 1
    /\ UNCHANGED <<storeVars, owed, pos, mode, base, due>>

-----------------------------------------------------------------------------
(***************************************************************************)
(* Commit.  A first window that failed stages nothing.                     *)
(***************************************************************************)
\* sqlite_progress_cursor: an empty complete window keeps the checkpoint.
Candidate ==
    IF drain.windows = 0 THEN 0
    ELSE IF drain.high > 0 THEN drain.high
    ELSE IF drain.complete THEN pos.last ELSE 0

\* Variant: an unfinished drain records only its checkpoint.
StagedCheckpoint ==
    IF Candidate = 0 THEN pos
    ELSE [last |-> Max2(Candidate, pos.last),
          cut |-> IF drain.complete THEN 0 ELSE Max2(Candidate, pos.last)]

\* observe_sqlite_ingestion_drain and observe_sqlite_ingestion_cursor.
Staged ==
    IF Candidate = 0 THEN pos
    ELSE [last |-> Max2(Candidate, pos.last),
          cut |-> IF drain.complete THEN 0 ELSE Candidate]

\* The events of every window are persisted together.
Persist ==
    /\ pc = "staged" /\ mode = "scan"
    /\ owed' = owed \ seen
    /\ pc' = "persisted"
    /\ UNCHANGED <<storeVars, pos, mode, base, read, shrunk, win, units, drain,
                   seen, due, faults>>

Install ==
    /\ pc = "persisted"
    /\ pos' = Staged
    /\ EndScan
    /\ UNCHANGED <<storeVars, owed, faults>>

\* A history pass never touches the scan state.
EndHistory ==
    /\ pc = "staged" /\ mode = "history"
    /\ EndScan
    /\ UNCHANGED <<storeVars, owed, pos, faults>>

\* The process stops, or persisting or installing fails: nothing is installed.
Abandon ==
    /\ pc # "idle" /\ faults < MaxFaults
    /\ EndScan
    /\ faults' = faults + 1
    /\ UNCHANGED <<storeVars, owed, pos>>

Next ==
    \/ Tick
    \/ \E r \in Rows : Write(r) \/ Delete(r)
    \/ StartScan \/ StartHistory
    \/ Acquire \/ Evaluate \/ OverCapacity \/ ReadFails
    \/ Persist \/ Install \/ EndHistory \/ Abandon

Spec == Init /\ [][Next]_vars

\* A scan in progress runs on; the scanner starts routine scans again and again.
Fairness ==
    /\ WF_vars(Acquire) /\ WF_vars(Evaluate)
    /\ WF_vars(Persist) /\ WF_vars(Install) /\ WF_vars(EndHistory)
    /\ SF_vars(StartScan)
FairSpec == Spec /\ Fairness

-----------------------------------------------------------------------------
(***************************************************************************)
(* Types.  What a scan holds are present row versions, every time it has   *)
(* recorded or installed lies on the clock, and a reduced window target    *)
(* stays under the budget.                                                 *)
(***************************************************************************)
TypeOK ==
    /\ now \in StartTime..MaxTime /\ store \in [Rows -> 0..MaxTime]
    /\ owed \subseteq Present /\ seen \subseteq Present
    /\ win.rows \cup units \cup due \subseteq Present
    /\ pos \in [last : 0..now, cut : 0..now]
    /\ pc \in {"idle", "read", "evaluate", "staged", "persisted"}
    /\ mode \in {"scan", "history"}
    /\ {win.high, win.from, drain.high, drain.from} \subseteq 0..now
    /\ shrunk \in Nat /\ read.bytes \in 0..(Budget - 1)

(***************************************************************************)
(* No row is left behind: a row version that no persisted scan accounts    *)
(* for (evaluated, quarantined by coordinates, or older than the bootstrap *)
(* sample) is still at or after the lower bound of the next routine read,  *)
(* whatever cuts, shrunken windows, failures and crashes came before.      *)
(***************************************************************************)
NothingSkipped ==
    \A r \in owed : pos.last = 0 \/ store[r] >= ReadOptions(pos).min

(***************************************************************************)
(* A history pass that ends without a failure has accounted for every row  *)
(* that was in the store when it began and has not changed since.          *)
(***************************************************************************)
HistoryReadsAll ==
    pc = "staged" /\ mode = "history" /\ drain.complete /\ ~drain.failed
        => due \subseteq seen

(***************************************************************************)
(* A drain never repeats itself: each further window of one scan completes *)
(* or ends later than the one before, so the unbounded history drain ends. *)
(***************************************************************************)
DrainAdvances ==
    [][drain'.windows > drain.windows /\ drain.windows > 0
         => drain'.complete \/ drain'.high > drain.high]_vars

\* No later read can succeed until OpenCode writes again.
Stuck ==
    LET o == ReadOptions(pos) IN Regressed(o) \/ LimitExceeded(o)

(***************************************************************************)
(* Once OpenCode stops writing, every row version comes to be accounted    *)
(* for, unless the store no longer reaches the checkpoint or one timestamp *)
(* outgrows every window: no cut, quarantine or history pass goes on for   *)
(* ever.                                                                   *)
(***************************************************************************)
EventuallyAccounted == <>[](owed = {} \/ Stuck)
=============================================================================
