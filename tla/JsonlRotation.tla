---------------------------- MODULE JsonlRotation ----------------------------
(***************************************************************************)
(* The local JSONL sink without a durable outbox: append under the sidecar *)
(* lock, size-based rotation to date-stamped names and the clean-up of     *)
(* rotated files beyond the keep count.  One emit runs at a time; it may   *)
(* stop between any two file-system calls.                                 *)
(*                                                                         *)
(* Data abstraction.  Files are numbered in the order of their creation; a *)
(* name is a number in the order (date, counter) that the clean-up sorts   *)
(* by, counter 0 being the date-stamped base name.                         *)
(***************************************************************************)
EXTENDS Integers, FiniteSets

CONSTANTS
  MaxFiles,     \* bound: files ever created
  MaxRecords,   \* rotation threshold, in records
  MaxBatch,     \* bound: records of one emit
  Keep,         \* rotated files to keep
  Days,         \* bound: dates
  Counters,     \* bound: names of one date
  Faults        \* removals may fail and the process may stop

ASSUME RotationAssumption ==
  /\ {MaxFiles, MaxRecords, MaxBatch, Keep, Days, Counters} \subseteq Nat
  /\ MaxRecords > 0 /\ MaxBatch > 0 /\ Days > 0 /\ Counters > 0
  /\ Faults \in BOOLEAN

VARIABLES
  at,        \* the name of each file: Absent, a rotated name, or ActiveName
  size,      \* records in the active file
  made,      \* files created so far
  today,     \* current date
  pc,        \* control state of the emit
  doomed,    \* files the running clean-up still has to remove
  torn,      \* the active file ends in a partial record
  missed     \* history: removals that failed or were cut off since the last full clean-up

vars == <<at, size, made, today, pc, doomed, torn, missed>>

Files == 1..MaxFiles
Absent == -1
ActiveName == Days * Counters
NamesOf(d) == (d * Counters)..(d * Counters + Counters - 1)
DateOf(n) == n \div Counters

Active  == {f \in Files : at[f] = ActiveName}
Rotated == {f \in Files : at[f] \notin {Absent, ActiveName}}

\* rotate_file: the base name, or the first counter whose name is free.
FreeName(n) ==
  /\ n \in NamesOf(today)
  /\ \A f \in Files : at[f] # n
  /\ \A m \in NamesOf(today) : m < n => \E f \in Files : at[f] = m

\* Variants: one file too many is kept; one too few.
ToDeleteKeepingOneMore(names) ==
  {f \in Files : /\ names[f] \notin {Absent, ActiveName}
                 /\ Cardinality({h \in Files : names[h] # ActiveName /\ names[h] > names[f]}) > Keep}
ToDeleteCountingItself(names) ==
  {f \in Files : /\ names[f] \notin {Absent, ActiveName}
                 /\ Cardinality({h \in Files : names[h] # ActiveName /\ names[h] >= names[f]}) >= Keep}

\* Variant: sorts by counter before date.
ToDeleteByCounter(names) ==
  LET rank(f) == (names[f] % Counters) * Days + DateOf(names[f])
      rotated == {f \in Files : names[f] \notin {Absent, ActiveName}}
  IN  {f \in rotated : Cardinality({h \in rotated : rank(h) > rank(f)}) >= Keep}

\* cleanup_rotated_files: all but the last Keep by (date, counter).
ToDelete(names) ==
  {f \in Files : /\ names[f] \notin {Absent, ActiveName}
                 /\ Cardinality({h \in Files : names[h] # ActiveName /\ names[h] > names[f]}) >= Keep}

Init ==
  /\ at = [f \in Files |-> Absent]
  /\ size = 0 /\ made = 0 /\ today = 0
  /\ pc = "idle"
  /\ doomed = {} /\ torn = FALSE /\ missed = {}

\* Variant: rotates only above the threshold.
StartEmitLate ==
  /\ pc = "idle" /\ ~torn
  /\ pc' = IF size > MaxRecords THEN "rotate" ELSE "append"
  /\ UNCHANGED <<at, size, made, today, doomed, torn, missed>>

\* emit_jsonl_bytes takes the lock and refuses a partial record at the end; the
\* active file may need rotation.
StartEmit ==
  /\ pc = "idle" /\ ~torn
  /\ pc' = IF size >= MaxRecords THEN "rotate" ELSE "append"
  /\ UNCHANGED <<at, size, made, today, doomed, torn, missed>>

\* rotate_file: rename, then list and sort what is to be cleaned up.
Rotate(f, n) ==
  /\ pc = "rotate" /\ f \in Active /\ FreeName(n)
  /\ at' = [at EXCEPT ![f] = n]
  /\ size' = 0
  /\ doomed' = ToDelete(at')
  /\ missed' = {}
  /\ pc' = "cleanup"
  /\ UNCHANGED <<made, today, torn>>

\* cleanup_rotated_files removes the next file in name order.
Remove(f) ==
  /\ pc = "cleanup" /\ f \in doomed
  /\ \A h \in doomed : at[f] <= at[h]
  /\ at' = [at EXCEPT ![f] = Absent]
  /\ doomed' = doomed \ {f}
  /\ UNCHANGED <<size, made, today, pc, torn, missed>>

\* Best-effort: a removal that fails is only reported.
RemoveFails(f) ==
  /\ Faults
  /\ pc = "cleanup" /\ f \in doomed
  /\ \A h \in doomed : at[f] <= at[h]
  /\ doomed' = doomed \ {f}
  /\ missed' = missed \cup {f}
  /\ UNCHANGED <<at, size, made, today, pc, torn>>

EndCleanup ==
  /\ pc = "cleanup" /\ doomed = {}
  /\ pc' = "append"
  /\ UNCHANGED <<at, size, made, today, doomed, torn, missed>>

\* append_jsonl_bytes opens the active file and creates it if there is none.
CreateActive(f) ==
  /\ pc = "append" /\ Active = {} /\ f = made + 1
  /\ at' = [at EXCEPT ![f] = ActiveName]
  /\ made' = f
  /\ size' = 0
  /\ UNCHANGED <<today, pc, doomed, torn, missed>>

\* append_jsonl_bytes writes the whole batch, whatever the file grows to.
AppendBatch ==
  /\ pc = "append" /\ Active # {}
  /\ \E batch \in 1..MaxBatch : size' = size + batch
  /\ pc' = "idle"
  /\ UNCHANGED <<at, made, today, doomed, torn, missed>>

\* The process stops: the removals that are left are not made.
Crash ==
  /\ Faults
  /\ pc # "idle"
  /\ pc' = "idle"
  /\ doomed' = {}
  /\ missed' = missed \cup doomed
  /\ UNCHANGED <<at, size, made, today, torn>>

\* write_all stops inside a record of the batch, after any number of whole ones;
\* later an operator repairs the file.
TearRecord ==
  /\ Faults
  /\ pc = "append" /\ Active # {}
  /\ torn' = TRUE
  /\ \E whole \in 0..(MaxBatch - 1) : size' = size + whole
  /\ pc' = "idle"
  /\ UNCHANGED <<at, made, today, doomed, missed>>

RepairTail ==
  /\ torn /\ pc = "idle"
  /\ torn' = FALSE
  /\ UNCHANGED <<at, size, made, today, pc, doomed, missed>>

NextDay ==
  /\ today + 1 < Days
  /\ today' = today + 1
  /\ UNCHANGED <<at, size, made, pc, doomed, torn, missed>>

Next ==
  \/ StartEmit \/ EndCleanup \/ AppendBatch \/ Crash \/ TearRecord \/ RepairTail \/ NextDay
  \/ \E f \in Files : \/ \E n \in NamesOf(today) : Rotate(f, n)
                      \/ Remove(f) \/ RemoveFails(f) \/ CreateActive(f)

Spec == Init /\ [][Next]_vars

-----------------------------------------------------------------------------
(* Properties.                                                             *)

\* Every variable has its type.  The active file is checked before a batch and
\* not within it: it passes the threshold by less than one batch.
TypeOK ==
  /\ at \in [Files -> Absent..ActiveName]
  /\ size \in 0..(MaxRecords - 1 + MaxBatch) /\ made \in 0..MaxFiles /\ today \in 0..(Days - 1)
  /\ pc \in {"idle", "rotate", "cleanup", "append"}
  /\ doomed \subseteq Files /\ missed \subseteq Files
  /\ torn \in BOOLEAN

\* A finished emit leaves at most Keep rotated files behind, plus those whose
\* removal failed or was cut off since the last rotation; leftovers of an earlier
\* run are retried by the next one.
RetentionLimit == pc = "idle" => Cardinality(Rotated) <= Keep + Cardinality(missed)

\* Clean-up never deletes more than it should: Keep rotated files survive every
\* removal, also the ones a later run makes up for.
KeepsEnough ==
  [][Rotated' # Rotated /\ made' = made /\ Active' = Active
       => Cardinality(Rotated') >= Keep]_vars

\* A clean-up removes oldest-first across dates: when a rotated file is removed, a
\* file created before it stays only if its own removal failed, or if both were
\* rotated on one date (there a freed low counter is taken again, and the order of
\* the names is not the order of creation).
OldestDateFirst ==
  [][\A f \in Rotated, h \in Rotated' :
       at'[f] = Absent /\ h < f => DateOf(at[h]) = DateOf(at[f]) \/ h \in missed]_vars
=============================================================================
