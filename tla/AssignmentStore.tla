-------------------------- MODULE AssignmentStore --------------------------
(***************************************************************************)
(* The protected assignment store (crates/telltale/src/assignment.rs): it  *)
(* gives a source fact that has no stable coordinate one identity, kept    *)
(* for ever, while several processes claim, crash and rotate the key.      *)
(*                                                                         *)
(* Three places hold an assignment: a receipt file, first pending and then *)
(* committed; a row of the database; and the authority file, which counts  *)
(* the receipts and holds the head of their hash chain.  A claim writes    *)
(* the pending receipt, commits the row, advances the authority and        *)
(* renames the receipt, all under one file lock, and may fail after any of *)
(* these.  The next holder of the lock repairs what was left behind.       *)
(*                                                                         *)
(* A hash, a MAC and a random identifier are taken as injective: the head  *)
(* of the chain is the set of (numbered) assignments below it, a replay    *)
(* key under an epoch is the fact with the epoch.                          *)
(***************************************************************************)
EXTENDS Naturals, FiniteSets

CONSTANTS
    Procs, NoProc,
    Facts,          \* replay association, adapter domain and child ordinal
    Contents,       \* what an assignment's commitment is computed from
    Ids,            \* assignment references, with their observation ids
    KeyRefs, FirstKey,
    MaxEpochs,      \* MAX_KEY_EPOCHS
    MaxFails        \* bound of the model only

ASSUME ProcAssumption == NoProc \notin Procs
ASSUME KeyAssumption == FirstKey \in KeyRefs
ASSUME BoundAssumption == MaxEpochs \in Nat /\ MaxFails \in Nat

VARIABLES
    rows,           \* table assignments
    receipts,       \* directory assignment-receipts
    stray,          \* it also holds a temporary file
    authority,      \* file assignment-authority.v1
    epochs, active, \* table key_epochs
    keyFiles,       \* directory keys
    lock,           \* holder of assignment.lock
    pc, task,       \* each process's place in its call, and the call
    cur,            \* the assignment or the key it is working on
    returned,       \* history: identities given to callers
    fails
vars == <<rows, receipts, stray, authority, epochs, active, keyFiles, lock, pc,
          task, cur, returned, fails>>
ledger == <<rows, receipts, stray, authority>>
keys == <<epochs, active, keyFiles>>

Row == [seq : Nat \ {0}, fact : Facts, content : Contents, id : Ids, epoch : KeyRefs]
Receipt == [row : Row, prev : SUBSET Row, committed : BOOLEAN]
Claims == {"claim"} \X Facts \X Contents
Tasks == Claims \cup {<<"rotate">>, <<"open">>}

\* The store as initialize leaves it.
Init ==
    /\ rows = {} /\ receipts = {} /\ stray = FALSE
    /\ authority = [count |-> 0, head |-> {}]
    /\ epochs = {FirstKey} /\ active = FirstKey /\ keyFiles = {FirstKey}
    /\ lock = NoProc
    /\ pc = [p \in Procs |-> "idle"] /\ task = [p \in Procs |-> <<"open">>]
    /\ cur = [p \in Procs |-> NoProc]
    /\ returned = {} /\ fails = 0

-----------------------------------------------------------------------------
(***************************************************************************)
(* Validation and recovery.                                                *)
(***************************************************************************)
Below(seq) == {r.row : r \in {x \in receipts : x.row.seq < seq}}

\* validate_schema_and_rows and validate_ledger, without the repairs.
ValidLedger ==
    /\ active \in epochs /\ epochs \subseteq keyFiles
    /\ \E n \in {authority.count, authority.count + 1} :
         {r.row.seq : r \in receipts} = 1..n
    /\ \A r, s \in receipts : r.row.seq = s.row.seq => r = s
    /\ \A r \in receipts : r.row.epoch \in epochs /\ r.prev = Below(r.row.seq)
    /\ authority.head = Below(authority.count + 1)
    /\ \E m \in {authority.count, authority.count + 1} : {r.seq : r \in rows} = 1..m
    /\ rows \subseteq {r.row : r \in receipts}
    /\ \A r \in receipts : r.row.seq > authority.count => ~r.committed

Pending == {r \in receipts : ~r.committed}
Counted(r) == r.row.seq <= authority.count
Rename(r) == (receipts \ {r}) \cup {[r EXCEPT !.committed = TRUE]}

\* acquire_store_lock, at the start of every call.
Lock(p, t) ==
    /\ pc[p] = "idle" /\ lock = NoProc
    /\ lock' = p
    /\ pc' = [pc EXCEPT ![p] = "recover"]
    /\ task' = [task EXCEPT ![p] = t]
    /\ UNCHANGED <<ledger, keys, cur, returned, fails>>

Goto(p, place) == pc' = [pc EXCEPT ![p] = place]
\* The call returns and its locals are gone.
End(p) ==
    /\ Goto(p, "idle")
    /\ task' = [task EXCEPT ![p] = <<"open">>]
    /\ cur' = [cur EXCEPT ![p] = NoProc]

RecoverStray(p) ==
    /\ pc[p] = "recover" /\ stray
    /\ stray' = FALSE
    /\ UNCHANGED <<rows, receipts, authority, keys, lock, pc, task, cur, returned, fails>>

RecoverReceipt(p) ==
    /\ pc[p] = "recover" /\ ~stray /\ ValidLedger
    /\ \E r \in Pending : Counted(r) /\ receipts' = Rename(r)
    /\ UNCHANGED <<rows, stray, authority, keys, lock, pc, task, cur, returned, fails>>

\* Variant: the head of the chain is not advanced.
RecoverAuthorityCount(p) ==
    /\ pc[p] = "recover" /\ ~stray /\ ValidLedger
    /\ \A r \in Pending : ~Counted(r)
    /\ \E r \in Pending :
         /\ r.row \in rows
         /\ authority' = [authority EXCEPT !.count = r.row.seq]
    /\ UNCHANGED <<rows, receipts, stray, keys, lock, pc, task, cur, returned, fails>>

\* The row was committed, so the assignment stands.
RecoverAuthority(p) ==
    /\ pc[p] = "recover" /\ ~stray /\ ValidLedger
    /\ \A r \in Pending : ~Counted(r)
    /\ \E r \in Pending :
         /\ r.row \in rows
         /\ authority' = [count |-> r.row.seq, head |-> authority.head \cup {r.row}]
    /\ UNCHANGED <<rows, receipts, stray, keys, lock, pc, task, cur, returned, fails>>

\* Variant: an assignment that is not counted is rolled back, committed or not.
RecoverRollback(p) ==
    /\ pc[p] = "recover" /\ ~stray /\ ValidLedger
    /\ \E r \in Pending : /\ ~Counted(r) /\ receipts' = receipts \ {r}
                          /\ rows' = rows \ {r.row}
    /\ UNCHANGED <<stray, authority, keys, lock, pc, task, cur, returned, fails>>

\* The row was not committed, so nobody saw the assignment.
RecoverRemove(p) ==
    /\ pc[p] = "recover" /\ ~stray /\ ValidLedger
    /\ \A r \in Pending : ~Counted(r)
    /\ \E r \in Pending : r.row \notin rows /\ receipts' = receipts \ {r}
    /\ UNCHANGED <<rows, stray, authority, keys, lock, pc, task, cur, returned, fails>>

\* validate_ledger makes one pass: the counted receipts are renamed, the one
\* beyond the count is completed or removed, and it returns.  Each repair settles
\* its receipt, so the end of the pass is where no receipt is pending; nothing is
\* read again.
RecoverDone(p) ==
    /\ pc[p] = "recover" /\ ~stray /\ ValidLedger /\ Pending = {}
    /\ \/ task[p] = <<"open">> /\ End(p) /\ lock' = NoProc
       \/ task[p] # <<"open">> /\ Goto(p, "ready") /\ UNCHANGED <<lock, task, cur>>
    /\ UNCHANGED <<ledger, keys, returned, fails>>

-----------------------------------------------------------------------------
(***************************************************************************)
(* claim_or_replay.                                                        *)
(***************************************************************************)
\* Variant: only the active epoch is searched.
MatchesActive(p) == {r \in rows : r.fact = task[p][2] /\ r.epoch = active}
\* The replay key is looked up under every epoch.
Matches(p) == {r \in rows : r.fact = task[p][2] /\ r.epoch \in epochs}

Ready(p) == pc[p] = "ready" /\ task[p] \in Claims

Replay(p) ==
    /\ Ready(p)
    /\ \E r \in Matches(p) : /\ Matches(p) = {r} /\ r.content = task[p][3]
                             /\ cur' = [cur EXCEPT ![p] = r]
    /\ Goto(p, "lookup") /\ lock' = NoProc
    /\ UNCHANGED <<ledger, keys, task, returned, fails>>

\* ReplayCollision: the fact is known with another commitment; or
\* ReplayUnverifiable: it is known under several epochs.
Collide(p) ==
    /\ Ready(p) /\ Matches(p) # {}
    /\ \A r \in Matches(p) : Matches(p) = {r} => r.content # task[p][3]
    /\ End(p) /\ lock' = NoProc
    /\ UNCHANGED <<ledger, keys, returned, fails>>

Candidate(p, id) ==
    [seq |-> authority.count + 1, fact |-> task[p][2], content |-> task[p][3],
     id |-> id, epoch |-> active]

\* write_pending_receipt
Pend(p) ==
    /\ Ready(p) /\ Matches(p) = {}
    /\ \E id \in Ids \ {r.id : r \in rows} :
         /\ cur' = [cur EXCEPT ![p] = Candidate(p, id)]
         /\ receipts' = receipts \cup {[row |-> Candidate(p, id), prev |-> authority.head,
                                        committed |-> FALSE]}
    /\ Goto(p, "pended")
    /\ UNCHANGED <<rows, stray, authority, keys, lock, task, returned, fails>>

\* insert_assignment and commit
Commit(p) ==
    /\ pc[p] = "pended"
    /\ rows' = rows \cup {cur[p]}
    /\ Goto(p, "committed")
    /\ UNCHANGED <<receipts, stray, authority, keys, lock, task, cur, returned, fails>>

\* finalize_receipt, up to the rename
Seal(p) ==
    /\ pc[p] = "committed"
    /\ authority' = [count |-> cur[p].seq, head |-> authority.head \cup {cur[p]}]
    /\ Goto(p, "sealed")
    /\ UNCHANGED <<rows, receipts, stray, keys, lock, task, cur, returned, fails>>

Confirm(p) ==
    /\ pc[p] = "sealed"
    /\ \E r \in Pending : r.row = cur[p] /\ receipts' = Rename(r)
    /\ Goto(p, "lookup") /\ lock' = NoProc
    /\ UNCHANGED <<rows, stray, authority, keys, task, cur, returned, fails>>

\* validate_store_readonly: nothing may be left to repair.
Readable == ~stray /\ Pending = {} /\ ValidLedger

\* build_with_assignments reads the assignment and then its key, each under
\* the lock for the time of the read.
Lookup(p) ==
    /\ pc[p] = "lookup" /\ lock = NoProc /\ Readable
    /\ cur[p] \in rows
    /\ Goto(p, "compare")
    /\ UNCHANGED <<ledger, keys, lock, task, cur, returned, fails>>

Compare(p) ==
    /\ pc[p] = "compare" /\ lock = NoProc /\ Readable
    /\ cur[p].epoch \in epochs
    /\ returned' = returned \cup {cur[p]}
    /\ End(p)
    /\ UNCHANGED <<ledger, keys, lock, fails>>

\* Another process failed meanwhile, or holds the lock for LOCK_WAIT: the
\* call ends in an error although its assignment stands.
Unverifiable(p) ==
    /\ pc[p] \in {"lookup", "compare"} /\ ~(lock = NoProc /\ Readable)
    /\ End(p)
    /\ UNCHANGED <<ledger, keys, lock, returned, fails>>

-----------------------------------------------------------------------------
(***************************************************************************)
(* rotate_key.                                                             *)
(***************************************************************************)
CreateKey(p) ==
    /\ pc[p] = "ready" /\ task[p] = <<"rotate">> /\ Cardinality(epochs) < MaxEpochs
    /\ \E k \in KeyRefs \ keyFiles :
         cur' = [cur EXCEPT ![p] = k] /\ keyFiles' = keyFiles \cup {k}
    /\ Goto(p, "keyed")
    /\ UNCHANGED <<ledger, epochs, active, lock, task, returned, fails>>

Activate(p) ==
    /\ pc[p] = "keyed"
    /\ epochs' = epochs \cup {cur[p]} /\ active' = cur[p]
    /\ End(p) /\ lock' = NoProc
    /\ UNCHANGED <<ledger, keyFiles, returned, fails>>

\* The epochs are full, or no unused name is drawn.
RotateRefused(p) ==
    /\ pc[p] = "ready" /\ task[p] = <<"rotate">>
    /\ Cardinality(epochs) >= MaxEpochs \/ KeyRefs \subseteq keyFiles
    /\ End(p) /\ lock' = NoProc
    /\ UNCHANGED <<ledger, keys, returned, fails>>

\* Variant: whoever fails, the lock file is cleared.
FailClearsLock(p) ==
    /\ pc[p] # "idle" /\ fails < MaxFails
    /\ fails' = fails + 1
    /\ stray' \in {stray, stray \/ Ready(p)}
    /\ lock' = NoProc
    /\ End(p)
    /\ UNCHANGED <<rows, receipts, authority, keys, returned>>

\* The process stops, or a step fails and the call returns its error: an open
\* transaction is rolled back and the lock is free.  While a receipt is being
\* written its temporary file may stay.
Fail(p) ==
    /\ pc[p] # "idle" /\ fails < MaxFails
    /\ fails' = fails + 1
    /\ stray' \in {stray, stray \/ Ready(p)}
    /\ lock' = IF lock = p THEN NoProc ELSE lock
    /\ End(p)
    /\ UNCHANGED <<rows, receipts, authority, keys, returned>>

-----------------------------------------------------------------------------
Step(p) ==
    \/ RecoverStray(p) \/ RecoverReceipt(p) \/ RecoverAuthority(p)
    \/ RecoverRemove(p) \/ RecoverDone(p)
    \/ Replay(p) \/ Collide(p)
    \/ Pend(p) \/ Commit(p) \/ Seal(p) \/ Confirm(p)
    \/ Lookup(p) \/ Compare(p) \/ Unverifiable(p)
    \/ CreateKey(p) \/ Activate(p) \/ RotateRefused(p)

Next == \E p \in Procs : Step(p) \/ Fail(p) \/ \E t \in Tasks : Lock(p, t)

Spec == Init /\ [][Next]_vars

-----------------------------------------------------------------------------
\* Places where a process holds the lock.
Holding == {"recover", "ready", "pended", "committed", "sealed", "keyed"}

(***************************************************************************)
(* Types.  A process in the locked part of a call is the holder of the     *)
(* lock, so at most one is there, however processes fail.                  *)
(***************************************************************************)
TypeOK ==
    /\ rows \subseteq Row /\ receipts \subseteq Receipt /\ stray \in BOOLEAN
    /\ authority \in [count : Nat, head : SUBSET Row]
    /\ epochs \subseteq KeyRefs /\ active \in KeyRefs /\ keyFiles \subseteq KeyRefs
    /\ lock \in Procs \cup {NoProc}
    /\ pc \in [Procs -> Holding \cup {"idle", "lookup", "compare"}]
    /\ task \in [Procs -> Tasks]
    /\ cur \in [Procs -> Row \cup KeyRefs \cup {NoProc}]
    /\ returned \subseteq Row
    /\ fails \in Nat
    /\ \A p \in Procs : pc[p] \in Holding => lock = p

(***************************************************************************)
(* A fact has one identity for ever: what callers were given is recorded,  *)
(* two of them asking about one fact were given the same identity and had  *)
(* the same content, and no identity stands for two facts, whichever       *)
(* process failed at which step and however often the key was rotated.     *)
(***************************************************************************)
OneIdentity ==
    /\ returned \subseteq rows
    /\ \A r, s \in returned : r.fact = s.fact \/ r.id = s.id => r = s

(***************************************************************************)
(* The store is never judged corrupt by its own doing: at every moment,    *)
(* so wherever a process may fail, the three records are in a state that   *)
(* recover_and_validate_store accepts and repairs.                         *)
(***************************************************************************)
AlwaysRecoverable == ValidLedger

(***************************************************************************)
(* A committed assignment is not taken back: once a row is committed, the  *)
(* receipt that names it is never removed, and the authority never counts  *)
(* fewer assignments than before.                                          *)
(***************************************************************************)
NothingTakenBack ==
    [][/\ rows \subseteq rows'
       /\ \A r \in receipts : r.row \in rows => \E s \in receipts' : s.row = r.row
       /\ authority.count <= authority'.count]_vars
=============================================================================
