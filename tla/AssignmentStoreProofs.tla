----------------------- MODULE AssignmentStoreProofs -----------------------
(***************************************************************************)
(* The assignment store keeps its ledger acceptable and gives a fact one   *)
(* identity, for every set of processes, facts, contents and keys and      *)
(* however often processes fail.                                           *)
(*                                                                         *)
(* The inductive invariant adds to the two properties what a process in    *)
(* the middle of a call knows: while it holds the lock nobody else touches *)
(* the ledger, so the pending receipt, the row or the authority it has     *)
(* written is still as it left it; and that rows differ in fact and in     *)
(* identifier.                                                             *)
(***************************************************************************)
EXTENDS AssignmentStore, TLAPS

\* The three ledgers, each numbered without a gap (ValidLedger, in the form the
\* steps below use).
Numbered ==
    /\ \A r \in receipts : r.row.seq \in 1..(authority.count + 1)
    /\ \A i \in 1..authority.count : \E r \in receipts : r.row.seq = i
    /\ \A x \in rows : x.seq \in 1..(authority.count + 1)
    /\ \A i \in 1..authority.count : \E x \in rows : x.seq = i

Chained ==
    /\ \A r, s \in receipts : r.row.seq = s.row.seq => r = s
    /\ \A r \in receipts : r.prev = Below(r.row.seq)
    /\ authority.head = Below(authority.count + 1)
    /\ rows \subseteq {r.row : r \in receipts}
    /\ \A r \in receipts : r.row.seq > authority.count => ~r.committed

Keyed ==
    /\ active \in epochs /\ epochs \subseteq keyFiles
    /\ \A r \in receipts : r.row.epoch \in epochs

LedgerOK == Numbered /\ Chained /\ Keyed

Distinct == \A x, y \in rows : x.fact = y.fact \/ x.id = y.id => x = y

\* What a process knows in the middle of a call.
Knows(p) ==
    /\ pc[p] = "ready" => Pending = {}
    /\ pc[p] \in {"pended", "committed", "sealed"} =>
         /\ cur[p] \in Row
         /\ \E r \in receipts : r.row = cur[p] /\ ~r.committed
    /\ pc[p] \in {"pended", "committed"} => cur[p].seq = authority.count + 1
    /\ pc[p] = "sealed" => cur[p].seq <= authority.count
    /\ pc[p] = "pended" => \A x \in rows : x.fact # cur[p].fact /\ x.id # cur[p].id
    /\ pc[p] \in {"committed", "sealed", "lookup", "compare"} => cur[p] \in rows
    /\ pc[p] = "keyed" => cur[p] \in keyFiles

StoreInv ==
    /\ TypeOK
    /\ LedgerOK
    /\ Distinct
    /\ returned \subseteq rows
    /\ \A p \in Procs : Knows(p)

-----------------------------------------------------------------------------
\* A set of numbers has no gap up to c or c + 1.
LEMMA NoGap ==
  ASSUME NEW S \in SUBSET Nat, NEW c \in Nat
  PROVE  (\E n \in {c, c + 1} : S = 1..n) <=> (S \subseteq 1..(c + 1) /\ 1..c \subseteq S)
<1>1. ASSUME S \subseteq 1..(c + 1), 1..c \subseteq S
      PROVE  \E n \in {c, c + 1} : S = 1..n
  <2>1. CASE c + 1 \in S
    <3>1. \A i \in 1..(c + 1) : i \in 1..c \/ i = c + 1
      OBVIOUS
    <3>2. S = 1..(c + 1)
      BY <1>1, <2>1, <3>1
    <3> QED BY <3>2
  <2>2. CASE c + 1 \notin S
    <3>1. \A i \in 1..(c + 1) : i \in 1..c \/ i = c + 1
      OBVIOUS
    <3>2. S = 1..c
      BY <1>1, <2>2, <3>1
    <3> QED BY <3>2
  <2> QED BY <2>1, <2>2
<1>2. ASSUME NEW n \in {c, c + 1}, S = 1..n
      PROVE  S \subseteq 1..(c + 1) /\ 1..c \subseteq S
  BY <1>2
<1> QED BY <1>1, <1>2

\* The two forms of a valid ledger agree.
LEMMA ValidForm ==
  ASSUME TypeOK
  PROVE  ValidLedger <=> Numbered /\ Chained /\ Keyed
<1> DEFINE R == {r.row.seq : r \in receipts}
           X == {x.seq : x \in rows}
           c == authority.count
<1>1. R \in SUBSET Nat /\ X \in SUBSET Nat /\ c \in Nat
  BY DEF TypeOK, Receipt, Row
<1> HIDE DEF R, X, c
<1>2. (\E n \in {c, c + 1} : R = 1..n) <=> (R \subseteq 1..(c + 1) /\ 1..c \subseteq R)
  BY <1>1, NoGap
<1>3. (\E n \in {c, c + 1} : X = 1..n) <=> (X \subseteq 1..(c + 1) /\ 1..c \subseteq X)
  BY <1>1, NoGap
<1>4. Numbered <=> /\ R \subseteq 1..(c + 1) /\ 1..c \subseteq R
                   /\ X \subseteq 1..(c + 1) /\ 1..c \subseteq X
  BY DEF Numbered, R, X, c
<1>5. ValidLedger <=> /\ Chained /\ Keyed
                      /\ \E n \in {c, c + 1} : R = 1..n
                      /\ \E n \in {c, c + 1} : X = 1..n
  BY DEF ValidLedger, Chained, Keyed, R, X, c
<1> QED BY <1>2, <1>3, <1>4, <1>5

\* Renaming a counted receipt changes no assignment and no link of the chain.
LEMMA RenameKeeps ==
  ASSUME TypeOK, LedgerOK, NEW r \in Pending, Counted(r), receipts' = Rename(r),
         UNCHANGED <<rows, authority, keys>>
  PROVE  LedgerOK'
<1> DEFINE q == [r EXCEPT !.committed = TRUE]
<1>1. /\ r \in receipts /\ r \in Receipt /\ q \in Receipt
      /\ q.row = r.row /\ q.prev = r.prev
      /\ receipts' = (receipts \ {r}) \cup {q}
  BY DEF Pending, TypeOK, Receipt, Rename
<1> HIDE DEF q
<1>2. \A x \in receipts : \E y \in receipts' : y.row = x.row
  BY <1>1
<1>3. \A y \in receipts' : \E x \in receipts : y.row = x.row /\ y.prev = x.prev
  BY <1>1
<1>4. \A n : Below(n)' = Below(n)
  BY <1>2, <1>3 DEF Below
<1>5. authority' = authority /\ rows' = rows /\ epochs' = epochs /\ active' = active
      /\ keyFiles' = keyFiles
  BY DEF keys
<1>6. Numbered'
  BY <1>2, <1>3, <1>5 DEF LedgerOK, Numbered
<1>7. Chained'
  <2>1. \A x, y \in receipts' : x.row.seq = y.row.seq => x = y
    BY <1>1 DEF LedgerOK, Chained
  <2>2. \A x \in receipts' : x.prev = Below(x.row.seq)'
    BY <1>3, <1>4 DEF LedgerOK, Chained
  <2>3. (authority.head = Below(authority.count + 1))'
    BY <1>2, <1>3, <1>5 DEF LedgerOK, Chained, Below
  <2>4. rows' \subseteq {x.row : x \in receipts'}
    BY <1>2, <1>5 DEF LedgerOK, Chained
  <2>5. \A x \in receipts' : x.row.seq > authority'.count => ~x.committed
    <3>1. authority.count \in Nat /\ q.row.seq \in Nat /\ q.row.seq <= authority.count
      BY <1>1 DEF TypeOK, Counted, Receipt, Row
    <3> QED BY <1>1, <1>5, <3>1 DEF LedgerOK, Chained
  <2> QED BY <2>1, <2>2, <2>3, <2>4, <2>5 DEF Chained
<1>8. Keyed'
  BY <1>3, <1>5 DEF LedgerOK, Keyed
<1> QED BY <1>6, <1>7, <1>8 DEF LedgerOK

\* Counting the assignment whose row was committed.
LEMMA CountKeeps ==
  ASSUME TypeOK, LedgerOK, NEW r \in receipts, r.row \in rows,
         r.row.seq = authority.count + 1,
         authority' = [count |-> r.row.seq, head |-> authority.head \cup {r.row}],
         UNCHANGED <<rows, receipts, keys>>
  PROVE  LedgerOK'
<1> DEFINE c == authority.count
<1>1. /\ c \in Nat /\ authority'.count = c + 1
      /\ authority'.head = authority.head \cup {r.row}
      /\ \A x \in receipts : x.row.seq \in Nat
      /\ \A x \in rows : x.seq \in Nat
  BY DEF TypeOK, Receipt, Row
<1>2. rows' = rows /\ receipts' = receipts /\ epochs' = epochs /\ active' = active
      /\ keyFiles' = keyFiles
  BY DEF keys
<1>3. \A n : Below(n)' = Below(n)
  BY <1>2 DEF Below
<1>4. Below(c + 2) = Below(c + 1) \cup {r.row}
  <2>1. \A x \in receipts : x.row.seq < c + 2 <=> x.row.seq < c + 1 \/ x = r
    BY <1>1 DEF LedgerOK, Chained
  <2> QED BY <2>1 DEF Below
<1> HIDE DEF c
<1>5. Numbered'
  <2>1. \A i \in 1..(c + 1) : i \in 1..c \/ i = c + 1
    BY <1>1
  <2>2. 1..(c + 1) \subseteq 1..(c + 2)
    BY <1>1
  <2> QED BY <1>1, <1>2, <2>1, <2>2 DEF LedgerOK, Numbered, c
<1>6. Chained'
  <2>1. (authority.head = Below(authority.count + 1))'
    <3>1. authority'.count + 1 = c + 2
      BY <1>1
    <3>2. authority'.head = Below(c + 2)
      BY <1>1, <1>4 DEF LedgerOK, Chained, c
    <3> QED BY <1>2, <3>1, <3>2 DEF Below
  <2>2. \A x \in receipts' : x.prev = Below(x.row.seq)'
    BY <1>2, <1>3 DEF LedgerOK, Chained
  <2>3. \A x \in receipts' : x.row.seq > authority'.count => ~x.committed
    BY <1>1, <1>2 DEF LedgerOK, Chained, c
  <2> QED BY <1>2, <2>1, <2>2, <2>3 DEF LedgerOK, Chained
<1>7. Keyed'
  BY <1>2 DEF LedgerOK, Keyed
<1> QED BY <1>5, <1>6, <1>7 DEF LedgerOK

\* A new receipt, one above the count, when nothing is pending.
LEMMA PendKeeps ==
  ASSUME TypeOK, LedgerOK, Pending = {}, NEW x \in Row, x.seq = authority.count + 1,
         x.epoch = active,
         receipts' = receipts \cup {[row |-> x, prev |-> authority.head, committed |-> FALSE]},
         UNCHANGED <<rows, authority, keys>>
  PROVE  LedgerOK'
<1> DEFINE c == authority.count
           q == [row |-> x, prev |-> authority.head, committed |-> FALSE]
<1>1. /\ c \in Nat /\ authority' = authority /\ rows' = rows
      /\ epochs' = epochs /\ active' = active /\ keyFiles' = keyFiles
      /\ \A r \in receipts : r.row.seq \in Nat
      /\ q.row = x /\ q.prev = authority.head /\ q.committed = FALSE
      /\ receipts' = receipts \cup {q}
  BY DEF TypeOK, Receipt, Row, keys
<1>2. \A r \in receipts : r.row.seq <= c
  <2>1. \A r \in receipts : ~(r.row.seq > c)
    BY DEF Pending, LedgerOK, Chained
  <2> QED BY <1>1, <2>1
<1> HIDE DEF q, c
<1>3. \A n \in Nat : n <= c + 1 => Below(n)' = Below(n)
  BY <1>1 DEF Below, c
<1>4. Numbered'
  BY <1>1 DEF LedgerOK, Numbered, c
<1>5. Chained'
  <2>1. \A r, s \in receipts' : r.row.seq = s.row.seq => r = s
    BY <1>1, <1>2 DEF LedgerOK, Chained, c
  <2>2. \A r \in receipts' : r.prev = Below(r.row.seq)'
    <3>1. ASSUME NEW r \in receipts PROVE r.prev = Below(r.row.seq)'
      <4>1. r.row.seq \in Nat /\ r.row.seq <= c + 1
        BY <1>1, <1>2
      <4> QED BY <1>3, <4>1 DEF LedgerOK, Chained
    <3>2. q.prev = Below(c + 1)'
      <4>1. c + 1 \in Nat /\ c + 1 <= c + 1
        BY <1>1
      <4> QED BY <1>1, <1>3, <4>1 DEF LedgerOK, Chained, c
    <3> QED BY <1>1, <3>1, <3>2 DEF c
  <2>3. (authority.head = Below(authority.count + 1))'
    BY <1>1, <1>2 DEF LedgerOK, Chained, Below, c
  <2>4. rows' \subseteq {r.row : r \in receipts'}
    BY <1>1 DEF LedgerOK, Chained
  <2>5. \A r \in receipts' : r.row.seq > authority'.count => ~r.committed
    BY <1>1 DEF LedgerOK, Chained
  <2> QED BY <2>1, <2>2, <2>3, <2>4, <2>5 DEF Chained
<1>6. Keyed'
  BY <1>1 DEF LedgerOK, Keyed
<1> QED BY <1>4, <1>5, <1>6 DEF LedgerOK

\* Committing the row a receipt announces.
LEMMA CommitKeeps ==
  ASSUME TypeOK, LedgerOK, NEW r \in receipts, rows' = rows \cup {r.row},
         UNCHANGED <<receipts, authority, keys>>
  PROVE  LedgerOK'
<1>1. authority' = authority /\ receipts' = receipts
      /\ epochs' = epochs /\ active' = active /\ keyFiles' = keyFiles
  BY DEF keys
<1>2. Numbered'
  BY <1>1 DEF LedgerOK, Numbered
<1>3. Chained'
  BY <1>1 DEF LedgerOK, Chained, Below
<1>4. Keyed'
  BY <1>1 DEF LedgerOK, Keyed
<1> QED BY <1>2, <1>3, <1>4 DEF LedgerOK

\* Removing the receipt above the count whose row was not committed.
LEMMA RemoveKeeps ==
  ASSUME TypeOK, LedgerOK, NEW r \in receipts, ~Counted(r), r.row \notin rows,
         receipts' = receipts \ {r}, UNCHANGED <<rows, authority, keys>>
  PROVE  LedgerOK'
<1> DEFINE c == authority.count
<1>1. /\ c \in Nat /\ authority' = authority /\ rows' = rows
      /\ epochs' = epochs /\ active' = active /\ keyFiles' = keyFiles
      /\ \A s \in receipts : s.row.seq \in Nat
  BY DEF TypeOK, Receipt, Row, keys
<1>2. r.row.seq = c + 1
  BY <1>1 DEF Counted, LedgerOK, Numbered
<1> HIDE DEF c
<1>3. \A n \in Nat : n <= c + 1 => Below(n)' = Below(n)
  BY <1>1, <1>2 DEF Below
<1>4. Numbered'
  <2>1. \A i \in 1..c : i # c + 1
    BY <1>1
  <2> QED BY <1>1, <1>2, <2>1 DEF LedgerOK, Numbered, c
<1>5. Chained'
  <2>1. \A s \in receipts' : s.prev = Below(s.row.seq)'
    <3>1. ASSUME NEW s \in receipts' PROVE s.prev = Below(s.row.seq)'
      <4>1. s \in receipts /\ s.row.seq \in Nat /\ s.row.seq <= c + 1
        BY <1>1 DEF LedgerOK, Numbered, c
      <4> QED BY <1>3, <4>1 DEF LedgerOK, Chained
    <3> QED BY <3>1
  <2>2. (authority.head = Below(authority.count + 1))'
    BY <1>1, <1>2 DEF LedgerOK, Chained, Below, c
  <2>3. rows' \subseteq {s.row : s \in receipts'}
    BY <1>1 DEF LedgerOK, Chained
  <2> QED BY <1>1, <2>1, <2>2, <2>3 DEF LedgerOK, Chained
<1>6. Keyed'
  BY <1>1 DEF LedgerOK, Keyed
<1> QED BY <1>4, <1>5, <1>6 DEF LedgerOK

-----------------------------------------------------------------------------
(* Types and the lock.                                                     *)

\* A process that goes on, or ends its call, keeps the types of its variables.
LEMMA EndType ==
  ASSUME TypeOK, NEW p \in Procs, End(p)
  PROVE  /\ pc' \in [Procs -> Holding \cup {"idle", "lookup", "compare"}]
         /\ task' \in [Procs -> Tasks]
         /\ cur' \in [Procs -> Row \cup KeyRefs \cup {NoProc}]
         /\ pc'[p] = "idle" /\ \A q \in Procs : q # p => pc'[q] = pc[q] /\ cur'[q] = cur[q]
  BY DEF TypeOK, End, Goto, Tasks

LEMMA GotoType ==
  ASSUME TypeOK, NEW p \in Procs, NEW x \in Holding \cup {"idle", "lookup", "compare"},
         Goto(p, x)
  PROVE  /\ pc' \in [Procs -> Holding \cup {"idle", "lookup", "compare"}]
         /\ pc'[p] = x /\ \A q \in Procs : q # p => pc'[q] = pc[q]
  BY DEF TypeOK, Goto

\* Nobody else is in the middle of a call that holds the lock.
LEMMA Alone ==
  ASSUME TypeOK, NEW p \in Procs, lock = p \/ lock = NoProc, NEW q \in Procs, q # p
  PROVE  pc[q] \notin Holding
  BY ProcAssumption DEF TypeOK

\* A candidate is a row.
LEMMA CandidateType ==
  ASSUME TypeOK, NEW p \in Procs, Ready(p), NEW id \in Ids
  PROVE  /\ Candidate(p, id) \in Row
         /\ Candidate(p, id).seq = authority.count + 1
         /\ Candidate(p, id).epoch = active
         /\ Candidate(p, id).fact = task[p][2]
         /\ Candidate(p, id).id = id
<1>1. task[p][2] \in Facts /\ task[p][3] \in Contents
  BY DEF Ready, Claims
<1>2. authority.count \in Nat /\ active \in KeyRefs
  BY DEF TypeOK
<1> QED BY <1>1, <1>2 DEF Candidate, Row

\* TypeOK is preserved by every step.
LEMMA TypeStep ==
  ASSUME StoreInv, [Next]_vars
  PROVE  TypeOK'
<1> USE DEF StoreInv
<1>1. ASSUME NEW p \in Procs, NEW t \in Tasks, Lock(p, t) PROVE TypeOK'
  BY <1>1, Alone DEF TypeOK, Lock, ledger, keys, Holding
<1>2. ASSUME NEW p \in Procs, RecoverStray(p) PROVE TypeOK'
  BY <1>2 DEF TypeOK, RecoverStray, keys
<1>3. ASSUME NEW p \in Procs, RecoverReceipt(p) PROVE TypeOK'
  <2>1. PICK r \in Pending : receipts' = Rename(r)
    BY <1>3 DEF RecoverReceipt
  <2>2. receipts' \subseteq Receipt
    BY <2>1 DEF TypeOK, Pending, Rename, Receipt
  <2> QED BY <1>3, <2>2 DEF TypeOK, RecoverReceipt, keys
<1>4. ASSUME NEW p \in Procs, RecoverAuthority(p) PROVE TypeOK'
  <2>1. PICK r \in Pending :
          authority' = [count |-> r.row.seq, head |-> authority.head \cup {r.row}]
    BY <1>4 DEF RecoverAuthority
  <2>2. authority' \in [count : Nat, head : SUBSET Row]
    BY <2>1 DEF TypeOK, Pending, Receipt, Row
  <2> QED BY <1>4, <2>2 DEF TypeOK, RecoverAuthority, keys
<1>5. ASSUME NEW p \in Procs, RecoverRemove(p) PROVE TypeOK'
  BY <1>5 DEF TypeOK, RecoverRemove, keys
<1>6. ASSUME NEW p \in Procs, RecoverDone(p) PROVE TypeOK'
  <2>1. CASE End(p) /\ lock' = NoProc
    <3>1. lock = p
      BY <1>6 DEF TypeOK, RecoverDone, Holding
    <3> QED BY <1>6, <2>1, <3>1, EndType, Alone DEF TypeOK, RecoverDone, ledger, keys, Holding
  <2>2. CASE Goto(p, "ready") /\ UNCHANGED <<lock, task, cur>>
    BY <1>6, <2>2, GotoType DEF TypeOK, RecoverDone, ledger, keys, Holding
  <2> QED BY <1>6, <2>1, <2>2 DEF RecoverDone
<1>7. ASSUME NEW p \in Procs, Replay(p) PROVE TypeOK'
  <2>1. lock = p
    BY <1>7 DEF TypeOK, Replay, Ready, Holding
  <2>2. PICK r \in rows : cur' = [cur EXCEPT ![p] = r]
    BY <1>7 DEF Replay, Matches
  <2>3. cur' \in [Procs -> Row \cup KeyRefs \cup {NoProc}]
    BY <2>2 DEF TypeOK
  <2>4. Goto(p, "lookup") /\ lock' = NoProc
    BY <1>7 DEF Replay
  <2> QED BY <1>7, <2>1, <2>3, <2>4, GotoType, Alone DEF TypeOK, Replay, ledger, keys, Holding
<1>8. ASSUME NEW p \in Procs, Collide(p) PROVE TypeOK'
  <2>1. lock = p
    BY <1>8 DEF TypeOK, Collide, Ready, Holding
  <2>2. End(p) /\ lock' = NoProc
    BY <1>8 DEF Collide
  <2> QED BY <1>8, <2>1, <2>2, EndType, Alone DEF TypeOK, Collide, ledger, keys, Holding
<1>9. ASSUME NEW p \in Procs, Activate(p) PROVE TypeOK'
  <2>1. lock = p
    BY <1>9 DEF TypeOK, Activate, Ready, Holding
  <2>2. End(p) /\ lock' = NoProc
    BY <1>9 DEF Activate
  <2>3. cur[p] \in KeyRefs
    BY <1>9 DEF Activate, Knows, TypeOK
  <2> QED BY <1>9, <2>1, <2>2, <2>3, EndType, Alone DEF TypeOK, Activate, ledger, keys, Holding
<1>10. ASSUME NEW p \in Procs, RotateRefused(p) PROVE TypeOK'
  <2>1. lock = p
    BY <1>10 DEF TypeOK, RotateRefused, Ready, Holding
  <2>2. End(p) /\ lock' = NoProc
    BY <1>10 DEF RotateRefused
  <2> QED BY <1>10, <2>1, <2>2, EndType, Alone DEF TypeOK, RotateRefused, ledger, keys, Holding
<1>11. ASSUME NEW p \in Procs, Pend(p) PROVE TypeOK'
  <2>1. PICK id \in Ids :
          /\ cur' = [cur EXCEPT ![p] = Candidate(p, id)]
          /\ receipts' = receipts \cup {[row |-> Candidate(p, id), prev |-> authority.head,
                                         committed |-> FALSE]}
    BY <1>11 DEF Pend
  <2>2. Candidate(p, id) \in Row
    BY <1>11, CandidateType DEF Pend
  <2>3. receipts' \subseteq Receipt
    <3>1. ASSUME NEW x \in Row
          PROVE  [row |-> x, prev |-> authority.head, committed |-> FALSE] \in Receipt
      BY DEF TypeOK, Receipt
    <3> QED BY <2>1, <2>2, <3>1 DEF TypeOK
  <2>4. cur' \in [Procs -> Row \cup KeyRefs \cup {NoProc}]
    BY <2>1, <2>2 DEF TypeOK
  <2>5. Goto(p, "pended") /\ lock' = lock /\ lock = p
    BY <1>11 DEF Pend, Ready, TypeOK, Holding
  <2> QED BY <1>11, <2>3, <2>4, <2>5, GotoType DEF TypeOK, Pend, keys, Holding
<1>12. ASSUME NEW p \in Procs, Commit(p) PROVE TypeOK'
  <2>1. cur[p] \in Row
    BY <1>12 DEF Commit, Knows
  <2>2. Goto(p, "committed") /\ lock = p
    BY <1>12 DEF Commit, TypeOK, Holding
  <2> QED BY <1>12, <2>1, <2>2, GotoType DEF TypeOK, Commit, keys, Holding
<1>13. ASSUME NEW p \in Procs, Seal(p) PROVE TypeOK'
  <2>1. cur[p] \in Row
    BY <1>13 DEF Seal, Knows
  <2>2. authority' \in [count : Nat, head : SUBSET Row]
    BY <1>13, <2>1 DEF Seal, TypeOK, Row
  <2>3. Goto(p, "sealed") /\ lock = p
    BY <1>13 DEF Seal, TypeOK, Holding
  <2> QED BY <1>13, <2>2, <2>3, GotoType DEF TypeOK, Seal, keys, Holding
<1>14. ASSUME NEW p \in Procs, Confirm(p) PROVE TypeOK'
  <2>1. PICK r \in Pending : receipts' = Rename(r)
    BY <1>14 DEF Confirm
  <2>2. receipts' \subseteq Receipt
    BY <2>1 DEF TypeOK, Pending, Rename, Receipt
  <2>3. Goto(p, "lookup") /\ lock' = NoProc /\ lock = p
    BY <1>14 DEF Confirm, TypeOK, Holding
  <2> QED BY <1>14, <2>2, <2>3, GotoType, Alone DEF TypeOK, Confirm, keys, Holding
<1>15. ASSUME NEW p \in Procs, Lookup(p) PROVE TypeOK'
  <2>1. Goto(p, "compare")
    BY <1>15 DEF Lookup
  <2> QED BY <1>15, <2>1, GotoType, Alone DEF TypeOK, Lookup, ledger, keys, Holding
<1>16. ASSUME NEW p \in Procs, Compare(p) PROVE TypeOK'
  <2>1. End(p) /\ cur[p] \in rows
    BY <1>16 DEF Compare, Knows
  <2> QED BY <1>16, <2>1, EndType, Alone DEF TypeOK, Compare, ledger, keys, Holding
<1>17. ASSUME NEW p \in Procs, Unverifiable(p) PROVE TypeOK'
  <2>1. End(p)
    BY <1>17 DEF Unverifiable
  <2> QED BY <1>17, <2>1, EndType DEF TypeOK, Unverifiable, ledger, keys, Holding
<1>18. ASSUME NEW p \in Procs, CreateKey(p) PROVE TypeOK'
  <2>1. PICK k \in KeyRefs : cur' = [cur EXCEPT ![p] = k] /\ keyFiles' = keyFiles \cup {k}
    BY <1>18 DEF CreateKey
  <2>2. cur' \in [Procs -> Row \cup KeyRefs \cup {NoProc}] /\ keyFiles' \subseteq KeyRefs
    BY <2>1 DEF TypeOK
  <2>3. Goto(p, "keyed") /\ lock = p
    BY <1>18 DEF CreateKey, TypeOK, Holding
  <2> QED BY <1>18, <2>2, <2>3, GotoType DEF TypeOK, CreateKey, ledger, Holding
<1>19. ASSUME NEW p \in Procs, Fail(p) PROVE TypeOK'
  <2>1. End(p)
    BY <1>19 DEF Fail
  <2>2. stray' \in BOOLEAN /\ fails' \in Nat
    <3>1. stray' \in {stray, stray \/ Ready(p)} /\ stray \in BOOLEAN
      BY <1>19 DEF Fail, TypeOK
    <3>2. fails' \in Nat
      BY <1>19 DEF Fail, TypeOK
    <3> QED BY <3>1, <3>2 DEF Ready
  <2>3. lock' \in Procs \cup {NoProc}
    BY <1>19 DEF Fail, TypeOK
  <2>4. \A q \in Procs : pc'[q] \in Holding => lock' = q
    BY <1>19, <2>1, EndType DEF TypeOK, Fail, Holding
  <2> QED BY <1>19, <2>1, <2>2, <2>3, <2>4, EndType DEF TypeOK, Fail, keys
<1>20. CASE UNCHANGED vars
  BY <1>20 DEF TypeOK, vars
<1> QED
  BY <1>1, <1>2, <1>3, <1>4, <1>5, <1>6, <1>7, <1>8, <1>9, <1>10, <1>11, <1>12, <1>13, <1>14, <1>15, <1>16, <1>17, <1>18, <1>19, <1>20 DEF Next, Step

-----------------------------------------------------------------------------
(* The ledger.                                                             *)

\* The pending receipt above the count, if there is one, is one above it.
LEMMA Uncounted ==
  ASSUME TypeOK, LedgerOK, NEW r \in receipts, ~Counted(r)
  PROVE  r.row.seq = authority.count + 1
<1>1. authority.count \in Nat /\ r.row.seq \in 1..(authority.count + 1)
  BY DEF TypeOK, LedgerOK, Numbered
<1> QED BY <1>1 DEF Counted

\* A valid ledger stays valid, whatever step is taken.
LEMMA LedgerStep ==
  ASSUME StoreInv, [Next]_vars
  PROVE  LedgerOK'
<1> USE DEF StoreInv
<1>1. ASSUME UNCHANGED <<rows, receipts, authority, keys>> PROVE LedgerOK'
  BY <1>1 DEF LedgerOK, Numbered, Chained, Keyed, Below, keys
<1>2. ASSUME NEW p \in Procs, RecoverReceipt(p) PROVE LedgerOK'
  BY <1>2, RenameKeeps DEF RecoverReceipt
<1>3. ASSUME NEW p \in Procs, RecoverAuthority(p) PROVE LedgerOK'
  <2>1. PICK r \in Pending :
          /\ ~Counted(r) /\ r.row \in rows
          /\ authority' = [count |-> r.row.seq, head |-> authority.head \cup {r.row}]
    BY <1>3 DEF RecoverAuthority
  <2>2. r \in receipts /\ r.row.seq = authority.count + 1
    BY <2>1, Uncounted DEF Pending
  <2>3. UNCHANGED <<rows, receipts, keys>>
    BY <1>3 DEF RecoverAuthority
  <2> QED BY <2>1, <2>2, <2>3, CountKeeps
<1>4. ASSUME NEW p \in Procs, RecoverRemove(p) PROVE LedgerOK'
  BY <1>4, RemoveKeeps DEF RecoverRemove, Pending
<1>5. ASSUME NEW p \in Procs, Pend(p) PROVE LedgerOK'
  <2>1. PICK id \in Ids :
          receipts' = receipts \cup {[row |-> Candidate(p, id), prev |-> authority.head,
                                      committed |-> FALSE]}
    BY <1>5 DEF Pend
  <2>2. /\ Candidate(p, id) \in Row /\ Candidate(p, id).seq = authority.count + 1
        /\ Candidate(p, id).epoch = active
    BY <1>5, CandidateType DEF Pend
  <2>3. Pending = {}
    BY <1>5 DEF Pend, Ready, Knows
  <2>4. UNCHANGED <<rows, authority, keys>>
    BY <1>5 DEF Pend
  <2> QED BY <2>1, <2>2, <2>3, <2>4, PendKeeps
<1>6. ASSUME NEW p \in Procs, Commit(p) PROVE LedgerOK'
  <2>1. PICK r \in receipts : r.row = cur[p]
    BY <1>6 DEF Commit, Knows
  <2> QED BY <1>6, <2>1, CommitKeeps DEF Commit
<1>7. ASSUME NEW p \in Procs, Seal(p) PROVE LedgerOK'
  <2>1. PICK r \in receipts : r.row = cur[p]
    BY <1>7 DEF Seal, Knows
  <2>2. cur[p] \in rows /\ cur[p].seq = authority.count + 1
    BY <1>7 DEF Seal, Knows
  <2> QED BY <1>7, <2>1, <2>2, CountKeeps DEF Seal
<1>8. ASSUME NEW p \in Procs, Confirm(p) PROVE LedgerOK'
  <2>1. PICK r \in Pending : r.row = cur[p] /\ receipts' = Rename(r)
    BY <1>8 DEF Confirm
  <2>2. Counted(r)
    BY <1>8, <2>1 DEF Confirm, Knows, Counted
  <2> QED BY <1>8, <2>1, <2>2, RenameKeeps DEF Confirm
<1>9. ASSUME NEW p \in Procs, CreateKey(p) PROVE LedgerOK'
  BY <1>9 DEF CreateKey, LedgerOK, Numbered, Chained, Keyed, Below, ledger
<1>10. ASSUME NEW p \in Procs, Activate(p) PROVE LedgerOK'
  <2>1. cur[p] \in keyFiles
    BY <1>10 DEF Activate, Knows
  <2> QED BY <1>10, <2>1 DEF Activate, LedgerOK, Numbered, Chained, Keyed, Below, ledger
<1>11. ASSUME NEW p \in Procs, NEW t \in Tasks, Lock(p, t) PROVE LedgerOK'
  BY <1>1, <1>11 DEF Lock, ledger
<1>12. ASSUME NEW p \in Procs,
              RecoverStray(p) \/ RecoverDone(p) \/ Replay(p) \/ Collide(p) \/ Lookup(p)
                \/ Compare(p) \/ Unverifiable(p) \/ RotateRefused(p) \/ Fail(p)
       PROVE  LedgerOK'
  BY <1>1, <1>12 DEF RecoverStray, RecoverDone, Replay, Collide, Lookup, Compare,
                     Unverifiable, RotateRefused, Fail, ledger
<1>13. CASE UNCHANGED vars
  BY <1>1, <1>13 DEF vars, keys
<1> QED
  BY <1>2, <1>3, <1>4, <1>5, <1>6, <1>7, <1>8, <1>9, <1>10, <1>11, <1>12, <1>13 DEF Next, Step

-----------------------------------------------------------------------------
(* What processes know.                                                    *)

\* A process that is outside the lock, or whose call has ended, loses nothing
\* when the table of assignments grows.
LEMMA OutsideKnows ==
  ASSUME NEW q \in Procs, Knows(q), pc[q] \notin Holding, pc'[q] = pc[q],
         cur'[q] = cur[q], rows \subseteq rows'
  PROVE  Knows(q)'
  BY DEF Knows, Holding

LEMMA IdleKnows ==
  ASSUME NEW q \in Procs, pc'[q] = "idle"
  PROVE  Knows(q)'
  BY DEF Knows

\* The lock is held by the process that takes the step, so the others are outside.
LEMMA OthersKnow ==
  ASSUME StoreInv, NEW p \in Procs, lock = p \/ lock = NoProc, rows \subseteq rows',
         \A q \in Procs : q # p => pc'[q] = pc[q] /\ cur'[q] = cur[q]
  PROVE  \A q \in Procs : q # p => Knows(q)'
  BY Alone, OutsideKnows DEF StoreInv

\* Nobody forgets, and the table keeps facts and identifiers apart.
LEMMA KnowsStep ==
  ASSUME StoreInv, [Next]_vars
  PROVE  /\ \A q \in Procs : Knows(q)'
         /\ rows \subseteq rows' /\ returned' \subseteq rows'
         /\ Distinct'
<1> USE DEF StoreInv
<1> DEFINE Goal == /\ \A q \in Procs : Knows(q)'
                   /\ rows \subseteq rows' /\ returned' \subseteq rows'
                   /\ Distinct'
<1>1. ASSUME NEW p \in Procs, NEW t \in Tasks, Lock(p, t) PROVE Goal
  <2>1. pc'[p] = "recover" /\ \A q \in Procs : q # p => pc'[q] = pc[q] /\ cur'[q] = cur[q]
    BY <1>1 DEF Lock, TypeOK
  <2>2. Knows(p)'
    BY <2>1 DEF Knows
  <2> QED BY <1>1, <2>1, <2>2, OthersKnow DEF Lock, ledger, Distinct
<1>2. ASSUME NEW p \in Procs, pc[p] = "recover", lock' = lock, pc' = pc, cur' = cur, rows' = rows,
             returned' = returned
      PROVE  Goal
  <2>1. lock = p
    BY <1>2 DEF TypeOK, Holding
  <2>2. Knows(p)'
    BY <1>2 DEF Knows
  <2> QED BY <1>2, <2>1, <2>2, OthersKnow DEF Distinct
<1>3. ASSUME NEW p \in Procs, RecoverStray(p) \/ RecoverReceipt(p) \/ RecoverAuthority(p) \/ RecoverRemove(p)
      PROVE  Goal
  BY <1>2, <1>3 DEF RecoverStray, RecoverReceipt, RecoverAuthority, RecoverRemove
<1>4. ASSUME NEW p \in Procs, End(p), lock = p \/ lock = NoProc, rows' = rows,
             returned' \subseteq rows
      PROVE  Goal
  <2>1. pc'[p] = "idle" /\ \A q \in Procs : q # p => pc'[q] = pc[q] /\ cur'[q] = cur[q]
    BY <1>4, EndType
  <2> QED BY <1>4, <2>1, OthersKnow, IdleKnows DEF Distinct
<1>5. ASSUME NEW p \in Procs, RecoverDone(p) PROVE Goal
  <2>1. lock = p /\ Pending = {} /\ receipts' = receipts /\ rows' = rows
        /\ returned' = returned
    BY <1>5 DEF RecoverDone, TypeOK, Holding, ledger
  <2>2. CASE End(p)
    BY <1>4, <2>1, <2>2
  <2>3. CASE Goto(p, "ready") /\ cur' = cur
    <3>1. pc'[p] = "ready" /\ \A q \in Procs : q # p => pc'[q] = pc[q] /\ cur'[q] = cur[q]
      BY <2>3, GotoType DEF Holding
    <3>2. Pending' = {}
      BY <2>1 DEF Pending
    <3>3. Knows(p)'
      BY <3>1, <3>2 DEF Knows
    <3> QED BY <2>1, <3>1, <3>3, OthersKnow DEF Distinct
  <2> QED BY <1>5, <2>2, <2>3 DEF RecoverDone
<1>6. ASSUME NEW p \in Procs, Replay(p) PROVE Goal
  <2>1. lock = p /\ rows' = rows /\ returned' = returned
    BY <1>6 DEF Replay, Ready, TypeOK, Holding, ledger
  <2>2. PICK r \in rows : cur' = [cur EXCEPT ![p] = r]
    BY <1>6 DEF Replay, Matches
  <2>3. Goto(p, "lookup")
    BY <1>6 DEF Replay
  <2>4. /\ pc'[p] = "lookup" /\ cur'[p] \in rows
        /\ \A q \in Procs : q # p => pc'[q] = pc[q] /\ cur'[q] = cur[q]
    BY <2>2, <2>3, GotoType DEF TypeOK
  <2>5. Knows(p)'
    BY <2>1, <2>4 DEF Knows
  <2> QED BY <2>1, <2>4, <2>5, OthersKnow DEF Distinct
<1>7. ASSUME NEW p \in Procs, Collide(p) \/ Activate(p) \/ RotateRefused(p) PROVE Goal
  BY <1>4, <1>7 DEF Collide, Activate, RotateRefused, Ready, TypeOK, Holding, ledger
<1>8. ASSUME NEW p \in Procs, Pend(p) PROVE Goal
  <2>1. PICK id \in Ids \ {r.id : r \in rows} :
          /\ cur' = [cur EXCEPT ![p] = Candidate(p, id)]
          /\ receipts' = receipts \cup {[row |-> Candidate(p, id), prev |-> authority.head,
                                         committed |-> FALSE]}
    BY <1>8 DEF Pend
  <2>2. /\ lock = p /\ rows' = rows /\ returned' = returned /\ authority' = authority
        /\ Goto(p, "pended") /\ Ready(p) /\ Matches(p) = {}
    BY <1>8 DEF Pend, Ready, TypeOK, Holding
  <2>3. /\ Candidate(p, id) \in Row
        /\ Candidate(p, id).seq = authority.count + 1
        /\ Candidate(p, id).fact = task[p][2] /\ Candidate(p, id).id = id
    BY <2>2, CandidateType
  <2>4. \A x \in rows : x.epoch \in epochs
    BY DEF LedgerOK, Chained, Keyed
  <2>5. \A x \in rows : x.fact # task[p][2] /\ x.id # id
    BY <2>2, <2>4 DEF Matches
  <2>6. /\ pc'[p] = "pended" /\ cur'[p] = Candidate(p, id)
        /\ \A q \in Procs : q # p => pc'[q] = pc[q] /\ cur'[q] = cur[q]
    BY <2>1, <2>2, GotoType DEF TypeOK, Holding
  <2>7. \E r \in receipts' : r.row = cur'[p] /\ ~r.committed
    <3> DEFINE r == [row |-> Candidate(p, id), prev |-> authority.head, committed |-> FALSE]
    <3>1. r \in receipts' /\ r.row = Candidate(p, id) /\ ~r.committed
      BY <2>1
    <3> QED BY <2>6, <3>1
  <2>8. Knows(p)'
    <3>1. cur'[p] \in Row /\ cur'[p].seq = authority'.count + 1
      BY <2>2, <2>3, <2>6
    <3>2. \A x \in rows' : x.fact # cur'[p].fact /\ x.id # cur'[p].id
      BY <2>2, <2>3, <2>5, <2>6
    <3> QED BY <2>6, <2>7, <3>1, <3>2 DEF Knows
  <2> QED BY <2>2, <2>6, <2>8, OthersKnow DEF Distinct
<1>9. ASSUME NEW p \in Procs, Commit(p) PROVE Goal
  <2>1. /\ lock = p /\ rows' = rows \cup {cur[p]} /\ returned' = returned
        /\ receipts' = receipts /\ authority' = authority /\ cur' = cur
        /\ pc[p] = "pended" /\ Goto(p, "committed")
    BY <1>9 DEF Commit, TypeOK, Holding
  <2>2. pc'[p] = "committed" /\ \A q \in Procs : q # p => pc'[q] = pc[q] /\ cur'[q] = cur[q]
    BY <2>1, GotoType DEF Holding
  <2>3. Knows(p)'
    BY <2>1, <2>2 DEF Knows
  <2>4. Distinct'
    <3>1. \A x \in rows : x.fact # cur[p].fact /\ x.id # cur[p].id
      BY <2>1 DEF Knows
    <3> QED BY <2>1, <3>1 DEF Distinct
  <2> QED BY <2>1, <2>2, <2>3, <2>4, OthersKnow
<1>10. ASSUME NEW p \in Procs, Seal(p) PROVE Goal
  <2>1. /\ lock = p /\ rows' = rows /\ returned' = returned
        /\ receipts' = receipts /\ authority'.count = cur[p].seq /\ cur' = cur
        /\ pc[p] = "committed" /\ Goto(p, "sealed")
    BY <1>10 DEF Seal, TypeOK, Holding
  <2>2. pc'[p] = "sealed" /\ \A q \in Procs : q # p => pc'[q] = pc[q] /\ cur'[q] = cur[q]
    BY <2>1, GotoType DEF Holding
  <2>3. cur[p] \in Row /\ cur[p].seq \in Nat
    BY <2>1 DEF Knows, Row
  <2>4. Knows(p)'
    BY <2>1, <2>2, <2>3 DEF Knows
  <2> QED BY <2>1, <2>2, <2>4, OthersKnow DEF Distinct
<1>11. ASSUME NEW p \in Procs, Confirm(p) PROVE Goal
  <2>1. /\ lock = p /\ rows' = rows /\ returned' = returned /\ cur' = cur
        /\ pc[p] = "sealed" /\ Goto(p, "lookup")
    BY <1>11 DEF Confirm, TypeOK, Holding
  <2>2. pc'[p] = "lookup" /\ \A q \in Procs : q # p => pc'[q] = pc[q] /\ cur'[q] = cur[q]
    BY <2>1, GotoType
  <2>3. Knows(p)'
    BY <2>1, <2>2 DEF Knows
  <2> QED BY <2>1, <2>2, <2>3, OthersKnow DEF Distinct
<1>12. ASSUME NEW p \in Procs, Lookup(p) PROVE Goal
  <2>1. /\ lock = NoProc /\ rows' = rows /\ returned' = returned /\ cur' = cur
        /\ cur[p] \in rows /\ Goto(p, "compare")
    BY <1>12 DEF Lookup, ledger
  <2>2. pc'[p] = "compare" /\ \A q \in Procs : q # p => pc'[q] = pc[q] /\ cur'[q] = cur[q]
    BY <2>1, GotoType
  <2>3. Knows(p)'
    BY <2>1, <2>2 DEF Knows
  <2> QED BY <2>1, <2>2, <2>3, OthersKnow DEF Distinct
<1>13. ASSUME NEW p \in Procs, Compare(p) PROVE Goal
  BY <1>4, <1>13 DEF Compare, Knows, ledger
<1>14. ASSUME NEW p \in Procs, CreateKey(p) PROVE Goal
  <2>1. PICK k \in KeyRefs : cur' = [cur EXCEPT ![p] = k] /\ keyFiles' = keyFiles \cup {k}
    BY <1>14 DEF CreateKey
  <2>2. lock = p /\ rows' = rows /\ returned' = returned /\ Goto(p, "keyed")
    BY <1>14 DEF CreateKey, TypeOK, Holding, ledger
  <2>3. /\ pc'[p] = "keyed" /\ cur'[p] \in keyFiles'
        /\ \A q \in Procs : q # p => pc'[q] = pc[q] /\ cur'[q] = cur[q]
    BY <2>1, <2>2, GotoType DEF TypeOK, Holding
  <2>4. Knows(p)'
    BY <2>3 DEF Knows
  <2> QED BY <2>2, <2>3, <2>4, OthersKnow DEF Distinct
<1>15. ASSUME NEW p \in Procs, Unverifiable(p) \/ Fail(p) PROVE Goal
  <2>1. /\ End(p) /\ rows' = rows /\ returned' = returned
        /\ receipts' = receipts /\ authority' = authority /\ keyFiles' = keyFiles
    BY <1>15 DEF Unverifiable, Fail, ledger, keys
  <2>2. pc'[p] = "idle" /\ \A q \in Procs : q # p => pc'[q] = pc[q] /\ cur'[q] = cur[q]
    BY <2>1, EndType
  <2>3. ASSUME NEW q \in Procs, q # p PROVE Knows(q)'
    BY <2>1, <2>2, <2>3 DEF Knows, Pending
  <2> QED BY <2>1, <2>2, <2>3, IdleKnows DEF Distinct
<1>16. CASE UNCHANGED vars
  BY <1>16 DEF vars, Knows, Pending, Distinct
<1> QED
  BY <1>1, <1>3, <1>5, <1>6, <1>7, <1>8, <1>9, <1>10, <1>11, <1>12, <1>13, <1>14, <1>15, <1>16
     DEF Next, Step

\* The initial store has all of it.
LEMMA StoreInit == Init => StoreInv
<1> SUFFICES ASSUME Init PROVE StoreInv
  OBVIOUS
<1>1. TypeOK
  BY KeyAssumption DEF Init, TypeOK, Tasks, Holding
<1>2. LedgerOK
  BY DEF Init, LedgerOK, Numbered, Chained, Keyed, Below
<1>3. \A p \in Procs : Knows(p)
  BY DEF Init, Knows
<1> QED BY <1>1, <1>2, <1>3 DEF StoreInv, Init, Distinct

\* StoreInv is inductive.
LEMMA StoreInductive == StoreInv /\ [Next]_vars => StoreInv'
  BY TypeStep, LedgerStep, KnowsStep DEF StoreInv

-----------------------------------------------------------------------------
(***************************************************************************)
(* Every variable of the store stays in its type and a process in the      *)
(* middle of a call holds the lock file.                                   *)
(***************************************************************************)
THEOREM StoreTypeCorrect == Spec => []TypeOK
<1>1. StoreInv => TypeOK
  BY DEF StoreInv
<1> QED BY <1>1, StoreInit, StoreInductive, PTL DEF Spec

(***************************************************************************)
(* A fact has one identity for ever, whichever process failed at which     *)
(* step of claim_or_replay and however often rotate_key ran.               *)
(***************************************************************************)
THEOREM FactHasOneIdentity == Spec => []OneIdentity
<1>1. StoreInv => OneIdentity
  BY DEF StoreInv, OneIdentity, Distinct
<1> QED BY <1>1, StoreInit, StoreInductive, PTL DEF Spec

(***************************************************************************)
(* recover_and_validate_store accepts every state a failed call leaves.    *)
(***************************************************************************)
THEOREM StoreStaysRecoverable == Spec => []AlwaysRecoverable
<1>1. StoreInv => AlwaysRecoverable
  BY ValidForm DEF StoreInv, AlwaysRecoverable, LedgerOK
<1> QED BY <1>1, StoreInit, StoreInductive, PTL DEF Spec

-----------------------------------------------------------------------------
\* The authority counts up, and a receipt whose row is committed stays.
LEMMA ForwardStep ==
  ASSUME StoreInv, [Next]_vars
  PROVE  /\ rows \subseteq rows'
         /\ \A r \in receipts : r.row \in rows => \E s \in receipts' : s.row = r.row
         /\ authority.count <= authority'.count
<1> USE DEF StoreInv
<1>1. rows \subseteq rows'
  BY KnowsStep
<1>2. \A r \in receipts : r.row \in rows => \E s \in receipts' : s.row = r.row
  <2>1. ASSUME NEW x \in Pending, receipts' = Rename(x), NEW r \in receipts
        PROVE  \E s \in receipts' : s.row = r.row
    <3>1. CASE r = x
      <4>1. [x EXCEPT !.committed = TRUE] \in receipts'
        BY <2>1 DEF Rename
      <4>2. [x EXCEPT !.committed = TRUE].row = x.row
        BY DEF TypeOK, Pending, Receipt
      <4> QED BY <3>1, <4>1, <4>2
    <3>2. CASE r # x
      BY <2>1, <3>2 DEF Rename
    <3> QED BY <3>1, <3>2
  <2>2. ASSUME NEW p \in Procs, RecoverReceipt(p) \/ Confirm(p), NEW r \in receipts
        PROVE  \E s \in receipts' : s.row = r.row
    BY <2>1, <2>2 DEF RecoverReceipt, Confirm
  <2>3. ASSUME NEW p \in Procs, RecoverRemove(p), NEW r \in receipts, r.row \in rows
        PROVE  r \in receipts'
    BY <2>3 DEF RecoverRemove
  <2>4. ASSUME NEW p \in Procs, Pend(p) PROVE receipts \subseteq receipts'
    BY <2>4 DEF Pend
  <2>5. ASSUME NEW p \in Procs, NEW t \in Tasks, Lock(p, t) PROVE receipts' = receipts
    BY <2>5 DEF Lock, ledger
  <2>6. ASSUME NEW p \in Procs,
               RecoverStray(p) \/ RecoverAuthority(p) \/ RecoverDone(p) \/ Replay(p)
                 \/ Collide(p) \/ Commit(p) \/ Seal(p) \/ Lookup(p) \/ Compare(p)
                 \/ Unverifiable(p) \/ CreateKey(p) \/ Activate(p) \/ RotateRefused(p)
                 \/ Fail(p)
        PROVE  receipts' = receipts
    BY <2>6 DEF RecoverStray, RecoverAuthority, RecoverDone, Replay, Collide, Commit,
                Seal, Lookup, Compare, Unverifiable, CreateKey, Activate, RotateRefused,
                Fail, ledger
  <2>7. CASE UNCHANGED vars
    BY <2>7 DEF vars
  <2> QED BY <2>2, <2>3, <2>4, <2>5, <2>6, <2>7 DEF Next, Step
<1>3. authority.count <= authority'.count
  <2>1. authority.count \in Nat
    BY DEF TypeOK
  <2>2. ASSUME NEW p \in Procs, RecoverAuthority(p) PROVE authority.count <= authority'.count
    <3>1. PICK r \in Pending :
            /\ ~Counted(r)
            /\ authority' = [count |-> r.row.seq, head |-> authority.head \cup {r.row}]
      BY <2>2 DEF RecoverAuthority
    <3>2. r.row.seq = authority.count + 1
      BY <3>1, Uncounted DEF Pending
    <3> QED BY <2>1, <3>1, <3>2
  <2>3. ASSUME NEW p \in Procs, Seal(p) PROVE authority.count <= authority'.count
    BY <2>1, <2>3 DEF Seal, Knows
  <2>4. ASSUME NEW p \in Procs, NEW t \in Tasks, Lock(p, t) PROVE authority' = authority
    BY <2>4 DEF Lock, ledger
  <2>5. ASSUME NEW p \in Procs,
               RecoverStray(p) \/ RecoverReceipt(p) \/ RecoverRemove(p) \/ RecoverDone(p)
                 \/ Replay(p) \/ Collide(p) \/ Pend(p) \/ Commit(p) \/ Confirm(p)
                 \/ Lookup(p) \/ Compare(p) \/ Unverifiable(p) \/ CreateKey(p)
                 \/ Activate(p) \/ RotateRefused(p) \/ Fail(p)
        PROVE  authority' = authority
    BY <2>5 DEF RecoverStray, RecoverReceipt, RecoverRemove, RecoverDone, Replay,
                Collide, Pend, Commit, Confirm, Lookup, Compare, Unverifiable, CreateKey,
                Activate, RotateRefused, Fail, ledger
  <2>6. CASE UNCHANGED vars
    BY <2>1, <2>6 DEF vars
  <2> QED BY <2>1, <2>2, <2>3, <2>4, <2>5, <2>6 DEF Next, Step
<1> QED BY <1>1, <1>2, <1>3

(***************************************************************************)
(* No step takes a committed assignment back: recovery removes a pending   *)
(* receipt only when its row was not committed.                            *)
(***************************************************************************)
THEOREM CommittedStays == Spec => NothingTakenBack
<1>1. StoreInv /\ [Next]_vars =>
        [/\ rows \subseteq rows'
         /\ \A r \in receipts : r.row \in rows => \E s \in receipts' : s.row = r.row
         /\ authority.count <= authority'.count]_vars
  BY ForwardStep
<1> QED BY <1>1, StoreInit, StoreInductive, PTL DEF Spec, NothingTakenBack

=============================================================================
