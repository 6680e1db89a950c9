------------------------ MODULE SessionDrainProofs ------------------------
(***************************************************************************)
(* Proofs about SessionDrain: what one window leaves out lies behind it,   *)
(* so what a scan has not accounted for lies behind all of its windows.    *)
(***************************************************************************)
EXTENDS SessionDrain, NumberFacts

-----------------------------------------------------------------------------
(* Types.                                                                  *)

Phases == {"idle", "read", "evaluate", "staged", "persisted"}
ReadKinds == {"bootstrap", "resume", "strict", "history", "overlapped"}
Targets == 0..(Budget - 1)
ReadOptionSet == [kind : ReadKinds, min : Nat, floor : Nat, bytes : Targets, aside : BOOLEAN]

StoreTypes ==
  /\ now \in Nat /\ StartTime <= now /\ now <= MaxTime
  /\ store \in [Rows -> 0..now]

ScanTypes ==
  /\ pc \in Phases /\ mode \in {"scan", "history"}
  /\ base \in ReadOptionSet /\ read \in ReadOptionSet
  /\ shrunk \in Nat
  /\ pos \in [last : 0..now, cut : 0..now]
  /\ drain \in [high : 0..now, complete : BOOLEAN, windows : Nat, failed : BOOLEAN,
                from : 0..now, bytes : Targets, fitted : Nat]

WindowTypes ==
  /\ win \in [rows : SUBSET Rows, plain : SUBSET Rows, unsampled : SUBSET Rows,
              retained : 0..Budget, high : 0..now, complete : BOOLEAN, from : 0..now]
  /\ win.from <= win.high /\ drain.from <= drain.high
  /\ win.plain \subseteq win.rows

\* Only present versions are held.
HeldPresent ==
  /\ owed \subseteq Present /\ seen \subseteq Present
  /\ win.rows \cup win.unsampled \cup units \cup due \subseteq Present

TypeInv == StoreTypes /\ ScanTypes /\ WindowTypes /\ HeldPresent

-----------------------------------------------------------------------------
(* Rows in the order of a read.                                            *)

LEMMA StoreFacts ==
  ASSUME TypeInv
  PROVE  /\ Present \subseteq Rows /\ Rows \subseteq Nat /\ IsFiniteSet(Rows)
         /\ now \in Nat
         /\ \A r \in Rows : store[r] \in Nat /\ store[r] <= now /\ r \in Nat
         /\ \A r \in Present : store[r] >= 1
         /\ \A S \in SUBSET Rows : IsFiniteSet(S) /\ Cardinality(S) \in Nat
<1>1. \A S \in SUBSET Rows : IsFiniteSet(S) /\ Cardinality(S) \in Nat
  BY RowsAssumption, FS_Subset, FS_CardinalityType
<1> QED BY <1>1, RowsAssumption DEF TypeInv, StoreTypes, Present

\* A non-empty set of rows has a first row.
LEMMA FirstRow ==
  ASSUME TypeInv, NEW S \in SUBSET Rows, S # {}
  PROVE  \E r \in S : UpTo(S, r) = {r}
<1>1. Times(S) \subseteq Nat /\ Times(S) # {}
  BY StoreFacts DEF Times
<1>2. PICK t \in Times(S) : \A u \in Times(S) : t <= u
  BY <1>1, LeastNat
<1> DEFINE G == {r \in S : store[r] = t}
<1>3. G \subseteq Nat /\ G # {}
  BY <1>2, StoreFacts DEF Times
<1>4. PICK r \in G : \A q \in G : r <= q
  <2> HIDE DEF G
  <2> QED BY <1>3, LeastNat
<1>5. \A q \in S : store[q] >= store[r]
  BY <1>2, <1>4 DEF Times
<1>6. \A q \in UpTo(S, r) : q = r
  BY <1>1, <1>4, <1>5, StoreFacts DEF UpTo
<1> QED BY <1>4, <1>6, StoreFacts DEF UpTo

\* A non-empty set of rows has a last row.
LEMMA LastRow ==
  ASSUME TypeInv, NEW S \in SUBSET Rows, S # {}
  PROVE  \E r \in S : S \subseteq UpTo(S, r)
<1> DEFINE After(r) == S \ UpTo(S, r)
           N == {Cardinality(After(r)) : r \in S}
<1>1. \A r \in S : After(r) \in SUBSET Rows
  OBVIOUS
<1>2. N \subseteq Nat /\ N # {}
  BY <1>1, StoreFacts
<1>3. PICK n \in N : \A k \in N : n <= k
  <2> HIDE DEF N
  <2> QED BY <1>2, LeastNat
<1>4. PICK r \in S : n = Cardinality(After(r))
  BY <1>3
<1>5. ASSUME NEW q \in After(r) PROVE FALSE
  <2>1. After(q) \subseteq After(r) /\ q \notin After(q)
    BY <1>5, StoreFacts DEF UpTo
  <2>2. IsFiniteSet(After(r)) /\ After(q) \in SUBSET After(r) /\ After(q) # After(r)
    BY <2>1, <1>5, StoreFacts
  <2>3. Cardinality(After(q)) <= Cardinality(After(r)) /\ Cardinality(After(q)) # Cardinality(After(r))
    <3> HIDE DEF After
    <3> QED BY <2>2, FS_Subset
  <2>4. q \in S
    BY <1>5
  <2>5. Cardinality(After(q)) \in N /\ n \in Nat
    BY <1>2, <1>3, <2>4
  <2>6. n <= Cardinality(After(q)) /\ Cardinality(After(q)) \in Nat
    <3> HIDE DEF N
    <3> QED BY <1>2, <1>3, <2>5
  <2> QED BY <1>4, <2>3, <2>5, <2>6
<1> QED BY <1>5

-----------------------------------------------------------------------------
(* Sizes.                                                                  *)

LEMMA BytesFinite ==
  ASSUME TypeInv, NEW size \in [Rows -> Nat], NEW S \in SUBSET Rows
  PROVE  IsFiniteSet(BytesOf(size, S)) /\ TotalBytes(size, S) \in Nat
<1> DEFINE f == [r \in S |-> {r} \X (1..size[r])]
           X == {f[r] : r \in S}
<1>1. IsFiniteSet(S)
  BY StoreFacts
<1>2. IsFiniteSet(X)
  <2> HIDE DEF f
  <2> QED BY <1>1, ImageFinite
<1>3. \A T \in X : IsFiniteSet(T)
  <2> SUFFICES ASSUME NEW r \in S PROVE IsFiniteSet({r} \X (1..size[r]))
    OBVIOUS
  <2>1. size[r] \in Nat /\ 1 \in Int
    OBVIOUS
  <2>2. IsFiniteSet({r})
    BY FS_Singleton
  <2>3. IsFiniteSet(1..size[r])
    BY <2>1, FS_Interval
  <2> QED BY <2>2, <2>3, FS_Product
<1>4. IsFiniteSet(UNION X)
  <2> HIDE DEF X
  <2> QED BY <1>2, <1>3, FS_UNION
<1>5. BytesOf(size, S) = UNION X
  BY DEF BytesOf
<1> QED BY <1>4, <1>5, FS_CardinalityType DEF TotalBytes

\* A set of rows is no larger than one that holds all its rows with bytes.
LEMMA BytesGrow ==
  ASSUME TypeInv, NEW size \in [Rows -> Nat], NEW S \in SUBSET Rows, NEW T \in SUBSET Rows,
         \A r \in S : size[r] > 0 => r \in T
  PROVE  TotalBytes(size, S) <= TotalBytes(size, T)
<1>1. BytesOf(size, S) \in SUBSET BytesOf(size, T)
  <2> SUFFICES ASSUME NEW r \in S, NEW i \in 1..size[r]
               PROVE  r \in T
    BY DEF BytesOf
  <2>1. size[r] > 0
    OBVIOUS
  <2> QED BY <2>1
<1> QED BY <1>1, BytesFinite, FS_Subset DEF TotalBytes

LEMMA BytesOfOne ==
  ASSUME TypeInv, NEW size \in [Rows -> Nat], NEW r \in Rows
  PROVE  TotalBytes(size, {r}) = size[r]
<1>1. BytesOf(size, {r}) = {r} \X (1..size[r])
  BY DEF BytesOf
<1>2. IsFiniteSet({r}) /\ Cardinality({r}) = 1
  BY FS_Singleton
<1>3. IsFiniteSet(1..size[r]) /\ Cardinality(1..size[r]) = size[r]
  <2>1. size[r] \in Nat /\ 1 \in Int
    OBVIOUS
  <2>2. Cardinality(1..size[r]) = IF 1 > size[r] THEN 0 ELSE size[r] - 1 + 1
    BY <2>1, FS_Interval
  <2> QED BY <2>1, <2>2, FS_Interval
<1>4. Cardinality({r} \X (1..size[r])) = Cardinality({r}) * Cardinality(1..size[r])
  BY <1>2, <1>3, FS_Product
<1>5. Cardinality(BytesOf(size, {r})) = 1 * size[r] /\ size[r] \in Nat
  BY <1>1, <1>2, <1>3, <1>4
<1> QED BY <1>5 DEF TotalBytes

-----------------------------------------------------------------------------
(* One read.                                                               *)

\* The rows a read maps, and the window it returns.
MappedRows(o) == Mapped(o, Selected(o, Candidates(o)))
WindowRows(o) == WholeGroups(Candidates(o), MappedRows(o))
WindowOf(o) ==
  Acquired(o, Candidates(o), Selected(o, Candidates(o)), MappedRows(o), WindowRows(o))

LEMMA ReadOnce ==
  ASSUME NEW o
  PROVE  ReadOf(o) = {<<Candidates(o), Selected(o, Candidates(o)), MappedRows(o), WindowRows(o)>>}
BY DEF ReadOf, MappedRows, WindowRows

LEMMA LimitMeans ==
  ASSUME NEW o
  PROVE  LimitExceeded(o) <=> MappedRows(o) # {} /\ WindowRows(o) = {}
<1> DEFINE x == <<Candidates(o), Selected(o, Candidates(o)), MappedRows(o), WindowRows(o)>>
<1>1. x[3] = MappedRows(o) /\ x[4] = WindowRows(o)
  OBVIOUS
<1>2. ReadOf(o) = {x}
  BY ReadOnce
<1> HIDE DEF x
<1> QED BY <1>1, <1>2 DEF LimitExceeded

LEMMA RowsRead ==
  ASSUME TypeInv, NEW o
  PROVE  /\ Candidates(o) \subseteq Present
         /\ \A C : Selected(o, C) \subseteq C
         /\ MappedRows(o) \subseteq Selected(o, Candidates(o))
         /\ WindowRows(o) \subseteq MappedRows(o)
BY DEF Candidates, Selected, MappedRows, Mapped, WindowRows, WholeGroups

LEMMA HighWaterFacts ==
  ASSUME TypeInv, NEW W \in SUBSET Present
  PROVE  /\ HighWater(W) \in 0..now
         /\ \A r \in W : store[r] <= HighWater(W)
         /\ W # {} => \E r \in W : store[r] = HighWater(W)
         /\ W = {} => HighWater(W) = 0
<1> DEFINE T == {0} \cup Times(W)
<1>1. T \subseteq Nat /\ T # {} /\ (\A t \in T : t <= now) /\ now \in Nat
  BY StoreFacts DEF Times
<1>2. Max(T) \in T /\ \A t \in T : t <= Max(T)
  <2> HIDE DEF T
  <2> QED BY <1>1, MaxNat
<1>3. HighWater(W) = Max(T)
  BY DEF HighWater
<1>4. \A r \in W : store[r] \in T /\ store[r] > 0
  BY StoreFacts DEF Times
<1>5. Max(T) \in 0..now
  BY <1>1, <1>2
<1> HIDE DEF T
<1>6. \A r \in W : store[r] <= HighWater(W)
  BY <1>2, <1>3, <1>4
<1>7. W # {} => \E r \in W : store[r] = HighWater(W)
  <2> SUFFICES ASSUME NEW q \in W PROVE \E r \in W : store[r] = HighWater(W)
    OBVIOUS
  <2>1. store[q] > 0 /\ store[q] <= Max(T) /\ store[q] \in Nat
    BY <1>1, <1>2, <1>4
  <2>2. Max(T) # 0
    BY <1>5, <2>1
  <2>3. Max(T) \in Times(W)
    BY <1>2, <2>2 DEF T
  <2> QED BY <1>3, <2>3 DEF Times
<1>8. W = {} => HighWater(W) = 0
  BY <1>2, <1>3 DEF T, Times
<1> QED BY <1>3, <1>5, <1>6, <1>7, <1>8

\* A window ends on a whole timestamp group: what it leaves of its candidates
\* lies behind its high-water, and a complete one leaves nothing.
LEMMA LeftBehind ==
  ASSUME TypeInv, NEW o
  PROVE  /\ MappedRows(o) = Candidates(o) => WindowRows(o) = Candidates(o)
         /\ MappedRows(o) # Candidates(o) =>
              \A r \in Candidates(o) \ WindowRows(o) : store[r] > HighWater(WindowRows(o))
<1> DEFINE C == Candidates(o)
           M == MappedRows(o)
           W == WindowRows(o)
<1>1. W \subseteq M /\ M \subseteq C /\ C \subseteq Present
  BY RowsRead
<1>2. W = {r \in M : M = C \/ store[r] < Min(Times(C \ M))}
  BY DEF WindowRows, WholeGroups
<1> HIDE DEF C, M, W
<1>3. ASSUME M # C, NEW r \in C \ W PROVE store[r] > HighWater(W)
  <2> DEFINE T == Times(C \ M)
  <2>1. T \subseteq Nat /\ T # {}
    BY <1>1, <1>3, StoreFacts DEF Times
  <2>2. Min(T) \in T /\ \A t \in T : Min(T) <= t
    <3> HIDE DEF T
    <3> QED BY <2>1, MinNat
  <2>3. \A q \in C \ M : store[q] \in T
    BY DEF Times
  <2>4. Min(T) \in Nat
    BY <2>1, <2>2
  <2> HIDE DEF T
  <2>5. store[r] \in Nat /\ store[r] >= 1
    BY <1>1, <1>3, StoreFacts
  <2>6. store[r] >= Min(T)
    <3>1. CASE r \in M
      BY <1>2, <1>3, <2>4, <2>5, <3>1 DEF T
    <3>2. CASE r \notin M
      BY <1>3, <2>2, <2>3, <3>2
    <3> QED BY <3>1, <3>2
  <2>7. CASE W = {}
    BY <1>1, <2>5, <2>7, HighWaterFacts
  <2>8. CASE W # {}
    <3>1. PICK q \in W : store[q] = HighWater(W)
      BY <1>1, <2>8, HighWaterFacts
    <3>2. store[q] < Min(T) /\ store[q] \in Nat
      BY <1>1, <1>2, <1>3, StoreFacts DEF T
    <3> QED BY <2>4, <2>5, <2>6, <3>1, <3>2
  <2> QED BY <2>7, <2>8
<1>4. M = C => W = C
  BY <1>2
<1> QED BY <1>3, <1>4 DEF C, M, W

\* A read that has a candidate maps at least the first one.
LEMMA FirstIsMapped ==
  ASSUME TypeInv, NEW o, Candidates(o) # {}
  PROVE  MappedRows(o) # {}
<1> DEFINE C == Candidates(o)
           S == Selected(o, C)
<1>1. C \in SUBSET Rows /\ C # {} /\ S \subseteq C
  BY RowsRead, StoreFacts
<1>2. PICK r \in C : UpTo(C, r) = {r}
  <2> HIDE DEF C
  <2> QED BY <1>1, FirstRow
<1>3. Cardinality({r}) <= ResumeLimit
  <2>1. ResumeLimit \in Nat /\ ResumeLimit # 0
    BY LimitAssumption
  <2> QED BY <2>1, FS_Singleton
<1>4. r \in S
  <2> HIDE DEF C
  <2> QED BY <1>2, <1>3 DEF Selected
<1>5. UpTo(S, r) = {r}
  <2> HIDE DEF C, S
  <2> QED BY <1>1, <1>2, <1>4 DEF UpTo
<1>6. r \in Mapped(o, S)
  <2> HIDE DEF C, S
  <2> QED BY <1>4, <1>5 DEF Mapped
<1> QED BY <1>6 DEF MappedRows

LEMMA WindowBytesBound ==
  ASSUME NEW o \in ReadOptionSet
  PROVE  WindowBytes(o) <= Budget /\ WindowBytes(o) \in Nat /\ Budget \in Nat /\ Budget >= 1
<1>1. o.bytes \in Int /\ Budget \in Int /\ o.bytes >= 0 /\ Budget >= 1
  BY LimitAssumption DEF ReadOptionSet, Targets
<1> QED BY <1>1, MinPair DEF WindowBytes

\* What a window retains fits the budget.
LEMMA RetainedBound ==
  ASSUME TypeInv, NEW o \in ReadOptionSet
  PROVE  Retained(Selected(o, Candidates(o)), WindowRows(o)) \in 0..Budget
<1> DEFINE S == Selected(o, Candidates(o))
           M == Mapped(o, S)
           W == WindowRows(o)
           P == {r \in W \ Oversized(S) : Bytes[r] > 0}
<1>1. W \subseteq M /\ M \subseteq S /\ S \subseteq Rows
  BY RowsRead, StoreFacts DEF MappedRows
<1> HIDE DEF S, W
<1>2. Bytes \in [Rows -> Nat] /\ Budget \in Nat /\ WindowBytes(o) <= Budget /\ WindowBytes(o) \in Nat
  BY SizeAssumption, WindowBytesBound
<1>3. Retained(S, W) \in Nat
  BY <1>1, <1>2, BytesFinite DEF Retained
<1>4. CASE P = {}
  <2>1. BytesOf(Bytes, W \ Oversized(S)) = {}
    <3> SUFFICES ASSUME NEW r \in W \ Oversized(S), NEW i \in 1..Bytes[r]
                 PROVE  FALSE
      BY DEF BytesOf
    <3>1. Bytes[r] > 0
      BY <1>1, <1>2
    <3> QED BY <1>4, <3>1
  <2>2. Retained(S, W) = 0
    BY <2>1, FS_EmptySet DEF Retained, TotalBytes
  <2> QED BY <1>2, <2>2 DEF S, W
<1>5. CASE P # {}
  <2>1. P \in SUBSET Rows
    BY <1>1
  <2>2. PICK m \in P : P \subseteq UpTo(P, m)
    <3> HIDE DEF P
    <3> QED BY <1>5, <2>1, LastRow
  <2>3. m \in M /\ m \in S /\ m \in Rows /\ Bytes[m] > 0 /\ m \notin Oversized(S)
    BY <1>1
  <2>4. P \subseteq UpTo(S, m) /\ UpTo(S, m) \subseteq S
    BY <1>1, <2>2 DEF UpTo
  <2>5. Retained(S, W) <= Retained(S, UpTo(S, m))
    <3> DEFINE X == W \ Oversized(S)
               Y == UpTo(S, m) \ Oversized(S)
    <3>1. X \in SUBSET Rows /\ Y \in SUBSET Rows /\ \A r \in X : Bytes[r] > 0 => r \in Y
      BY <1>1, <2>4
    <3> HIDE DEF X, Y
    <3>2. TotalBytes(Bytes, X) <= TotalBytes(Bytes, Y)
      BY <1>2, <3>1, BytesGrow
    <3> QED BY <3>2 DEF Retained, X, Y
  <2>6. Retained(S, UpTo(S, m)) \in Nat
    <3>1. UpTo(S, m) \ Oversized(S) \in SUBSET Rows
      BY <1>1, <2>4
    <3> QED BY <1>2, <3>1, BytesFinite DEF Retained
  <2>7. \/ UpTo(S, m) = {m}
        \/ Retained(S, UpTo(S, m)) <= WindowBytes(o)
        \/ Retained(S, UpTo(S, m)) <= Budget
    <3>1. m \in UpTo(S, m)
      BY <2>3, StoreFacts DEF UpTo
    <3>2. m \notin Rejected
      BY <1>2, <2>3, RejectedAssumption
    <3> QED BY <1>2, <2>3, <2>6, <3>1, <3>2 DEF Mapped
  <2>8. CASE UpTo(S, m) = {m}
    <3>1. Bytes[m] <= Budget
      BY <1>2, <2>3, <2>8 DEF Oversized
    <3>2. UpTo(S, m) \ Oversized(S) = {m}
      BY <2>3, <2>8
    <3>3. Retained(S, UpTo(S, m)) = Bytes[m]
      BY <1>2, <2>3, <3>2, BytesOfOne DEF Retained
    <3> QED BY <1>2, <1>3, <2>3, <2>5, <3>1, <3>3 DEF S, W
  <2>9. CASE UpTo(S, m) # {m}
    BY <1>2, <1>3, <2>5, <2>6, <2>7, <2>9 DEF S, W
  <2> QED BY <2>8, <2>9
<1> QED BY <1>4, <1>5 DEF S, W

LEMMA OverlapBound ==
  ASSUME TypeInv, NEW S, NEW W \in SUBSET Present
  PROVE  OverlapFrom(S, W) \in 0..HighWater(W)
<1> DEFINE Tail(t) == {r \in W : store[r] >= t}
           Half == {t \in Times(W) : /\ 2 * Retained(S, Tail(t)) <= Retained(S, W)
                                     /\ 2 * Cardinality(Tail(t)) <= Cardinality(W)}
<1>1. OverlapFrom(S, W) = IF Half = {} THEN 0 ELSE Min(Half)
  BY DEF OverlapFrom
<1>2. Half \subseteq Times(W)
  OBVIOUS
<1> HIDE DEF Half
<1>3. Times(W) \subseteq 0..HighWater(W) /\ HighWater(W) \in Nat
  BY HighWaterFacts, StoreFacts DEF Times
<1>4. Half # {} => Min(Half) \in Half
  BY <1>2, <1>3, MinNat
<1> QED BY <1>1, <1>2, <1>3, <1>4

-----------------------------------------------------------------------------
(* Type correctness.                                                       *)

LEMMA ConstantTypes ==
  /\ Overlap \in Nat /\ DrainOverlap \in Nat /\ MaxLag \in Nat /\ MaxTime \in Nat
  /\ Budget \in Nat /\ Budget >= 1 /\ GrowthAfter \in Nat /\ MaxWindows \in Nat
  /\ StartTime \in Nat /\ StartTime >= 1 /\ StartTime <= MaxTime
  /\ 0 \in Targets /\ Targets \subseteq Nat
BY TimeAssumption, LimitAssumption DEF Targets

LEMMA ContinueTypes ==
  ASSUME NEW o \in ReadOptionSet, NEW cut \in Nat, NEW b \in Targets
  PROVE  /\ ContinueAfter(o, cut) \in ReadOptionSet
         /\ [ContinueAfter(o, cut) EXCEPT !.bytes = b] \in ReadOptionSet
<1>1. o.floor \in Nat /\ o.bytes \in Targets
  BY DEF ReadOptionSet
<1>2. Max2(o.floor, cut) \in Nat /\ cut + 1 \in Nat
  BY <1>1 DEF Max2
<1>3. ContinueAfter(o, cut) \in ReadOptionSet
  BY <1>1, <1>2 DEF ContinueAfter, Options, ReadOptionSet, ReadKinds
<1> QED BY <1>3 DEF ReadOptionSet

LEMMA OptionTypes ==
  ASSUME TypeInv
  PROVE  /\ Bootstrap \in ReadOptionSet /\ History \in ReadOptionSet
         /\ ReadOptions(pos) \in ReadOptionSet
<1>1. Bootstrap \in ReadOptionSet /\ History \in ReadOptionSet
  BY ConstantTypes DEF Bootstrap, History, Options, ReadOptionSet, ReadKinds
<1>2. pos.last \in Nat /\ pos.cut \in Nat
  BY DEF TypeInv, StoreTypes, ScanTypes
<1>3. ResumeAfter(pos.last) \in ReadOptionSet
  BY <1>2, ConstantTypes DEF ResumeAfter, Options, Max2, ReadOptionSet, ReadKinds
<1> QED BY <1>1, <1>2, <1>3, ContinueTypes, ConstantTypes DEF ReadOptions

Windows(n) ==
  [rows : SUBSET Rows, plain : SUBSET Rows, unsampled : SUBSET Rows,
   retained : 0..Budget, high : 0..n, complete : BOOLEAN, from : 0..n]
Drains(n) ==
  [high : 0..n, complete : BOOLEAN, windows : Nat, failed : BOOLEAN,
   from : 0..n, bytes : Targets, fitted : Nat]

LEMMA EmptyTypes ==
  ASSUME NEW n \in Nat
  PROVE  NoWindow \in Windows(n) /\ NoDrain \in Drains(n) /\ NoPosition \in [last : 0..n, cut : 0..n]
BY ConstantTypes DEF NoWindow, NoDrain, NoPosition, Windows, Drains

LEMMA WindowTyped ==
  ASSUME TypeInv, NEW o \in ReadOptionSet
  PROVE  /\ WindowOf(o) \in Windows(now)
         /\ WindowOf(o).from <= WindowOf(o).high
         /\ WindowOf(o).plain \subseteq WindowOf(o).rows
         /\ WindowOf(o).rows \cup WindowOf(o).unsampled \subseteq Present
<1> DEFINE C == Candidates(o)
           S == Selected(o, C)
           M == MappedRows(o)
           W == WindowRows(o)
<1>1. W \subseteq M /\ M \subseteq C /\ C \subseteq Present /\ Present \subseteq Rows
  BY RowsRead, StoreFacts
<1>2. Retained(S, W) \in 0..Budget
  BY RetainedBound
<1>3. HighWater(W) \in 0..now
  BY <1>1, HighWaterFacts
<1>4. OverlapFrom(S, W) \in 0..HighWater(W)
  BY <1>1, OverlapBound
<1>5. WindowOf(o) = Acquired(o, C, S, M, W)
  BY DEF WindowOf
<1> HIDE DEF C, S, M, W
<1>6. now \in Nat
  BY StoreFacts
<1> DEFINE w == Acquired(o, C, S, M, W)
<1>7. /\ w.rows = W /\ w.plain \subseteq W /\ w.unsampled \subseteq Present
      /\ w.retained = Retained(S, W) /\ w.high = HighWater(W)
      /\ w.complete \in BOOLEAN /\ w.from \in {0, OverlapFrom(S, W)}
  BY DEF Acquired
<1>8. w = [rows |-> w.rows, plain |-> w.plain, unsampled |-> w.unsampled,
           retained |-> w.retained, high |-> w.high, complete |-> w.complete, from |-> w.from]
  BY DEF Acquired
<1>9. w.from \in 0..now /\ w.from <= w.high
  BY <1>3, <1>4, <1>6, <1>7
<1> HIDE DEF w
<1>10. w \in Windows(now)
  BY <1>1, <1>2, <1>3, <1>7, <1>8, <1>9 DEF Windows
<1> QED BY <1>1, <1>5, <1>7, <1>9, <1>10 DEF w

\* A scan that ends, and one whose window fails.
LEMMA EndTypes ==
  ASSUME TypeInv, EndScan, UNCHANGED <<now, store>>, pos' \in [last : 0..now, cut : 0..now],
         owed' \subseteq Present
  PROVE  TypeInv'
<1>1. now \in Nat
  BY StoreFacts
<1>2. Present' = Present
  BY DEF Present
<1>3. NoWindow \in Windows(now) /\ NoDrain \in Drains(now)
  BY <1>1, EmptyTypes
<1>4. StoreTypes'
  BY DEF TypeInv, StoreTypes
<1>5. ScanTypes'
  BY <1>3, OptionTypes DEF EndScan, ScanTypes, Phases, Drains
<1>6. WindowTypes' /\ HeldPresent'
  BY <1>2, <1>3 DEF EndScan, WindowTypes, HeldPresent, Windows, NoWindow, NoDrain
<1> QED BY <1>4, <1>5, <1>6 DEF TypeInv

LEMMA StrictTypes ==
  ASSUME TypeInv
  PROVE  [ContinueAfter(base, drain.high) EXCEPT !.bytes = drain.bytes] \in ReadOptionSet
BY ContinueTypes DEF TypeInv, StoreTypes, ScanTypes

LEMMA FailTypes ==
  ASSUME TypeInv, ReadStrictly \/ WindowFails,
         UNCHANGED <<now, store, owed, pos, mode, base, due>>
  PROVE  TypeInv'
<1>1. now \in Nat /\ Present' = Present
  BY StoreFacts DEF Present
<1>2. NoWindow \in Windows(now)
  BY <1>1, EmptyTypes
<1>3. EndSearch /\ pc' \in {"read", "staged"} /\ seen' = seen
  BY DEF WindowFails, ReadStrictly
<1>4. read' \in ReadOptionSet
  BY StrictTypes DEF WindowFails, ReadStrictly, TypeInv, ScanTypes
<1>5. drain' = drain \/ drain' = [drain EXCEPT !.failed = TRUE]
  BY DEF WindowFails, ReadStrictly
<1>6. drain' \in Drains(now) /\ drain'.from <= drain'.high
  BY <1>5 DEF TypeInv, ScanTypes, WindowTypes, Drains
<1>7. StoreTypes'
  BY DEF TypeInv, StoreTypes
<1>8. ScanTypes'
  BY <1>3, <1>4, <1>6 DEF TypeInv, ScanTypes, EndSearch, Phases, Drains
<1>9. WindowTypes' /\ HeldPresent'
  BY <1>1, <1>2, <1>3, <1>6 DEF TypeInv, EndSearch, WindowTypes, HeldPresent, Windows, NoWindow
<1> QED BY <1>7, <1>8, <1>9 DEF TypeInv

LEMMA NextReadTypes ==
  ASSUME TypeInv, NEW d \in Drains(now)
  PROVE  NextRead(d) \in ReadOptionSet
<1>1. d.high \in Nat /\ d.from \in Nat /\ d.bytes \in Targets /\ base \in ReadOptionSet
  BY DEF TypeInv, StoreTypes, ScanTypes, Drains
<1> DEFINE o == [ContinueAfter(base, d.high) EXCEPT !.bytes = d.bytes]
<1>2. o \in ReadOptionSet
  BY <1>1, ContinueTypes
<1>3. Max2(d.from, d.high - DrainOverlap) \in Nat
  BY <1>1, ConstantTypes DEF Max2
<1>4. NextRead(d) = IF d.from = 0 THEN o
                    ELSE [o EXCEPT !.kind = "overlapped",
                                   !.min = Max2(d.from, d.high - DrainOverlap)]
  BY DEF NextRead
<1> HIDE DEF o
<1> QED BY <1>2, <1>3, <1>4 DEF ReadOptionSet, ReadKinds

LEMMA ResizedTypes ==
  ASSUME TypeInv
  PROVE  Resized(read.bytes)[1] \in Targets /\ Resized(read.bytes)[2] \in Nat
BY ConstantTypes DEF Resized, TypeInv, ScanTypes, ReadOptionSet, Targets

LEMMA AcceptTypes ==
  ASSUME TypeInv, NEW rows \in SUBSET Present, Accept(rows),
         UNCHANGED <<now, store, owed, pos, mode, base, due>>
  PROVE  TypeInv'
<1>1. now \in Nat /\ Present' = Present
  BY StoreFacts DEF Present
<1>2. NoWindow \in Windows(now)
  BY <1>1, EmptyTypes
<1> DEFINE sized == Resized(read.bytes)
           d == [high |-> win.high, complete |-> win.complete, from |-> win.from,
                 windows |-> drain.windows + 1, failed |-> FALSE,
                 bytes |-> sized[1], fitted |-> sized[2]]
<1>3. d \in Drains(now) /\ d.from <= d.high
  BY ResizedTypes DEF TypeInv, ScanTypes, WindowTypes, Drains
<1>4. /\ drain' = d /\ seen' = seen \cup rows \cup win.unsampled
      /\ read' = IF Unfinished(d) THEN NextRead(d) ELSE read
      /\ pc' \in {"read", "staged"} /\ EndSearch
  BY DEF Accept
<1> HIDE DEF d
<1>5. read' \in ReadOptionSet
  BY <1>3, <1>4, NextReadTypes DEF TypeInv, ScanTypes
<1>6. StoreTypes'
  BY DEF TypeInv, StoreTypes
<1>7. ScanTypes'
  BY <1>3, <1>4, <1>5 DEF TypeInv, ScanTypes, EndSearch, Phases, Drains
<1>8. WindowTypes' /\ HeldPresent'
  BY <1>1, <1>2, <1>3, <1>4 DEF TypeInv, EndSearch, WindowTypes, HeldPresent, Windows, NoWindow
<1> QED BY <1>6, <1>7, <1>8 DEF TypeInv

LEMMA AcquireTypes ==
  ASSUME TypeInv, Acquire
  PROVE  TypeInv'
<1>1. UNCHANGED <<now, store, owed, pos, mode, base, due>>
  BY DEF Acquire, storeVars
<1>2. CASE WindowFails
  BY <1>1, <1>2, FailTypes
<1>3. CASE ~WindowFails
  <2>1. win' = WindowOf(read) /\ pc' = "evaluate" /\ UNCHANGED <<read, shrunk, units, drain, seen>>
    BY <1>3, ReadOnce DEF Acquire, WindowOf
  <2>2. Present' = Present
    BY <1>1 DEF Present
  <2>3. /\ win' \in Windows(now) /\ win'.from <= win'.high
        /\ win'.plain \subseteq win'.rows /\ win'.rows \cup win'.unsampled \subseteq Present
    BY <2>1, WindowTyped DEF TypeInv, ScanTypes
  <2>4. StoreTypes' /\ ScanTypes'
    BY <1>1, <2>1 DEF TypeInv, StoreTypes, ScanTypes, Phases
  <2>5. WindowTypes' /\ HeldPresent'
    BY <1>1, <2>1, <2>2, <2>3 DEF TypeInv, WindowTypes, HeldPresent, Windows
  <2> QED BY <2>4, <2>5 DEF TypeInv
<1> QED BY <1>2, <1>3

LEMMA EvaluateTypes ==
  ASSUME TypeInv, Evaluate
  PROVE  TypeInv'
<1>1. UNCHANGED <<now, store, owed, pos, mode, base, due>>
  BY DEF Evaluate, storeVars
<1> DEFINE rows == IF read.aside THEN units \cup win.plain ELSE win.rows
<1>2. rows \in SUBSET Present
  BY DEF TypeInv, WindowTypes, HeldPresent
<1>3. ReadStrictly \/ Accept(rows)
  BY DEF Evaluate
<1> QED BY <1>1, <1>2, <1>3, FailTypes, AcceptTypes

LEMMA OverCapacityTypes ==
  ASSUME TypeInv, OverCapacity
  PROVE  TypeInv'
<1>1. UNCHANGED <<now, store, owed, pos, mode, base, drain, seen, due>>
  BY DEF OverCapacity, storeVars
<1>2. now \in Nat /\ Present' = Present
  BY <1>1, StoreFacts DEF Present
<1>3. NoWindow \in Windows(now)
  BY <1>2, EmptyTypes
<1>4. win.retained \in Nat /\ win.retained <= Budget /\ read \in ReadOptionSet /\ shrunk \in Nat
  BY ConstantTypes DEF TypeInv, ScanTypes, WindowTypes
<1>5. win.retained > 1 => win.retained \div 2 \in Targets
  BY <1>4, ConstantTypes DEF Targets
<1>6. /\ shrunk' \in {shrunk, win.retained} /\ units' \in {units, win.rows \ win.plain}
      /\ \/ win.retained > 1 /\ read' = [read EXCEPT !.bytes = win.retained \div 2]
         \/ read' = [read EXCEPT !.aside = TRUE]
      /\ pc' = "read" /\ win' = NoWindow
  BY DEF OverCapacity
<1>7. read' \in ReadOptionSet
  BY <1>4, <1>5, <1>6 DEF ReadOptionSet
<1>8. StoreTypes' /\ ScanTypes'
  BY <1>1, <1>4, <1>6, <1>7 DEF TypeInv, StoreTypes, ScanTypes, Phases
<1>9. WindowTypes' /\ HeldPresent'
  BY <1>1, <1>2, <1>3, <1>6 DEF TypeInv, WindowTypes, HeldPresent, Windows, NoWindow
<1> QED BY <1>8, <1>9 DEF TypeInv

\* A changed row: only its own versions leave what a scan holds.
LEMMA ChangeTypes ==
  ASSUME TypeInv, NEW r \in Rows, Write(r) \/ Delete(r)
  PROVE  /\ TypeInv'
         /\ Present \ {r} \subseteq Present'
         /\ \A q \in Rows \ {r} : store'[q] = store[q]
<1>1. /\ UNCHANGED <<now, pos, pc, mode, base, read, shrunk, drain>>
      /\ Supersede(r)
  BY DEF Write, Delete
<1>2. PICK t \in 0..now : store' = [store EXCEPT ![r] = t] /\ owed' \subseteq owed \cup {r}
                          /\ (t = 0 => owed' = owed \ {r})
  <2>1. CASE Write(r)
    <3>1. PICK t \in Max2(now - MaxLag, 1)..now : store' = [store EXCEPT ![r] = t]
      BY <2>1 DEF Write
    <3>2. t \in 0..now /\ t # 0
      BY <3>1, StoreFacts, ConstantTypes DEF Max2
    <3> QED BY <2>1, <3>1, <3>2 DEF Write
  <2>2. CASE Delete(r)
    <3>1. 0 \in 0..now
      BY StoreFacts
    <3>2. store' = [store EXCEPT ![r] = 0] /\ owed' = owed \ {r}
      BY <2>2 DEF Delete
    <3> QED BY <3>1, <3>2
  <2> QED BY <2>1, <2>2
<1>3. \A q \in Rows \ {r} : store'[q] = store[q]
  BY <1>2 DEF TypeInv, StoreTypes
<1>4. store' \in [Rows -> 0..now] /\ store'[r] = t
  BY <1>2 DEF TypeInv, StoreTypes
<1>5. Present \ {r} \subseteq Present' /\ (t > 0 => r \in Present')
  BY <1>3, <1>4 DEF Present
<1>6. StoreTypes'
  BY <1>1, <1>4 DEF TypeInv, StoreTypes
<1>7. ScanTypes'
  BY <1>1 DEF TypeInv, ScanTypes
<1>8. /\ win'.rows = win.rows \ {r} /\ win'.plain = win.plain \ {r}
      /\ win'.unsampled = win.unsampled \ {r}
      /\ win'.retained = win.retained /\ win'.high = win.high
      /\ win'.complete = win.complete /\ win'.from = win.from
      /\ win' \in Windows(now)
  BY <1>1 DEF Supersede, TypeInv, WindowTypes, Windows
<1>9. WindowTypes'
  BY <1>1, <1>8 DEF TypeInv, WindowTypes, Windows
<1>10. owed' \subseteq Present'
  <2>1. CASE t = 0
    BY <1>2, <1>5, <2>1 DEF TypeInv, HeldPresent
  <2>2. CASE t # 0
    BY <1>2, <1>5, <2>2 DEF TypeInv, HeldPresent
  <2> QED BY <2>1, <2>2
<1>11. HeldPresent'
  BY <1>1, <1>5, <1>8, <1>10 DEF TypeInv, HeldPresent, Supersede
<1> QED BY <1>3, <1>5, <1>6, <1>7, <1>9, <1>11 DEF TypeInv

LEMMA StagedTypes ==
  ASSUME TypeInv
  PROVE  Staged \in [last : 0..now, cut : 0..now]
<1>1. /\ pos \in [last : 0..now, cut : 0..now] /\ drain.high \in 0..now /\ now \in Nat
  BY DEF TypeInv, StoreTypes, ScanTypes
<1>2. Candidate \in 0..now
  BY <1>1 DEF Candidate
<1>3. Max2(Candidate, pos.last) \in 0..now
  BY <1>1, <1>2 DEF Max2
<1> QED BY <1>1, <1>2, <1>3 DEF Staged

LEMMA TypeInit == Init => TypeInv
<1> SUFFICES ASSUME Init PROVE TypeInv
  OBVIOUS
<1>1. now = StartTime /\ now \in Nat /\ StoreTypes
  BY ConstantTypes DEF Init, StoreTypes
<1>2. NoWindow \in Windows(now) /\ NoDrain \in Drains(now)
      /\ NoPosition \in [last : 0..now, cut : 0..now]
  BY <1>1, EmptyTypes
<1>3. Bootstrap \in ReadOptionSet
  BY ConstantTypes DEF Bootstrap, Options, ReadOptionSet, ReadKinds
<1>4. ScanTypes
  BY <1>2, <1>3 DEF Init, Idle, ScanTypes, Phases, Drains
<1>5. WindowTypes /\ HeldPresent
  BY <1>2 DEF Init, Idle, WindowTypes, HeldPresent, Windows, NoWindow, NoDrain
<1> QED BY <1>1, <1>4, <1>5 DEF TypeInv

LEMMA TypeStep ==
  ASSUME TypeInv, [Next]_vars
  PROVE  TypeInv'
<1>1. CASE UNCHANGED vars
  BY <1>1 DEF vars, TypeInv, StoreTypes, ScanTypes, WindowTypes, HeldPresent, Present
<1>2. CASE Tick
  <2>1. /\ now' = now + 1 /\ now < MaxTime /\ now \in Nat /\ MaxTime \in Nat /\ StartTime \in Nat
        /\ UNCHANGED <<store, owed, pos, pc, mode, base, read, shrunk, win, units, drain, seen, due>>
    BY <1>2, StoreFacts, ConstantTypes DEF Tick
  <2>2. 0..now \subseteq 0..now'
    BY <2>1
  <2>3. Present' = Present
    BY <2>1 DEF Present
  <2>4. StoreTypes'
    BY <2>1, <2>2 DEF TypeInv, StoreTypes
  <2>5. ScanTypes'
    BY <2>1, <2>2 DEF TypeInv, ScanTypes
  <2>6. WindowTypes' /\ HeldPresent'
    BY <2>1, <2>2, <2>3 DEF TypeInv, WindowTypes, HeldPresent
  <2> QED BY <2>4, <2>5, <2>6 DEF TypeInv
<1>3. ASSUME NEW r \in Rows, Write(r) \/ Delete(r) PROVE TypeInv'
  BY <1>3, ChangeTypes
<1>4. CASE StartScan \/ StartHistory
  <2>1. /\ UNCHANGED <<now, store, owed, pos, shrunk, win, units, drain, seen>>
        /\ pc' = "read" /\ mode' \in {"scan", "history"}
        /\ base' \in {ReadOptions(pos), History} /\ read' = base' /\ due' \in {Present, {}}
    BY <1>4 DEF StartScan, StartHistory, Begin, storeVars
  <2>2. Present' = Present
    BY <2>1 DEF Present
  <2>3. StoreTypes' /\ ScanTypes'
    BY <2>1, OptionTypes DEF TypeInv, StoreTypes, ScanTypes, Phases
  <2>4. WindowTypes' /\ HeldPresent'
    BY <2>1, <2>2 DEF TypeInv, WindowTypes, HeldPresent
  <2> QED BY <2>3, <2>4 DEF TypeInv
<1>5. CASE Acquire
  BY <1>5, AcquireTypes
<1>6. CASE Evaluate
  BY <1>6, EvaluateTypes
<1>7. CASE OverCapacity
  BY <1>7, OverCapacityTypes
<1>8. CASE ReadFails
  BY <1>8, FailTypes DEF ReadFails, storeVars
<1>9. CASE Persist
  <2>1. /\ UNCHANGED <<now, store, pos, mode, base, read, shrunk, win, units, drain, seen, due>>
        /\ owed' = owed \ seen /\ pc' = "persisted"
    BY <1>9 DEF Persist, storeVars
  <2> QED BY <2>1 DEF TypeInv, StoreTypes, ScanTypes, WindowTypes, HeldPresent, Present, Phases
<1>10. CASE Install
  BY <1>10, EndTypes, StagedTypes DEF Install, storeVars, TypeInv, HeldPresent
<1>11. CASE EndHistory \/ Abandon
  BY <1>11, EndTypes DEF EndHistory, Abandon, storeVars, TypeInv, HeldPresent, ScanTypes
<1> QED BY <1>1, <1>2, <1>3, <1>4, <1>5, <1>6, <1>7, <1>8, <1>9, <1>10, <1>11 DEF Next

\* Whatever OpenCode writes and wherever a scan fails, what a scan holds are
\* present row versions, its times lie on the clock, and no window retains
\* more than the budget, so a reduced target stays under it: for any rows,
\* sizes, limits and overlaps.
THEOREM TypeCorrect == Spec => []TypeOK
<1>1. TypeInv => TypeOK
  <2> SUFFICES ASSUME TypeInv PROVE TypeOK
    OBVIOUS
  <2>1. 0..now \subseteq 0..MaxTime
    BY ConstantTypes DEF TypeInv, StoreTypes
  <2>2. now \in StartTime..MaxTime /\ store \in [Rows -> 0..MaxTime]
    BY <2>1, ConstantTypes DEF TypeInv, StoreTypes
  <2>3. {win.high, win.from, drain.high, drain.from} \subseteq 0..now
    BY DEF TypeInv, ScanTypes, WindowTypes
  <2>4. read.bytes \in 0..(Budget - 1) /\ shrunk \in Nat
    BY DEF TypeInv, ScanTypes, ReadOptionSet, Targets
  <2> QED BY <2>2, <2>3, <2>4 DEF TypeOK, TypeInv, ScanTypes, HeldPresent, Phases
<1> QED BY <1>1, TypeInit, TypeStep, PTL DEF Spec

-----------------------------------------------------------------------------
(* Where a scan's reads begin, and that no drain repeats itself.           *)

ReadInv ==
  /\ pc # "idle" => base = IF mode = "scan" THEN ReadOptions(pos) ELSE History
  /\ pc \in {"read", "evaluate"} =>
       IF drain.windows = 0
       THEN read.kind = base.kind /\ read.min = base.min
       ELSE /\ ~drain.complete
            /\ \/ read.kind = "strict" /\ read.min = drain.high + 1
               \/ read.kind = "overlapped" /\ read.min <= drain.high
  /\ pc \in {"staged", "persisted"} /\ drain.windows = 0 => drain.failed
  /\ pc = "persisted" => mode = "scan"
  /\ pc = "idle" => drain = NoDrain

LEMMA FirstKinds ==
  ASSUME TypeInv, ReadInv, pc # "idle"
  PROVE  base.kind # "overlapped"
BY DEF ReadInv, ReadOptions, Bootstrap, ResumeAfter, ContinueAfter, History, Options

LEMMA ContinueFrom ==
  ASSUME TypeInv, NEW d \in Drains(now)
  PROVE  LET o == [ContinueAfter(base, d.high) EXCEPT !.bytes = d.bytes]
         IN  /\ o.kind = "strict" /\ o.min = d.high + 1 /\ ~o.aside
             /\ d.from = 0 => NextRead(d) = o
             /\ d.from # 0 /\ d.from <= d.high =>
                  /\ NextRead(d).kind = "overlapped" /\ NextRead(d).min <= d.high
                  /\ ~NextRead(d).aside
<1> DEFINE o == [ContinueAfter(base, d.high) EXCEPT !.bytes = d.bytes]
           m == Max2(d.from, d.high - DrainOverlap)
<1>1. o.kind = "strict" /\ o.min = d.high + 1 /\ ~o.aside
  BY DEF ContinueAfter, Options
<1>2. NextRead(d) = IF d.from = 0 THEN o ELSE [o EXCEPT !.kind = "overlapped", !.min = m]
  BY DEF NextRead
<1>3. d.high \in Nat /\ d.from \in Nat
  BY StoreFacts DEF Drains
<1>4. d.from <= d.high => m <= d.high
  BY <1>3, ConstantTypes DEF Max2
<1>5. o \in ReadOptionSet
  BY <1>3, ContinueTypes DEF TypeInv, ScanTypes, Drains
<1> HIDE DEF m
<1>6. d.from # 0 => NextRead(d).kind = "overlapped" /\ NextRead(d).min = m /\ NextRead(d).aside = o.aside
  <2> HIDE DEF o
  <2> QED BY <1>2, <1>5 DEF ReadOptionSet
<1> QED BY <1>1, <1>2, <1>4, <1>6

LEMMA ReadFailKeeps ==
  ASSUME TypeInv, ReadInv, pc \in {"read", "evaluate"}, WindowFails,
         UNCHANGED <<pos, mode, base>>
  PROVE  ReadInv' /\ (pc' = "read" => ~read'.aside)
<1>1. CASE read.kind = "overlapped"
  <2>1. drain.windows # 0
    BY <1>1, FirstKinds DEF ReadInv
  <2>2. drain \in Drains(now)
    BY DEF TypeInv, ScanTypes, Drains
  <2>3. /\ read'.kind = "strict" /\ read'.min = drain.high + 1 /\ ~read'.aside
        /\ pc' = "read" /\ drain' = drain
    BY <1>1, <2>2, ContinueFrom DEF WindowFails, ReadStrictly
  <2> QED BY <2>1, <2>3 DEF ReadInv, ReadOptions
<1>2. CASE read.kind # "overlapped"
  <2>1. pc' = "staged" /\ drain' = [drain EXCEPT !.failed = TRUE] /\ drain'.failed
    BY <1>2 DEF WindowFails, TypeInv, ScanTypes
  <2> QED BY <2>1 DEF ReadInv, ReadOptions
<1> QED BY <1>1, <1>2

LEMMA ReadStep ==
  ASSUME TypeInv, ReadInv, [Next]_vars
  PROVE  ReadInv'
<1>1. CASE UNCHANGED <<pc, mode, base, read, pos, drain>>
  BY <1>1 DEF ReadInv, ReadOptions
<1>2. CASE StartScan \/ StartHistory
  <2>1. /\ pc = "idle" /\ pc' = "read" /\ base' = read' /\ UNCHANGED <<pos, drain>>
        /\ base' = IF mode' = "scan" THEN ReadOptions(pos) ELSE History
    BY <1>2 DEF StartScan, StartHistory, Begin
  <2> QED BY <2>1 DEF ReadInv, ReadOptions, NoDrain
<1>3. CASE Acquire
  <2>1. CASE WindowFails
    BY <1>3, <2>1, ReadFailKeeps DEF Acquire
  <2>2. CASE ~WindowFails
    BY <1>3, <2>2 DEF Acquire, ReadInv, ReadOptions
  <2> QED BY <2>1, <2>2
<1>4. CASE Evaluate
  <2>1. UNCHANGED <<pos, mode, base>> /\ pc = "evaluate"
    BY <1>4 DEF Evaluate
  <2>2. CASE read.kind = "overlapped" /\ ~Advances
    <3>1. WindowFails
      BY <1>4, <2>2 DEF Evaluate, WindowFails
    <3> QED BY <2>1, <3>1, ReadFailKeeps
  <2>3. CASE ~(read.kind = "overlapped" /\ ~Advances)
    <3> DEFINE sized == Resized(read.bytes)
               d == [high |-> win.high, complete |-> win.complete, from |-> win.from,
                     windows |-> drain.windows + 1, failed |-> FALSE,
                     bytes |-> sized[1], fitted |-> sized[2]]
    <3>1. d \in Drains(now) /\ d.from <= d.high
      BY ResizedTypes DEF TypeInv, ScanTypes, WindowTypes, Drains
    <3>2. d.windows # 0
      BY DEF TypeInv, ScanTypes
    <3>3. /\ drain' = d
          /\ read' = IF Unfinished(d) THEN NextRead(d) ELSE read
          /\ pc' = IF Unfinished(d) THEN "read" ELSE "staged"
      BY <1>4, <2>3 DEF Evaluate, Accept
    <3> HIDE DEF d
    <3>4. CASE Unfinished(d)
      <4>1. ~d.complete
        BY <3>4 DEF Unfinished
      <4>2. \/ read'.kind = "strict" /\ read'.min = d.high + 1
            \/ read'.kind = "overlapped" /\ read'.min <= d.high
        BY <3>1, <3>3, <3>4, ContinueFrom
      <4> QED BY <2>1, <3>2, <3>3, <3>4, <4>1, <4>2 DEF ReadInv, ReadOptions
    <3>5. CASE ~Unfinished(d)
      BY <2>1, <3>2, <3>3, <3>5 DEF ReadInv, ReadOptions
    <3> QED BY <3>4, <3>5
  <2> QED BY <2>2, <2>3
<1>5. CASE OverCapacity
  <2>1. /\ UNCHANGED <<pos, mode, base, drain>> /\ pc = "evaluate" /\ pc' = "read"
        /\ read'.kind = read.kind /\ read'.min = read.min
    BY <1>5 DEF OverCapacity, TypeInv, ScanTypes, ReadOptionSet
  <2> QED BY <2>1 DEF ReadInv, ReadOptions
<1>6. CASE ReadFails
  BY <1>6, ReadFailKeeps DEF ReadFails
<1>7. CASE Persist
  BY <1>7 DEF Persist, ReadInv, ReadOptions
<1>8. CASE Install \/ EndHistory \/ Abandon
  BY <1>8 DEF Install, EndHistory, Abandon, EndScan, ReadInv
<1> QED BY <1>1, <1>2, <1>3, <1>4, <1>5, <1>6, <1>7, <1>8 DEF Next, Tick, Write, Delete, vars

\* The window under evaluation, as far as its progress goes.  A changed row
\* leaves the window; what the window reached stays.
ProgressInv ==
  pc = "evaluate" /\ read.kind = "strict" => win.complete \/ win.high >= read.min

LEMMA ReadProgress ==
  ASSUME TypeInv, NEW o \in ReadOptionSet, o.kind # "bootstrap", ~LimitExceeded(o)
  PROVE  WindowOf(o).complete \/ WindowOf(o).high >= o.min
<1> DEFINE C == Candidates(o)
           M == MappedRows(o)
           W == WindowRows(o)
<1>1. WindowOf(o).complete = (M = C) /\ WindowOf(o).high = HighWater(W)
  BY DEF WindowOf, Acquired
<1>2. W \subseteq M /\ M \subseteq C /\ C \subseteq Present
  BY RowsRead
<1>3. \A r \in C : store[r] >= o.min
  BY DEF Candidates
<1>4. M # C => W # {}
  <2> SUFFICES ASSUME M # C PROVE W # {}
    OBVIOUS
  <2>1. C # {}
    BY <1>2
  <2>2. M # {}
    BY <2>1, FirstIsMapped
  <2> QED BY <2>2, LimitMeans
<1> HIDE DEF C, M, W
<1>5. M # C => \E r \in W : store[r] = HighWater(W)
  BY <1>2, <1>4, HighWaterFacts
<1> QED BY <1>1, <1>2, <1>3, <1>5

LEMMA ProgressStep ==
  ASSUME TypeInv, ProgressInv, [Next]_vars
  PROVE  ProgressInv'
<1>1. CASE UNCHANGED <<pc, read, win>>
  BY <1>1 DEF ProgressInv
<1>2. ASSUME NEW r \in Rows, Write(r) \/ Delete(r) PROVE ProgressInv'
  <2>1. UNCHANGED <<pc, read>> /\ win'.high = win.high /\ win'.complete = win.complete
    BY <1>2 DEF Write, Delete, Supersede, TypeInv, WindowTypes
  <2> QED BY <2>1 DEF ProgressInv
<1>3. CASE Acquire
  <2>1. CASE WindowFails
    BY <2>1 DEF WindowFails, ReadStrictly, ProgressInv
  <2>2. CASE ~WindowFails
    <3>1. win' = WindowOf(read) /\ read' = read /\ ~LimitExceeded(read)
      BY <1>3, <2>2, ReadOnce DEF Acquire, WindowOf
    <3> QED BY <3>1, ReadProgress DEF ProgressInv, TypeInv, ScanTypes
  <2> QED BY <2>1, <2>2
<1>4. CASE pc' # "evaluate"
  BY <1>4 DEF ProgressInv
<1> QED BY <1>1, <1>2, <1>3, <1>4 DEF Next, Tick, StartScan, StartHistory, Begin, Evaluate,
        Accept, ReadStrictly, OverCapacity, ReadFails, WindowFails, Persist, Install, EndHistory,
        Abandon, EndScan, vars

\* Every further window of a drain completes it or ends later than the one
\* before, whatever OpenCode does in between: for any rows, sizes and limits.
THEOREM NoDrainRepeats == Spec => DrainAdvances
<1>1. Init => ReadInv /\ ProgressInv
  BY DEF Init, Idle, ReadInv, ProgressInv
<1>2. ASSUME TypeInv, ReadInv, ProgressInv, [Next]_vars
      PROVE  [drain'.windows > drain.windows /\ drain.windows > 0
                => drain'.complete \/ drain'.high > drain.high]_vars
  <2>1. CASE Evaluate /\ ~(read.kind = "overlapped" /\ ~Advances)
    <3>1. drain'.high = win.high /\ drain'.complete = win.complete /\ pc = "evaluate"
      BY <2>1 DEF Evaluate, Accept
    <3>2. SUFFICES ASSUME drain.windows > 0 PROVE win.complete \/ win.high > drain.high
      BY <3>1
    <3>3. CASE read.kind = "overlapped"
      BY <2>1, <3>3 DEF Advances
    <3>4. CASE read.kind # "overlapped"
      <4>1. read.kind = "strict" /\ read.min = drain.high + 1
        BY <1>2, <3>1, <3>2, <3>4 DEF ReadInv, TypeInv, ScanTypes
      <4>2. win.complete \/ win.high >= drain.high + 1
        BY <1>2, <3>1, <4>1 DEF ProgressInv
      <4>3. win.high \in Nat /\ drain.high \in Nat
        BY <1>2 DEF TypeInv, StoreTypes, ScanTypes, WindowTypes
      <4> QED BY <4>2, <4>3
    <3> QED BY <3>3, <3>4
  <2>2. CASE drain'.windows = drain.windows
    BY <1>2, <2>2 DEF TypeInv, ScanTypes
  <2>3. CASE EndScan
    <3>1. drain'.windows = 0
      BY <2>3 DEF EndScan, NoDrain
    <3> QED BY <1>2, <3>1 DEF TypeInv, ScanTypes
  <2>4. CASE Evaluate /\ read.kind = "overlapped" /\ ~Advances
    <3>1. drain' = drain
      BY <2>4 DEF Evaluate, ReadStrictly
    <3> QED BY <2>2, <3>1
  <2>5. WindowFails => drain'.windows = drain.windows
    BY <1>2 DEF WindowFails, ReadStrictly, TypeInv, ScanTypes
  <2>6. Acquire => drain'.windows = drain.windows
    BY <2>5 DEF Acquire
  <2>7. ReadFails => drain'.windows = drain.windows
    BY <2>5 DEF ReadFails
  <2> QED BY <1>2, <2>1, <2>2, <2>3, <2>4, <2>6, <2>7 DEF Next, Tick, Write, Delete, StartScan,
          StartHistory, Begin, OverCapacity, Persist, Install, EndHistory, Abandon, vars
<1> QED BY <1>1, <1>2, TypeInit, TypeStep, ReadStep, ProgressStep, PTL DEF Spec, DrainAdvances

-----------------------------------------------------------------------------
(* The window under evaluation is the one the store holds, and the rows    *)
(* set aside are its rows, as long as the store rests between the two      *)
(* reads of a quarantine.                                                  *)

WindowInv ==
  /\ pc = "evaluate" => win = WindowOf(read)
  /\ pc = "evaluate" /\ read.aside => units = win.rows \ win.plain
  /\ pc = "read" /\ read.aside => units = WindowOf(read).rows \ WindowOf(read).plain

\* The same read of the same store returns the same window, set aside or not.
LEMMA StoreRests ==
  ASSUME store' = store, read'.kind = read.kind, read'.min = read.min, read'.bytes = read.bytes
  PROVE  WindowOf(read)' = WindowOf(read)
<1>1. Candidates(read)' = Candidates(read)
  BY DEF Candidates, UpTo, Present
<1>2. Selected(read, Candidates(read))' = Selected(read, Candidates(read))
  BY <1>1 DEF Selected, UpTo, Times, StoredBytes, TotalBytes, BytesOf, WindowBytes
<1>3. MappedRows(read)' = MappedRows(read)
  BY <1>2 DEF MappedRows, Mapped, UpTo, Times, Retained, Oversized, TotalBytes, BytesOf, WindowBytes
<1>4. WindowRows(read)' = WindowRows(read)
  BY <1>1, <1>3 DEF WindowRows, WholeGroups, Times
<1> QED BY <1>1, <1>2, <1>3, <1>4 DEF WindowOf, Acquired, Retained, Oversized, TotalBytes,
        BytesOf, UpTo, OverlapFrom, HighWater, Times, Present

LEMMA WindowStep ==
  ASSUME ~ChangeInReread, TypeInv, ReadInv, WindowInv, [Next]_vars
  PROVE  WindowInv'
<1>1. CASE UNCHANGED <<pc, read, win, units, store>>
  BY <1>1, StoreRests DEF WindowInv
<1>2. CASE \E r \in Rows : Write(r) \/ Delete(r)
  BY <1>2 DEF Write, Delete, MayChange, Rereading, WindowInv
<1>3. CASE StartScan \/ StartHistory
  <2>1. ~read'.aside /\ pc' = "read"
    BY <1>3 DEF StartScan, StartHistory, Begin, ReadOptions, History, Bootstrap, ResumeAfter,
       ContinueAfter, Options
  <2> QED BY <2>1 DEF WindowInv
<1>4. CASE Acquire
  <2>1. store' = store /\ pc = "read"
    BY <1>4 DEF Acquire, storeVars
  <2>2. CASE WindowFails
    BY <1>4, <2>1, <2>2, ReadFailKeeps DEF Acquire, WindowInv, WindowFails, ReadStrictly
  <2>3. CASE ~WindowFails
    <3>1. win' = WindowOf(read) /\ UNCHANGED <<read, units>> /\ pc' = "evaluate"
      BY <1>4, <2>3, ReadOnce DEF Acquire, WindowOf
    <3> QED BY <2>1, <3>1, StoreRests DEF WindowInv
  <2> QED BY <2>2, <2>3
<1>5. CASE Evaluate
  <2>1. CASE read.kind = "overlapped" /\ ~Advances
    <3>1. WindowFails /\ pc = "evaluate" /\ pc' = "read" /\ UNCHANGED <<pos, mode, base>>
      BY <1>5, <2>1 DEF Evaluate, WindowFails, ReadStrictly
    <3> QED BY <3>1, ReadFailKeeps DEF WindowInv
  <2>2. CASE ~(read.kind = "overlapped" /\ ~Advances)
    <3> DEFINE sized == Resized(read.bytes)
               d == [high |-> win.high, complete |-> win.complete, from |-> win.from,
                     windows |-> drain.windows + 1, failed |-> FALSE,
                     bytes |-> sized[1], fitted |-> sized[2]]
    <3>1. d \in Drains(now) /\ d.from <= d.high
      BY ResizedTypes DEF TypeInv, ScanTypes, WindowTypes, Drains
    <3>2. /\ read' = IF Unfinished(d) THEN NextRead(d) ELSE read
          /\ pc' = IF Unfinished(d) THEN "read" ELSE "staged"
      BY <1>5, <2>2 DEF Evaluate, Accept
    <3> HIDE DEF d
    <3>3. pc' = "staged" \/ (pc' = "read" /\ ~read'.aside)
      BY <3>1, <3>2, ContinueFrom
    <3> QED BY <3>3 DEF WindowInv
  <2> QED BY <2>1, <2>2
<1>6. CASE OverCapacity
  <2>1. /\ pc = "evaluate" /\ pc' = "read" /\ ~read.aside /\ store' = store
        /\ \/ read' = [read EXCEPT !.bytes = win.retained \div 2]
           \/ units' = win.rows \ win.plain /\ read' = [read EXCEPT !.aside = TRUE]
    BY <1>6 DEF OverCapacity, storeVars
  <2>2. read \in ReadOptionSet
    BY DEF TypeInv, ScanTypes
  <2>3. CASE read' = [read EXCEPT !.bytes = win.retained \div 2]
    <3>1. ~read'.aside
      BY <2>1, <2>2, <2>3 DEF ReadOptionSet
    <3> QED BY <2>1, <3>1 DEF WindowInv
  <2>4. CASE units' = win.rows \ win.plain /\ read' = [read EXCEPT !.aside = TRUE]
    <3>1. read'.kind = read.kind /\ read'.min = read.min /\ read'.bytes = read.bytes
      BY <2>2, <2>4 DEF ReadOptionSet
    <3> QED BY <2>1, <2>4, <3>1, StoreRests DEF WindowInv
  <2> QED BY <2>1, <2>3, <2>4
<1>7. CASE ReadFails
  <2>1. WindowFails /\ pc' \in {"read", "staged"} /\ pc \in {"read", "evaluate"}
        /\ UNCHANGED <<pos, mode, base>>
    BY <1>7 DEF ReadFails, WindowFails, ReadStrictly
  <2> QED BY <2>1, ReadFailKeeps DEF WindowInv
<1>8. CASE Persist
  BY <1>8 DEF Persist, WindowInv
<1>9. CASE Install \/ EndHistory \/ Abandon
  BY <1>9 DEF Install, EndHistory, Abandon, EndScan, WindowInv
<1> QED BY <1>1, <1>2, <1>3, <1>4, <1>5, <1>6, <1>7, <1>8, <1>9 DEF Next, Tick, vars

\* What a window leaves out: of the rows its read reaches, only those behind
\* the cut of an incomplete one.
LEMMA Accounts ==
  ASSUME TypeInv, WindowInv, pc = "evaluate", NEW r \in Present,
         read.kind = "bootstrap" \/ store[r] >= read.min
  PROVE  \/ r \in (IF read.aside THEN units \cup win.plain ELSE win.rows) \cup win.unsampled
         \/ ~win.complete /\ store[r] > win.high
<1>1. /\ win.rows = WindowRows(read) /\ win.high = HighWater(WindowRows(read))
      /\ win.complete = (MappedRows(read) = Candidates(read))
      /\ win.unsampled = IF read.kind = "bootstrap" THEN Present \ Candidates(read) ELSE {}
  BY DEF WindowInv, WindowOf, Acquired
<1>2. (IF read.aside THEN units \cup win.plain ELSE win.rows) = win.rows
  BY DEF WindowInv, TypeInv, WindowTypes
<1>3. r \in Candidates(read) \/ r \in win.unsampled
  BY <1>1 DEF Candidates
<1> QED BY <1>1, <1>2, <1>3, LeftBehind

\* A row not accounted for is reached by the next read.
LEMMA Reaches ==
  ASSUME TypeInv, ReadInv, pc = "evaluate", NEW r \in Present,
         drain.windows > 0 => store[r] > drain.high,
         drain.windows = 0 => base.kind = "bootstrap" \/ store[r] >= base.min
  PROVE  read.kind = "bootstrap" \/ store[r] >= read.min
<1>1. /\ drain.windows \in Nat /\ drain.high \in Nat /\ read.min \in Nat /\ store[r] \in Nat
  BY StoreFacts DEF TypeInv, StoreTypes, ScanTypes, ReadOptionSet
<1>2. CASE drain.windows = 0
  BY <1>2 DEF ReadInv
<1>3. CASE drain.windows # 0
  BY <1>1, <1>3 DEF ReadInv
<1> QED BY <1>2, <1>3

-----------------------------------------------------------------------------
(* History passes.                                                         *)

HistoryInv ==
  pc # "idle" /\ mode = "history" /\ drain.windows > 0 =>
    /\ ~drain.complete => \A r \in due \ seen : store[r] > drain.high
    /\ drain.complete => due \subseteq seen

\* What Evaluate adds to the accounts when it takes the window.
LEMMA AcceptAccounts ==
  ASSUME TypeInv, ReadInv, WindowInv, Evaluate, ~(read.kind = "overlapped" /\ ~Advances)
  PROVE  /\ drain'.high = win.high /\ drain'.complete = win.complete
         /\ drain'.windows = drain.windows + 1
         /\ UNCHANGED <<now, store, owed, pos, mode, due>> /\ pc = "evaluate"
         /\ pc' \in {"read", "staged"}
         /\ \A r \in Present \ seen' :
              \/ read.kind # "bootstrap" /\ store[r] < read.min
              \/ ~win.complete /\ store[r] > win.high
<1> DEFINE rows == IF read.aside THEN units \cup win.plain ELSE win.rows
<1>1. /\ drain'.high = win.high /\ drain'.complete = win.complete
      /\ drain'.windows = drain.windows + 1
      /\ UNCHANGED <<now, store, owed, pos, mode, due>> /\ pc = "evaluate"
      /\ pc' \in {"read", "staged"} /\ seen' = seen \cup rows \cup win.unsampled
  BY DEF Evaluate, Accept, storeVars
<1>2. ASSUME NEW r \in Present \ seen', read.kind = "bootstrap" \/ store[r] >= read.min
      PROVE  ~win.complete /\ store[r] > win.high
  BY <1>1, <1>2, Accounts
<1>3. \A r \in Present : store[r] \in Nat /\ read.min \in Nat
  BY StoreFacts DEF TypeInv, ScanTypes, ReadOptionSet
<1> QED BY <1>1, <1>2, <1>3

LEMMA HistoryStep ==
  ASSUME ~ChangeInReread, TypeInv, ReadInv, WindowInv, HistoryInv, [Next]_vars
  PROVE  HistoryInv'
<1>1. CASE UNCHANGED <<pc, mode, drain, due, seen, store>>
  BY <1>1 DEF HistoryInv
<1>2. ASSUME NEW r \in Rows, Write(r) \/ Delete(r) PROVE HistoryInv'
  <2>1. /\ UNCHANGED <<pc, mode, drain>>
        /\ due' = due \ {r} /\ seen' = seen \ {r}
    BY <1>2 DEF Write, Delete, Supersede
  <2>2. \A q \in Rows \ {r} : store'[q] = store[q]
    BY <1>2, ChangeTypes
  <2>3. due \subseteq Rows
    BY StoreFacts DEF TypeInv, HeldPresent
  <2> QED BY <2>1, <2>2, <2>3 DEF HistoryInv
<1>3. CASE StartScan \/ StartHistory
  <2>1. drain'.windows = 0
    BY <1>3 DEF StartScan, StartHistory, Begin, ReadInv, NoDrain
  <2> QED BY <2>1 DEF HistoryInv
<1>4. ASSUME WindowFails, pc # "idle", UNCHANGED <<mode, due, store>> PROVE HistoryInv'
  <2>1. /\ seen' = seen /\ drain'.windows = drain.windows /\ drain'.high = drain.high
        /\ drain'.complete = drain.complete
    BY <1>4 DEF WindowFails, ReadStrictly, TypeInv, ScanTypes
  <2> QED BY <1>4, <2>1 DEF HistoryInv
<1>5. CASE Acquire
  <2>1. pc = "read" /\ UNCHANGED <<mode, due, store>>
    BY <1>5 DEF Acquire, storeVars
  <2>2. WindowFails \/ UNCHANGED <<drain, seen>>
    BY <1>5 DEF Acquire
  <2> QED BY <1>4, <2>1, <2>2 DEF HistoryInv
<1>6. CASE Evaluate
  <2>1. CASE read.kind = "overlapped" /\ ~Advances
    BY <1>4, <1>6, <2>1 DEF Evaluate, WindowFails, storeVars
  <2>2. CASE ~(read.kind = "overlapped" /\ ~Advances)
    <3>1. /\ drain'.high = win.high /\ drain'.complete = win.complete
          /\ drain'.windows = drain.windows + 1
          /\ UNCHANGED <<now, store, owed, pos, mode, due>> /\ pc = "evaluate"
          /\ \A r \in Present \ seen' :
               \/ read.kind # "bootstrap" /\ store[r] < read.min
               \/ ~win.complete /\ store[r] > win.high
      BY <1>6, <2>2, AcceptAccounts
    <3>2. SUFFICES ASSUME mode = "history" , NEW r \in due \ seen'
                   PROVE  ~win.complete /\ store[r] > win.high
      BY <3>1 DEF HistoryInv
    <3>3. r \in Present /\ r \notin seen
      BY <1>6, <2>2 DEF TypeInv, HeldPresent, Evaluate, Accept
    <3>4. drain.windows > 0 => store[r] > drain.high
      BY <3>1, <3>2, <3>3 DEF HistoryInv
    <3>5. base.min = 1 /\ store[r] >= 1
      BY <3>1, <3>2, <3>3, StoreFacts DEF ReadInv, History, Options
    <3>6. read.kind = "bootstrap" \/ store[r] >= read.min
      BY <3>1, <3>3, <3>4, <3>5, Reaches
    <3>7. store[r] \in Nat /\ read.min \in Nat
      BY <3>3, StoreFacts DEF TypeInv, ScanTypes, ReadOptionSet
    <3> QED BY <3>1, <3>2, <3>3, <3>6, <3>7
  <2> QED BY <2>1, <2>2
<1>7. CASE OverCapacity
  BY <1>7 DEF OverCapacity, storeVars, HistoryInv
<1>8. CASE ReadFails
  BY <1>4, <1>8 DEF ReadFails, storeVars
<1>9. CASE Persist
  BY <1>9 DEF Persist, storeVars, HistoryInv
<1>10. CASE Install \/ EndHistory \/ Abandon
  BY <1>10 DEF Install, EndHistory, Abandon, EndScan, HistoryInv
<1> QED BY <1>1, <1>2, <1>3, <1>5, <1>6, <1>7, <1>8, <1>9, <1>10 DEF Next, Tick, vars

\* A history pass that ends without a failure has read every row that was
\* there when it began and has not changed since: for any rows, sizes and
\* limits, if the store rests between the two reads of a quarantine.
THEOREM HistoryComplete ==
  ASSUME ~ChangeInReread
  PROVE  Spec => []HistoryReadsAll
<1>1. Init => ReadInv /\ WindowInv /\ HistoryInv
  BY DEF Init, Idle, ReadInv, WindowInv, HistoryInv
<1>2. TypeInv /\ ReadInv /\ HistoryInv => HistoryReadsAll
  BY DEF TypeInv, ScanTypes, ReadInv, HistoryInv, HistoryReadsAll
<1> QED BY <1>1, <1>2, TypeInit, TypeStep, ReadStep, WindowStep, HistoryStep, PTL DEF Spec

-----------------------------------------------------------------------------
(* Routine scans.                                                          *)

ScanInv ==
  /\ NothingSkipped
  /\ pc # "idle" /\ mode = "scan" /\ drain.windows > 0 =>
       /\ ~drain.complete => \A r \in owed \ seen : store[r] > drain.high
       /\ drain.complete =>
            \A r \in owed \ seen : store[r] >= Max2(drain.high, pos.last) - Overlap
  /\ pc = "persisted" => owed \cap seen = {}

\* The lower bound of the routine read from a position.
LEMMA RoutineMin ==
  ASSUME NEW p \in [last : Nat, cut : Nat]
  PROVE  /\ p.last = 0 => ReadOptions(p).kind = "bootstrap"
         /\ p.last # 0 => ReadOptions(p).min = IF p.cut = 0 THEN Max2(p.last - Overlap, 1)
                                               ELSE p.cut + 1
BY DEF ReadOptions, Bootstrap, ResumeAfter, ContinueAfter, Options

LEMMA FrontierBound ==
  ASSUME TypeInv
  PROVE  /\ Frontier \in Nat /\ pos.cut <= Frontier
         /\ pc # "idle" /\ ~drain.complete => drain.high <= Frontier
<1> DEFINE T == {pos.cut} \cup (IF pc = "idle" \/ drain.complete THEN {} ELSE {drain.high})
                          \cup (IF win.complete THEN {} ELSE {win.high})
<1>1. T \subseteq Nat /\ T # {} /\ now \in Nat /\ \A t \in T : t <= now
  BY StoreFacts DEF TypeInv, ScanTypes, WindowTypes
<1>2. pos.cut \in T /\ (pc # "idle" /\ ~drain.complete => drain.high \in T)
  OBVIOUS
<1>3. Frontier = Max(T)
  BY DEF Frontier
<1> HIDE DEF T
<1> QED BY <1>1, <1>2, <1>3, MaxNat

\* A new version lies behind every cut, and within the overlap of the clock.
LEMMA WriteScan ==
  ASSUME ~LateInDrain, TypeInv, ScanInv, NEW r \in Rows, Write(r)
  PROVE  ScanInv'
<1>1. /\ UNCHANGED <<now, pos, pc, mode, drain>>
      /\ owed' = owed \cup {r} /\ seen' = seen \ {r}
  BY DEF Write, Supersede
<1>2. PICK t \in Max2(now - MaxLag, 1)..now : t > Frontier /\ store' = [store EXCEPT ![r] = t]
  BY DEF Write
<1>3. store'[r] = t /\ \A q \in Rows \ {r} : store'[q] = store[q]
  BY <1>2 DEF TypeInv, StoreTypes
<1>4. owed \subseteq Rows
  BY StoreFacts DEF TypeInv, HeldPresent
<1>5. /\ t \in Nat /\ now \in Nat /\ t >= 1 /\ t >= now - MaxLag
      /\ pos.last \in Nat /\ pos.last <= now /\ pos.cut \in Nat
      /\ drain.high \in Nat /\ drain.high <= now
  BY <1>2, StoreFacts, ConstantTypes DEF Max2, TypeInv, StoreTypes, ScanTypes
<1>6. t > pos.cut /\ (pc # "idle" /\ ~drain.complete => t > drain.high)
  BY <1>2, <1>5, FrontierBound
<1>7. t >= Max2(drain.high, pos.last) - Overlap /\ t >= Max2(pos.last - Overlap, 1)
  BY <1>5, ConstantTypes, LagAssumption DEF Max2
<1>8. NothingSkipped'
  <2> SUFFICES ASSUME NEW q \in owed', pos.last # 0
               PROVE  store'[q] >= ReadOptions(pos).min
    BY <1>1 DEF NothingSkipped, ReadOptions
  <2>1. CASE q = r
    <3>1. pos \in [last : Nat, cut : Nat]
      BY StoreFacts DEF TypeInv, ScanTypes
    <3> QED BY <1>3, <1>5, <1>6, <1>7, <2>1, <3>1, RoutineMin
  <2>2. CASE q # r
    BY <1>1, <1>3, <1>4, <2>2 DEF ScanInv, NothingSkipped
  <2> QED BY <2>1, <2>2
<1> QED BY <1>1, <1>3, <1>4, <1>6, <1>7, <1>8 DEF ScanInv

LEMMA DeleteScan ==
  ASSUME TypeInv, ScanInv, NEW r \in Rows, Delete(r)
  PROVE  ScanInv'
<1>1. /\ UNCHANGED <<pos, pc, mode, drain>>
      /\ owed' = owed \ {r} /\ seen' = seen \ {r}
  BY DEF Delete, Supersede
<1>2. \A q \in Rows \ {r} : store'[q] = store[q]
  BY ChangeTypes
<1>3. owed \subseteq Rows
  BY StoreFacts DEF TypeInv, HeldPresent
<1>4. NothingSkipped'
  BY <1>1, <1>2, <1>3 DEF ScanInv, NothingSkipped, ReadOptions
<1> QED BY <1>1, <1>2, <1>3, <1>4 DEF ScanInv

LEMMA InstallScan ==
  ASSUME TypeInv, ReadInv, ScanInv, Install
  PROVE  ScanInv'
<1>1. /\ pc = "persisted" /\ mode = "scan" /\ pc' = "idle" /\ pos' = Staged
      /\ UNCHANGED <<store, owed>>
  BY DEF Install, EndScan, storeVars, ReadInv
<1>2. owed \ seen = owed
  BY <1>1 DEF ScanInv
<1>3. /\ pos.last \in Nat /\ pos.cut \in Nat /\ drain.high \in Nat /\ drain.windows \in Nat
      /\ \A r \in owed : store[r] \in Nat /\ store[r] >= 1
  BY StoreFacts DEF TypeInv, StoreTypes, ScanTypes, HeldPresent
<1>4. CASE Candidate = 0
  <2>1. pos' = pos
    BY <1>1, <1>4 DEF Staged
  <2> QED BY <1>1, <2>1 DEF ScanInv, NothingSkipped, ReadOptions
<1>5. CASE Candidate # 0
  <2>1. drain.windows > 0 /\ (~drain.complete => drain.high > 0)
    BY <1>3, <1>5 DEF Candidate
  <2>2. /\ pos'.last = Max2(Candidate, pos.last)
        /\ pos'.cut = IF drain.complete THEN 0 ELSE Candidate
    BY <1>1, <1>5 DEF Staged
  <2>3. Candidate \in Nat /\ (~drain.complete => Candidate = drain.high)
        /\ Max2(Candidate, pos.last) = Max2(drain.high, pos.last)
    BY <1>3, <1>5, <2>1 DEF Candidate, Max2
  <2>4. pos' \in [last : Nat, cut : Nat] /\ pos'.last # 0
    <3>1. pos' \in [last : 0..now, cut : 0..now]
      BY <1>1, StagedTypes
    <3> QED BY <1>3, <1>5, <2>2, <2>3, <3>1, StoreFacts DEF Max2
  <2>5. ReadOptions(pos').min = IF pos'.cut = 0 THEN Max2(pos'.last - Overlap, 1)
                                ELSE pos'.cut + 1
    BY <2>4, RoutineMin
  <2>6. ASSUME NEW r \in owed PROVE store[r] >= ReadOptions(pos').min
    <3>1. CASE drain.complete
      <4>1. store[r] >= Max2(drain.high, pos.last) - Overlap
        BY <1>1, <1>2, <2>1, <3>1 DEF ScanInv
      <4> QED BY <1>3, <2>2, <2>3, <2>5, <3>1, <4>1, ConstantTypes DEF Max2
    <3>2. CASE ~drain.complete
      <4>1. store[r] > drain.high
        BY <1>1, <1>2, <2>1, <3>2 DEF ScanInv
      <4> QED BY <1>3, <1>5, <2>2, <2>3, <2>5, <3>2, <4>1
    <3> QED BY <3>1, <3>2
  <2>7. NothingSkipped'
    BY <1>1, <2>6 DEF NothingSkipped, ReadOptions
  <2> QED BY <1>1, <2>7 DEF ScanInv
<1> QED BY <1>4, <1>5

LEMMA ScanStep ==
  ASSUME ~LateInDrain, ~ChangeInReread, TypeInv, ReadInv, WindowInv, ScanInv, [Next]_vars
  PROVE  ScanInv'
<1>1. CASE UNCHANGED <<pc, mode, drain, owed, seen, store, pos>>
  BY <1>1 DEF ScanInv, NothingSkipped, ReadOptions
<1>2. ASSUME NEW r \in Rows, Write(r) \/ Delete(r) PROVE ScanInv'
  BY <1>2, WriteScan, DeleteScan
<1>3. CASE StartScan \/ StartHistory
  <2>1. drain'.windows = 0 /\ pc' = "read" /\ UNCHANGED <<owed, store, pos>>
    BY <1>3 DEF StartScan, StartHistory, Begin, ReadInv, NoDrain, storeVars
  <2> QED BY <2>1 DEF ScanInv, NothingSkipped, ReadOptions
<1>4. ASSUME WindowFails, pc \in {"read", "evaluate"}, UNCHANGED <<mode, owed, store, pos>>
      PROVE  ScanInv'
  <2>1. /\ seen' = seen /\ drain'.windows = drain.windows /\ drain'.high = drain.high
        /\ drain'.complete = drain.complete /\ pc' \in {"read", "staged"}
    BY <1>4 DEF WindowFails, ReadStrictly, TypeInv, ScanTypes
  <2> QED BY <1>4, <2>1 DEF ScanInv, NothingSkipped, ReadOptions
<1>5. CASE Acquire
  <2>1. pc = "read" /\ UNCHANGED <<mode, owed, store, pos>>
    BY <1>5 DEF Acquire, storeVars
  <2>2. WindowFails \/ (UNCHANGED <<drain, seen>> /\ pc' = "evaluate")
    BY <1>5 DEF Acquire
  <2> QED BY <1>4, <2>1, <2>2 DEF ScanInv, NothingSkipped, ReadOptions
<1>6. CASE Evaluate
  <2>1. CASE read.kind = "overlapped" /\ ~Advances
    BY <1>4, <1>6, <2>1 DEF Evaluate, WindowFails, storeVars
  <2>2. CASE ~(read.kind = "overlapped" /\ ~Advances)
    <3>1. /\ drain'.high = win.high /\ drain'.complete = win.complete
          /\ drain'.windows = drain.windows + 1
          /\ UNCHANGED <<now, store, owed, pos, mode, due>> /\ pc = "evaluate"
          /\ pc' \in {"read", "staged"}
          /\ \A r \in Present \ seen' :
               \/ read.kind # "bootstrap" /\ store[r] < read.min
               \/ ~win.complete /\ store[r] > win.high
      BY <1>6, <2>2, AcceptAccounts
    <3>2. ASSUME mode = "scan", NEW r \in owed \ seen'
          PROVE  ~win.complete /\ store[r] > win.high
      <4>1. r \in Present /\ r \notin seen
        BY <1>6, <2>2, <3>2 DEF TypeInv, HeldPresent, Evaluate, Accept
      <4>2. drain.windows > 0 => store[r] > drain.high
        BY <3>1, <3>2, <4>1 DEF ScanInv, ReadInv
      <4>3. base.kind = "bootstrap" \/ store[r] >= base.min
        <5>1. pos \in [last : Nat, cut : Nat]
          BY StoreFacts DEF TypeInv, ScanTypes
        <5>2. base = ReadOptions(pos)
          BY <3>1, <3>2 DEF ReadInv
        <5> QED BY <3>2, <5>1, <5>2, RoutineMin DEF ScanInv, NothingSkipped
      <4>4. read.kind = "bootstrap" \/ store[r] >= read.min
        BY <3>1, <4>1, <4>2, <4>3, Reaches
      <4>5. store[r] \in Nat /\ read.min \in Nat
        BY <4>1, StoreFacts DEF TypeInv, ScanTypes, ReadOptionSet
      <4> QED BY <3>1, <3>2, <4>1, <4>4, <4>5
    <3>3. NothingSkipped'
      BY <3>1 DEF ScanInv, NothingSkipped, ReadOptions
    <3> QED BY <3>1, <3>2, <3>3 DEF ScanInv
  <2> QED BY <2>1, <2>2
<1>7. CASE OverCapacity
  BY <1>7 DEF OverCapacity, storeVars, ScanInv, NothingSkipped, ReadOptions
<1>8. CASE ReadFails
  BY <1>4, <1>8 DEF ReadFails, storeVars
<1>9. CASE Persist
  BY <1>9 DEF Persist, storeVars, ScanInv, NothingSkipped, ReadOptions
<1>10. CASE Install
  BY <1>10, InstallScan
<1>11. CASE EndHistory \/ Abandon
  <2>1. pc' = "idle" /\ UNCHANGED <<owed, store, pos>>
    BY <1>11 DEF EndHistory, Abandon, EndScan, storeVars
  <2> QED BY <2>1 DEF ScanInv, NothingSkipped, ReadOptions
<1> QED BY <1>1, <1>2, <1>3, <1>5, <1>6, <1>7, <1>8, <1>9, <1>10, <1>11 DEF Next, Tick, vars

\* Through cuts, shrunken windows, quarantines, failures and stops, a row
\* version that no persisted scan accounts for stays within reach of the next
\* routine read: for any rows, sizes, limits and overlaps, if no row becomes
\* visible at or before the cut of a drain and the store rests between the
\* two reads of a quarantine.  (Without either, rows are skipped.)
THEOREM NoRowSkipped ==
  ASSUME ~LateInDrain, ~ChangeInReread
  PROVE  Spec => []NothingSkipped
<1>1. Init => ReadInv /\ WindowInv /\ ScanInv
  BY DEF Init, Idle, ReadInv, WindowInv, ScanInv, NothingSkipped, NoPosition
<1>2. ScanInv => NothingSkipped
  BY DEF ScanInv
<1> QED BY <1>1, <1>2, TypeInit, TypeStep, ReadStep, WindowStep, ScanStep, PTL DEF Spec
=============================================================================
