------------------------ MODULE JsonlRotationProofs ------------------------
(***************************************************************************)
(* The retention of JsonlRotation for every threshold, keep count and      *)
(* number of dates, names and files, with failing removals and crashes     *)
(* anywhere in a clean-up.                                                 *)
(***************************************************************************)
EXTENDS JsonlRotation, NumberFacts

-----------------------------------------------------------------------------
(* Names and dates.                                                        *)

LEMMA ConstantTypes ==
  /\ MaxFiles \in Nat /\ Keep \in Nat /\ MaxRecords \in Nat \ {0} /\ MaxBatch \in Nat \ {0}
  /\ Days \in Nat \ {0} /\ Counters \in Nat \ {0}
BY RotationAssumption DEF RotationAssumption

LEMMA Multiples ==
  ASSUME NEW a \in Int, NEW b \in Int, a < b, NEW c \in Nat
  PROVE  a * c + c <= b * c /\ a * c \in Int /\ b * c \in Int
<1>1. b - a - 1 \in Nat
  OBVIOUS
<1>2. (b - a - 1) * c >= 0
  BY <1>1
<1>3. (b - a - 1) * c = b * c - a * c - c
  OBVIOUS
<1> QED BY <1>2, <1>3

LEMMA NamesInRange ==
  ASSUME NEW d \in 0..(Days - 1), NEW n \in NamesOf(d)
  PROVE  n \in Nat /\ n < ActiveName /\ ActiveName \in Nat
<1>1. d \in Nat /\ d < Days /\ Counters \in Nat /\ Days \in Nat
  BY ConstantTypes
<1>2. d * Counters \in Nat /\ Days * Counters \in Nat
  BY <1>1
<1>3. d * Counters + Counters <= Days * Counters
  BY <1>1, Multiples
<1> QED BY <1>1, <1>2, <1>3 DEF NamesOf, ActiveName

LEMMA DateBounds ==
  ASSUME NEW n \in Nat
  PROVE  /\ DateOf(n) \in Int
         /\ DateOf(n) * Counters <= n /\ n < DateOf(n) * Counters + Counters
<1>1. Counters \in Nat /\ Counters > 0
  BY ConstantTypes
<1> QED BY <1>1 DEF DateOf

\* A larger name has no earlier date; the names of a date have that date.
LEMMA DateMonotone ==
  ASSUME NEW m \in Nat, NEW n \in Nat, m <= n
  PROVE  DateOf(m) <= DateOf(n)
<1> SUFFICES ASSUME DateOf(n) < DateOf(m) PROVE FALSE
  BY DateBounds
<1>1. DateOf(n) * Counters + Counters <= DateOf(m) * Counters
  BY DateBounds, Multiples, ConstantTypes
<1> QED BY <1>1, DateBounds, ConstantTypes

LEMMA DateOfName ==
  ASSUME NEW d \in Nat, NEW n \in NamesOf(d), n \in Nat
  PROVE  DateOf(n) = d
<1>1. /\ DateOf(n) \in Int /\ Counters \in Nat /\ d * Counters \in Int
      /\ DateOf(n) * Counters <= n /\ n < DateOf(n) * Counters + Counters
      /\ d * Counters <= n /\ n < d * Counters + Counters
  BY DateBounds, ConstantTypes DEF NamesOf
<1>2. CASE d < DateOf(n)
  <2>1. d * Counters + Counters <= DateOf(n) * Counters
    BY <1>1, <1>2, Multiples
  <2> QED BY <2>1, <1>1
<1>3. CASE DateOf(n) < d
  <2>1. DateOf(n) * Counters + Counters <= d * Counters
    BY <1>1, <1>3, Multiples
  <2> QED BY <2>1, <1>1
<1> QED BY <1>1, <1>2, <1>3

-----------------------------------------------------------------------------
(* The clean-up list of one rotation.                                      *)

Above(names, f) == {h \in Files : names[h] # ActiveName /\ names[h] > names[f]}
RotatedIn(names) == {f \in Files : names[f] \notin {Absent, ActiveName}}
Distinct(names) == \A f, h \in Files : names[f] = names[h] /\ names[f] # Absent => f = h

LEMMA FilesFinite == ASSUME NEW S, S \subseteq Files PROVE IsFiniteSet(S) /\ Cardinality(S) \in Nat
<1>1. IsFiniteSet(Files)
  BY FS_Interval, ConstantTypes DEF Files
<1>2. IsFiniteSet(S)
  BY <1>1, FS_Subset
<1> QED BY <1>2, FS_CardinalityType

LEMMA ToDeleteIs ==
  ASSUME NEW names
  PROVE  ToDelete(names) = {f \in RotatedIn(names) : Cardinality(Above(names, f)) >= Keep}
BY DEF ToDelete, RotatedIn, Above

\* At most Keep rotated files are not on the list: all of them but the one with
\* the least name have a name above it.
LEMMA KeepsAtMost ==
  ASSUME NEW names \in [Files -> Absent..ActiveName], Distinct(names)
  PROVE  Cardinality(RotatedIn(names) \ ToDelete(names)) <= Keep
<1> DEFINE K == RotatedIn(names) \ ToDelete(names)
<1>1. K \subseteq Files /\ IsFiniteSet(K) /\ Cardinality(K) \in Nat
  BY FilesFinite DEF RotatedIn
<1>2. ASSUME NEW f \in K PROVE names[f] \in Nat /\ ActiveName \in Int
  <2>1. names[f] \in Absent..ActiveName /\ names[f] # Absent
    BY <1>1 DEF RotatedIn
  <2>2. ActiveName \in Int
    BY ConstantTypes DEF ActiveName
  <2> QED BY <2>1, <2>2 DEF Absent
<1>3. CASE K = {}
  <2>1. Cardinality(K) = 0
    BY <1>3, FS_EmptySet
  <2> QED BY <2>1, ConstantTypes
<1>4. CASE K # {}
  <2> DEFINE N == {names[f] : f \in K}
  <2>1. N \subseteq Nat /\ N # {}
    BY <1>2, <1>4
  <2>2. PICK x \in N : \A y \in N : x <= y
    BY <2>1, LeastNat
  <2>3. PICK m \in K : names[m] = x
    BY <2>2
  <2>4. K \ {m} \subseteq Above(names, m)
    <3> SUFFICES ASSUME NEW f \in K, f # m PROVE f \in Above(names, m)
      OBVIOUS
    <3>1. names[m] <= names[f]
      BY <2>2, <2>3
    <3>2. names[f] # names[m]
      BY <1>1, <1>2 DEF Distinct, RotatedIn
    <3>3. names[f] > names[m]
      BY <3>1, <3>2, <1>2
    <3> QED BY <3>3, <1>1 DEF Above, RotatedIn
  <2>5. IsFiniteSet(Above(names, m)) /\ Cardinality(Above(names, m)) \in Nat
    BY FilesFinite DEF Above
  <2>6. Cardinality(K \ {m}) <= Cardinality(Above(names, m))
    BY <2>4, <2>5, FS_Subset
  <2>7. Cardinality(K \ {m}) = Cardinality(K) - 1
    BY <1>1, FS_RemoveElement
  <2>8. Cardinality(Above(names, m)) < Keep
    BY <2>3, <2>5, ToDeleteIs, ConstantTypes
  <2> HIDE DEF K
  <2> QED BY <1>1, <2>5, <2>6, <2>7, <2>8, ConstantTypes DEF K
<1> QED BY <1>3, <1>4

\* The list is closed downwards in the order of the names.
LEMMA ListClosed ==
  ASSUME NEW names \in [Files -> Absent..ActiveName], NEW f \in ToDelete(names),
         NEW h \in RotatedIn(names), names[h] < names[f]
  PROVE  h \in ToDelete(names)
<1>1. f \in Files /\ h \in Files /\ Cardinality(Above(names, f)) >= Keep
  BY ToDeleteIs DEF RotatedIn
<1>2. Above(names, f) \subseteq Above(names, h)
  <2> SUFFICES ASSUME NEW g \in Files, names[g] > names[f] PROVE names[g] > names[h]
    BY DEF Above
  <2>1. names[f] \in Int /\ names[g] \in Int /\ names[h] \in Int
    BY <1>1, ConstantTypes DEF Absent, ActiveName
  <2> QED BY <2>1
<1>3. /\ IsFiniteSet(Above(names, h)) /\ Cardinality(Above(names, h)) \in Nat
      /\ Cardinality(Above(names, f)) \in Nat
  BY FilesFinite DEF Above
<1>4. Cardinality(Above(names, f)) <= Cardinality(Above(names, h))
  BY <1>2, <1>3, FS_Subset
<1> QED BY <1>1, <1>3, <1>4, ToDeleteIs, ConstantTypes

-----------------------------------------------------------------------------
(* The inductive invariant.                                                *)

\* A clean-up and an append have room below the threshold, and only a clean-up has a list.
Control ==
  /\ pc \in {"cleanup", "append"} => size < MaxRecords
  /\ pc # "cleanup" => doomed = {}

\* No two files share a name; files are created in order, the last is the active
\* one if there is one.
Names ==
  /\ Distinct(at)
  /\ \A f \in Files : f > made => at[f] = Absent
  /\ \A f \in Active : f = made

\* Of two rotated files the older one has no later date.
Dated ==
  /\ \A f \in Rotated : DateOf(at[f]) <= today
  /\ \A f, h \in Rotated : h < f => DateOf(at[h]) <= DateOf(at[f])

\* Each file still to be removed has Keep files above it, and everything below it
\* is to be removed as well or could not be.
ListLeft ==
  /\ doomed \subseteq Rotated
  /\ \A f \in doomed : Cardinality(Above(at, f)) >= Keep
  /\ \A f \in doomed, h \in Rotated : at[h] < at[f] => h \in doomed \cup missed

\* At most Keep rotated files are neither to be removed nor missed.
Kept == Cardinality(Rotated \ (doomed \cup missed)) <= Keep

RotationInv == TypeOK /\ Control /\ Names /\ Dated /\ ListLeft /\ Kept

LEMMA Ranges ==
  ASSUME TypeOK
  PROVE  /\ Rotated = RotatedIn(at) /\ ActiveName \in Nat /\ MaxFiles \in Nat
         /\ \A f \in Files : at[f] \in Int /\ f \in Nat
         /\ \A f \in Rotated : at[f] \in Nat /\ at[f] # ActiveName /\ f \in Files
<1>1. ActiveName \in Nat /\ MaxFiles \in Nat
  BY ConstantTypes DEF ActiveName
<1>2. ASSUME NEW f \in Files PROVE at[f] \in Absent..ActiveName /\ f \in Nat
  BY ConstantTypes DEF TypeOK, Files
<1> QED BY <1>1, <1>2 DEF Rotated, RotatedIn, Absent

\* A step that moves no file and leaves the list alone.
LEMMA Still ==
  ASSUME RotationInv, UNCHANGED <<at, made, doomed, missed>>, today <= today', today' \in Int
  PROVE  Names' /\ Dated' /\ ListLeft' /\ Kept'
<1>1. UNCHANGED <<Active, Rotated>>
  BY DEF Active, Rotated
<1>2. \A f \in Files : Above(at, f)' = Above(at, f)
  BY DEF Above
<1>3. \A f \in Rotated : DateOf(at[f]) \in Int /\ f \in Files
  BY DateBounds, Ranges DEF RotationInv
<1>4. today \in Int
  BY ConstantTypes DEF RotationInv, TypeOK
<1>5. Dated'
  BY <1>1, <1>3, <1>4 DEF RotationInv, Dated
<1>6. Names'
  BY <1>1 DEF RotationInv, Names, Distinct
<1>7. ListLeft'
  <2>1. ASSUME NEW f \in doomed PROVE Cardinality(Above(at, f))' >= Keep
    BY <1>2, <1>3 DEF RotationInv, ListLeft
  <2> QED BY <1>1, <2>1 DEF RotationInv, ListLeft
<1> QED BY <1>1, <1>5, <1>6, <1>7 DEF RotationInv, Kept

LEMMA RotateStep ==
  ASSUME RotationInv, NEW f \in Files, NEW n \in NamesOf(today), Rotate(f, n)
  PROVE  RotationInv'
<1>0. TypeOK /\ Names /\ Dated /\ today \in 0..(Days - 1) /\ today \in Nat
  BY ConstantTypes DEF RotationInv, TypeOK
<1>1. n \in Nat /\ n < ActiveName /\ ActiveName \in Nat /\ DateOf(n) = today
  <2>1. n \in Nat /\ n < ActiveName /\ ActiveName \in Nat
    BY <1>0, NamesInRange
  <2> QED BY <2>1, <1>0, DateOfName
<1>2. /\ pc' = "cleanup" /\ size' = 0 /\ doomed' = ToDelete(at') /\ missed' = {}
      /\ at' = [at EXCEPT ![f] = n] /\ UNCHANGED <<made, today, torn>>
      /\ at[f] = ActiveName /\ \A h \in Files : at[h] # n
  BY DEF Rotate, FreeName, Active
<1>3. at' \in [Files -> Absent..ActiveName] /\ at \in [Files -> Absent..ActiveName]
  BY <1>0, <1>1, <1>2 DEF TypeOK, Absent
<1>4. ASSUME NEW h \in Files PROVE at'[h] = IF h = f THEN n ELSE at[h]
  BY <1>2, <1>3
<1>5. Distinct(at)'
  BY <1>0, <1>2, <1>4 DEF Distinct, Names
<1>6. TypeOK'
  <2>1. doomed' \subseteq Files
    BY <1>2 DEF ToDelete
  <2>2. size' \in 0..(MaxRecords - 1 + MaxBatch) /\ made' \in 0..MaxFiles /\ today' \in 0..(Days - 1)
    BY <1>0, <1>2, ConstantTypes DEF TypeOK
  <2>3. pc' \in {"idle", "rotate", "cleanup", "append"} /\ torn' \in BOOLEAN /\ missed' \subseteq Files
    BY <1>0, <1>2, Zenon DEF TypeOK
  <2> QED BY <2>1, <2>2, <2>3, <1>3 DEF TypeOK
<1>7. Rotated' = RotatedIn(at') /\ Rotated' = Rotated \cup {f} /\ f \notin Rotated
  <2>1. n # Absent /\ n # ActiveName
    BY <1>1 DEF Absent
  <2> QED BY <2>1, <1>2, <1>4 DEF Rotated, RotatedIn
<1>8. Active' = {} /\ f = made
  <2>1. n # ActiveName /\ f \in Active
    BY <1>1, <1>2 DEF Active
  <2> QED BY <2>1, <1>0, <1>2, <1>4 DEF Active, Names
<1>9. Control'
  BY <1>2, ConstantTypes DEF Control
<1>10. Names'
  <2>1. \A h \in Files : h > made => h # f /\ at[h] = Absent
    BY <1>0, <1>8, Ranges DEF Names
  <2> QED BY <2>1, <1>2, <1>4, <1>5, <1>8 DEF Names
<1>11. Dated'
  <2>1. ASSUME NEW h \in Rotated
        PROVE  /\ at'[h] = at[h] /\ h \in Files /\ h <= made /\ DateOf(at[h]) <= today
    <3>1. h \in Files /\ at[h] # Absent /\ h # f
      BY <1>7 DEF Rotated
    <3> QED BY <3>1, <1>0, <1>4, Ranges DEF Names, Dated, TypeOK
  <2>2. at'[f] = n /\ DateOf(at'[f]) <= today
    BY <1>0, <1>1, <1>4
  <2>3. ASSUME NEW g \in Rotated', NEW h \in Rotated', h < g
        PROVE  DateOf(at'[h]) <= DateOf(at'[g])
    <3>1. CASE g = f
      BY <3>1, <2>1, <2>2, <2>3, <1>1, <1>7, <1>8, Ranges, <1>0
    <3>2. CASE g # f /\ h = f
      BY <3>2, <2>1, <2>3, <1>7, <1>8, Ranges, <1>0
    <3>3. CASE g # f /\ h # f
      BY <3>3, <2>1, <2>3, <1>0, <1>7 DEF Dated
    <3> QED BY <3>1, <3>2, <3>3
  <2>4. \A g \in Rotated' : DateOf(at'[g]) <= today'
    BY <2>1, <2>2, <1>2, <1>7
  <2> QED BY <2>3, <2>4 DEF Dated
<1>12. ListLeft'
  <2>1. doomed' \subseteq Rotated' /\ \A g \in doomed' : Cardinality(Above(at', g)) >= Keep
    BY <1>2, <1>7, ToDeleteIs
  <2>2. \A g \in doomed', h \in Rotated' : at'[h] < at'[g] => h \in doomed'
    BY <1>2, <1>3, <1>7, ListClosed
  <2>3. \A g : Above(at, g)' = Above(at', g)
    BY DEF Above
  <2> QED BY <2>1, <2>2, <2>3 DEF ListLeft
<1>13. Kept'
  <2>1. Cardinality(RotatedIn(at') \ ToDelete(at')) <= Keep
    BY <1>3, <1>5, KeepsAtMost DEF Distinct
  <2>2. Rotated' \ (doomed' \cup missed') = RotatedIn(at') \ ToDelete(at')
    BY <1>2, <1>7
  <2> QED BY <2>1, <2>2 DEF Kept
<1> QED BY <1>6, <1>9, <1>10, <1>11, <1>12, <1>13 DEF RotationInv

LEMMA RemoveStep ==
  ASSUME RotationInv, NEW f \in Files, Remove(f)
  PROVE  RotationInv'
<1>0. TypeOK /\ Names /\ Dated /\ ListLeft /\ Kept
  BY DEF RotationInv
<1>1. /\ pc = "cleanup" /\ f \in doomed /\ at' = [at EXCEPT ![f] = Absent] /\ doomed' = doomed \ {f}
      /\ UNCHANGED <<size, made, today, pc, torn, missed>>
      /\ \A h \in doomed : at[f] <= at[h]
  BY DEF Remove
<1>2. ASSUME NEW h \in Files PROVE at'[h] = IF h = f THEN Absent ELSE at[h]
  BY <1>0, <1>1 DEF TypeOK
<1>3. Rotated' = Rotated \ {f} /\ Active' = Active /\ f \in Rotated
  <2>1. f \in Rotated /\ at[f] # ActiveName /\ Absent # ActiveName
    BY <1>0, <1>1, Ranges DEF ListLeft, Absent
  <2> QED BY <2>1, <1>2 DEF Rotated, Active
<1>4. TypeOK'
  <2>1. at' \in [Files -> Absent..ActiveName]
    BY <1>0, <1>1, Ranges DEF TypeOK, Absent
  <2> QED BY <2>1, <1>0, <1>1 DEF TypeOK
<1>5. Names'
  BY <1>0, <1>1, <1>2, <1>3 DEF Names, Distinct
<1>6. Control'
  BY <1>1 DEF RotationInv, Control
<1>7. ASSUME NEW h \in Rotated' PROVE h \in Rotated /\ h # f /\ h \in Files /\ at'[h] = at[h]
  BY <1>2, <1>3 DEF Rotated
<1>8. Dated'
  BY <1>0, <1>1, <1>7 DEF Dated
<1>9. ASSUME NEW h \in doomed' PROVE Above(at', h) = Above(at, h)
  <2>1. h \in doomed /\ h # f /\ h \in Rotated'
    BY <1>0, <1>1, <1>3 DEF ListLeft
  <2>2. at[f] < at[h] /\ at'[h] = at[h] /\ at[h] >= 0 /\ at[h] \in Int
    <3>1. at[f] # at[h]
      BY <2>1, <1>0, <1>3, <1>7 DEF Names, Distinct, Rotated
    <3> QED BY <3>1, <2>1, <1>0, <1>1, <1>3, <1>7, Ranges
  <2>3. ASSUME NEW g \in Files
        PROVE  at'[g] # ActiveName /\ at'[g] > at'[h] <=> at[g] # ActiveName /\ at[g] > at[h]
    <3>1. CASE g = f
      BY <3>1, <2>2, <1>2, <1>0, Ranges DEF Absent
    <3>2. CASE g # f
      BY <3>2, <2>2, <1>2
    <3> QED BY <3>1, <3>2
  <2> QED BY <2>3 DEF Above
<1>10. ListLeft'
  <2>1. doomed' \subseteq Rotated'
    BY <1>0, <1>1, <1>3 DEF ListLeft
  <2>2. ASSUME NEW g \in doomed' PROVE Cardinality(Above(at, g)') >= Keep
    <3>1. Above(at, g)' = Above(at', g)
      BY DEF Above
    <3> QED BY <3>1, <1>0, <1>1, <1>9 DEF ListLeft
  <2>3. ASSUME NEW g \in doomed', NEW h \in Rotated', at'[h] < at'[g]
        PROVE  h \in doomed' \cup missed'
    BY <2>1, <2>3, <1>0, <1>1, <1>7 DEF ListLeft
  <2> QED BY <2>1, <2>2, <2>3 DEF ListLeft
<1>11. Kept'
  <2>1. Rotated' \ (doomed' \cup missed') \subseteq Rotated \ (doomed \cup missed)
    BY <1>1, <1>3
  <2>2. /\ IsFiniteSet(Rotated \ (doomed \cup missed))
        /\ Cardinality(Rotated \ (doomed \cup missed)) \in Nat
        /\ Cardinality(Rotated' \ (doomed' \cup missed')) \in Nat
    BY <2>1, FilesFinite DEF Rotated
  <2>3. Cardinality(Rotated' \ (doomed' \cup missed')) <= Cardinality(Rotated \ (doomed \cup missed))
    BY <2>1, <2>2, FS_Subset
  <2> QED BY <2>2, <2>3, <1>0, ConstantTypes DEF Kept
<1> QED BY <1>4, <1>5, <1>6, <1>8, <1>10, <1>11 DEF RotationInv

\* The list shrinks and what leaves it is counted as missed.
LEMMA MissStep ==
  ASSUME RotationInv, UNCHANGED <<at, made, today>>, doomed' \subseteq doomed,
         doomed' \cup missed' = doomed \cup missed
  PROVE  Names' /\ Dated' /\ ListLeft' /\ Kept'
<1>1. UNCHANGED <<Active, Rotated>> /\ \A f : Above(at, f)' = Above(at, f)
  BY DEF Active, Rotated, Above
<1>2. Names' /\ Dated' /\ Kept'
  BY <1>1 DEF RotationInv, Names, Distinct, Dated, Kept
<1>3. ListLeft'
  BY <1>1 DEF RotationInv, ListLeft
<1> QED BY <1>2, <1>3

LEMMA CreateActiveStep ==
  ASSUME RotationInv, NEW f \in Files, CreateActive(f)
  PROVE  RotationInv'
<1>0. TypeOK /\ Names /\ Dated /\ ListLeft /\ Kept /\ Control
  BY DEF RotationInv
<1>1. /\ pc = "append" /\ Active = {} /\ f = made + 1 /\ at' = [at EXCEPT ![f] = ActiveName]
      /\ made' = f /\ size' = 0 /\ UNCHANGED <<today, pc, doomed, torn, missed>>
  BY DEF CreateActive
<1>2. made \in Nat /\ f \in Nat /\ at[f] = Absent /\ doomed = {}
  BY <1>0, <1>1, ConstantTypes DEF TypeOK, Names, Control, Files
<1>3. ASSUME NEW h \in Files PROVE at'[h] = IF h = f THEN ActiveName ELSE at[h]
  BY <1>0, <1>1 DEF TypeOK
<1>4. Rotated' = Rotated /\ Active' = {f} /\ f \notin Rotated
  <2>1. Absent # ActiveName
    BY <1>0, Ranges DEF Absent
  <2> QED BY <2>1, <1>1, <1>2, <1>3 DEF Rotated, Active
<1>5. TypeOK'
  <2>1. at' \in [Files -> Absent..ActiveName]
    BY <1>0, <1>1, Ranges DEF TypeOK, Absent
  <2>2. made' \in 0..MaxFiles /\ size' \in 0..(MaxRecords - 1 + MaxBatch)
    BY <1>1, <1>2, ConstantTypes DEF Files
  <2> QED BY <2>1, <2>2, <1>0, <1>1 DEF TypeOK
<1>6. Names'
  <2>1. \A h \in Files : at[h] # ActiveName
    BY <1>1 DEF Active
  <2>2. \A h \in Files : h > made' => h > made /\ h # f
    BY <1>1, <1>2, <1>0, Ranges
  <2>3. Distinct(at)'
    BY <2>1, <1>0, <1>3 DEF Distinct, Names
  <2>4. \A h \in Files : h > made' => at'[h] = Absent
    BY <2>2, <1>0, <1>3 DEF Names
  <2> QED BY <2>3, <2>4, <1>1, <1>4 DEF Names
<1>7. \A h \in Rotated : at'[h] = at[h]
  BY <1>3, <1>4 DEF Rotated
<1>8. Dated' /\ ListLeft' /\ Kept' /\ Control'
  BY <1>0, <1>1, <1>2, <1>4, <1>7, ConstantTypes DEF Dated, ListLeft, Kept, Control
<1> QED BY <1>5, <1>6, <1>8 DEF RotationInv

LEMMA RotationStep ==
  ASSUME RotationInv, [Next]_vars
  PROVE  RotationInv'
<1>0. TypeOK /\ Control /\ today \in Int /\ today <= today
  BY ConstantTypes DEF RotationInv, TypeOK
<1> USE ConstantTypes
<1>1. CASE StartEmit
  <2>1. UNCHANGED <<at, size, made, today, doomed, torn, missed>> /\ pc = "idle"
        /\ pc' = IF size >= MaxRecords THEN "rotate" ELSE "append"
    BY <1>1 DEF StartEmit
  <2>2. TypeOK' /\ Control'
    BY <2>1, <1>0 DEF TypeOK, Control
  <2> QED BY <2>1, <2>2, <1>0, Still DEF RotationInv
<1>2. CASE EndCleanup \/ RepairTail
  <2>1. UNCHANGED <<at, size, made, today, doomed, missed>>
    BY <1>2 DEF EndCleanup, RepairTail
  <2>2. TypeOK'
    BY <1>2, <1>0 DEF TypeOK, EndCleanup, RepairTail
  <2>3. Control'
    <3>1. CASE EndCleanup
      BY <3>1, <1>0 DEF Control, EndCleanup
    <3>2. CASE RepairTail
      BY <3>2, <1>0 DEF Control, RepairTail
    <3> QED BY <1>2, <3>1, <3>2
  <2> QED BY <2>1, <2>2, <2>3, <1>0, Still DEF RotationInv
<1>3. CASE AppendBatch \/ TearRecord
  <2>1. /\ UNCHANGED <<at, made, today, doomed, missed>> /\ pc = "append" /\ pc' = "idle"
        /\ torn' \in {torn, TRUE}
    BY <1>3 DEF AppendBatch, TearRecord
  <2>2. PICK n \in 0..MaxBatch : size' = size + n
    BY <1>3 DEF AppendBatch, TearRecord
  <2>3. size \in Nat /\ size < MaxRecords /\ size' \in 0..(MaxRecords - 1 + MaxBatch)
    BY <2>1, <2>2, <1>0 DEF TypeOK, Control
  <2>4. TypeOK' /\ Control'
    BY <2>1, <2>3, <1>0 DEF TypeOK, Control
  <2> QED BY <2>1, <2>4, <1>0, Still DEF RotationInv
<1>4. CASE Crash
  <2>1. UNCHANGED <<at, size, made, today, torn>> /\ pc' = "idle" /\ doomed' = {}
        /\ missed' = missed \cup doomed
    BY <1>4 DEF Crash
  <2>2. TypeOK' /\ Control'
    BY <2>1, <1>0 DEF TypeOK, Control
  <2> QED BY <2>1, <2>2, MissStep DEF RotationInv
<1>5. CASE NextDay
  <2>1. UNCHANGED <<at, size, made, pc, doomed, torn, missed>> /\ today' = today + 1
        /\ today + 1 < Days
    BY <1>5 DEF NextDay
  <2>2. TypeOK' /\ Control' /\ today <= today' /\ today' \in Int
    BY <2>1, <1>0 DEF TypeOK, Control
  <2> QED BY <2>1, <2>2, Still DEF RotationInv
<1>6. ASSUME NEW f \in Files, RemoveFails(f) PROVE RotationInv'
  <2>1. UNCHANGED <<at, size, made, today, pc, torn>> /\ f \in doomed /\ pc = "cleanup"
        /\ doomed' = doomed \ {f} /\ missed' = missed \cup {f}
    BY <1>6 DEF RemoveFails
  <2>2. TypeOK' /\ Control'
    BY <2>1, <1>0 DEF TypeOK, Control
  <2>3. doomed' \subseteq doomed /\ doomed' \cup missed' = doomed \cup missed
    BY <2>1
  <2> QED BY <2>1, <2>2, <2>3, MissStep DEF RotationInv
<1>7. CASE UNCHANGED vars
  <2>1. UNCHANGED <<at, size, made, today, pc, doomed, torn, missed>>
    BY <1>7 DEF vars
  <2>2. TypeOK' /\ Control'
    BY <2>1, <1>0 DEF TypeOK, Control
  <2> QED BY <2>1, <2>2, <1>0, Still DEF RotationInv
<1> QED BY <1>1, <1>2, <1>3, <1>4, <1>5, <1>6, <1>7, RotateStep, RemoveStep, CreateActiveStep DEF Next

LEMMA RotationInit == Init => RotationInv
<1> SUFFICES ASSUME Init PROVE RotationInv
  OBVIOUS
<1>1. Absent # ActiveName /\ ActiveName \in Nat
  BY ConstantTypes DEF Absent, ActiveName
<1>2. /\ at = [f \in Files |-> Absent] /\ size = 0 /\ made = 0 /\ today = 0 /\ pc = "idle"
      /\ doomed = {} /\ torn = FALSE /\ missed = {}
  BY DEF Init
<1>3. Rotated = {} /\ Active = {}
  BY <1>1, <1>2 DEF Rotated, Active
<1>4. TypeOK
  <2>1. at \in [Files -> Absent..ActiveName]
    BY <1>1, <1>2 DEF Absent
  <2>2. size \in 0..(MaxRecords - 1 + MaxBatch) /\ made \in 0..MaxFiles /\ today \in 0..(Days - 1)
    BY <1>2, ConstantTypes
  <2> QED BY <2>1, <2>2, <1>2 DEF TypeOK
<1>5. Control /\ Names /\ Dated /\ ListLeft
  BY <1>2, <1>3 DEF Control, Names, Distinct, Dated, ListLeft
<1>6. Kept
  <2>1. Rotated \ (doomed \cup missed) = {}
    BY <1>3
  <2> QED BY <2>1, FS_EmptySet, ConstantTypes DEF Kept
<1> QED BY <1>4, <1>5, <1>6 DEF RotationInv

LEMMA RotationInvHolds == Spec => []RotationInv
BY RotationInit, RotationStep, PTL DEF Spec

\* Every variable of JsonlRotation keeps its type.  The size is checked before a
\* batch only, so the active file passes the threshold, but by less than the batch
\* that reaches it: whatever was torn or repaired, no emit starts above it.
THEOREM RotationTypeCorrect == Spec => []TypeOK
<1>1. RotationInv => TypeOK
  BY DEF RotationInv
<1> QED BY <1>1, RotationInvHolds, PTL

\* After every emit at most Keep rotated files are left, plus those whose removal
\* failed or was cut off since the last rotation, for every keep count.
THEOREM RetentionBounded == Spec => []RetentionLimit
<1>1. RotationInv => RetentionLimit
  <2> SUFFICES ASSUME RotationInv, pc = "idle"
               PROVE  Cardinality(Rotated) <= Keep + Cardinality(missed)
    BY DEF RetentionLimit
  <2>1. doomed = {} /\ missed \subseteq Files /\ Rotated \subseteq Files
    BY DEF RotationInv, Control, TypeOK, Rotated
  <2> DEFINE K == Rotated \ missed
  <2>2. K = Rotated \ (doomed \cup missed)
    BY <2>1
  <2>3. Cardinality(K) <= Keep
    BY <2>2 DEF RotationInv, Kept
  <2>4. /\ IsFiniteSet(K) /\ IsFiniteSet(missed) /\ IsFiniteSet(K \cup missed)
        /\ Cardinality(K) \in Nat /\ Cardinality(missed) \in Nat /\ Cardinality(Rotated) \in Nat
        /\ Cardinality(K \cup missed) \in Nat
    BY <2>1, FilesFinite
  <2>5. Cardinality(Rotated) <= Cardinality(K \cup missed)
    BY <2>4, FS_Subset
  <2>6. Cardinality(K \cup missed) <= Cardinality(K) + Cardinality(missed)
    <3>1. Cardinality(K \cup missed) = Cardinality(K) + Cardinality(missed) - Cardinality(K \cap missed)
      BY <2>4, FS_Union
    <3>2. Cardinality(K \cap missed) = 0
      <4>1. K \cap missed = {}
        OBVIOUS
      <4> QED BY <4>1, FS_EmptySet
    <3> HIDE DEF K
    <3> QED BY <3>1, <3>2, <2>4
  <2> HIDE DEF K
  <2> QED BY <2>3, <2>4, <2>5, <2>6, ConstantTypes
<1> QED BY <1>1, RotationInvHolds, PTL

\* Only these steps take a rotated file away.
LEMMA WhoRemoves ==
  ASSUME RotationInv, [Next]_vars
  PROVE  \/ UNCHANGED at
         \/ \E f \in Files : Remove(f) \/ CreateActive(f) \/ \E n \in NamesOf(today) : Rotate(f, n)
BY DEF Next, vars, StartEmit, EndCleanup, AppendBatch, Crash, TearRecord, RepairTail, NextDay,
       RemoveFails

\* A removal leaves at least Keep rotated files, wherever earlier clean-ups failed
\* or stopped.
THEOREM CleanupKeepsEnough == Spec => KeepsEnough
<1> DEFINE A == Rotated' # Rotated /\ made' = made /\ Active' = Active => Cardinality(Rotated') >= Keep
<1>1. ASSUME RotationInv, [Next]_vars PROVE [A]_vars
  <2>1. ASSUME NEW f \in Files, Remove(f) PROVE A
    <3>1. /\ f \in doomed /\ at' = [at EXCEPT ![f] = Absent]
          /\ f \in Rotated /\ Cardinality(Above(at, f)) >= Keep
      BY <1>1, <2>1 DEF Remove, RotationInv, ListLeft
    <3>2. Above(at, f) \subseteq Rotated'
      <4> SUFFICES ASSUME NEW h \in Files, at[h] # ActiveName, at[h] > at[f] PROVE h \in Rotated'
        BY DEF Above
      <4>1. at[f] \in Nat /\ at[h] \in Int
        BY <3>1, <1>1, Ranges DEF RotationInv
      <4>2. h # f /\ at[h] # Absent /\ at'[h] = at[h]
        BY <4>1, <3>1, <1>1 DEF Absent, RotationInv, TypeOK
      <4> QED BY <4>2 DEF Rotated
    <3>3. Cardinality(Above(at, f)) \in Nat /\ IsFiniteSet(Rotated') /\ Cardinality(Rotated') \in Nat
      BY FilesFinite DEF Above, Rotated
    <3>4. Cardinality(Above(at, f)) <= Cardinality(Rotated')
      BY <3>2, <3>3, FS_Subset
    <3> QED BY <3>1, <3>3, <3>4, ConstantTypes
  <2>2. ASSUME NEW f \in Files, CreateActive(f) PROVE A
    <3>1. made' = made + 1 /\ made \in Nat
      BY <1>1, <2>2, ConstantTypes DEF CreateActive, RotationInv, TypeOK
    <3> QED BY <3>1
  <2>3. ASSUME NEW f \in Files, NEW n \in NamesOf(today), Rotate(f, n) PROVE A
    <3>1. n # ActiveName
      <4>1. today \in 0..(Days - 1)
        BY <1>1 DEF RotationInv, TypeOK
      <4> QED BY <4>1, NamesInRange
    <3>2. f \in Active /\ f \notin Active'
      BY <2>3, <3>1, <1>1 DEF Rotate, Active, RotationInv, TypeOK
    <3> QED BY <3>2
  <2>4. ASSUME UNCHANGED at PROVE A
    BY <2>4 DEF Rotated
  <2> QED BY <1>1, WhoRemoves, <2>1, <2>2, <2>3, <2>4
<1> QED BY <1>1, RotationInvHolds, PTL DEF Spec, KeepsEnough

\* Across dates a clean-up removes oldest-first, failed removals excepted.
THEOREM RemovesOldestDateFirst == Spec => OldestDateFirst
<1> DEFINE A == \A f \in Rotated, h \in Rotated' :
                  at'[f] = Absent /\ h < f => DateOf(at[h]) = DateOf(at[f]) \/ h \in missed
<1>1. ASSUME RotationInv, [Next]_vars PROVE [A]_vars
  <2>0. TypeOK /\ \A f \in Rotated : f \in Files /\ at[f] \in Nat /\ at[f] # Absent
    BY <1>1, Ranges DEF RotationInv, Rotated
  <2>1. ASSUME NEW g \in Files, Remove(g) PROVE A
    <3> SUFFICES ASSUME NEW f \in Rotated, NEW h \in Rotated', at'[f] = Absent, h < f
                 PROVE  DateOf(at[h]) = DateOf(at[f]) \/ h \in missed
      OBVIOUS
    <3>1. /\ at' = [at EXCEPT ![g] = Absent] /\ g \in doomed
          /\ \A k \in doomed : at[g] <= at[k]
      BY <2>1 DEF Remove
    <3>2. f = g
      BY <3>1, <2>0 DEF TypeOK
    <3>3. h \in Rotated /\ h # f /\ h \in Files
      BY <3>1, <2>0 DEF Rotated, TypeOK
    <3>4. at[h] \in Nat /\ at[f] \in Nat /\ at[h] # at[f]
      BY <2>0, <3>3, <1>1 DEF RotationInv, Names, Distinct
    <3>5. DateOf(at[h]) <= DateOf(at[f])
      BY <3>3, <1>1 DEF RotationInv, Dated
    <3>6. CASE at[h] < at[f]
      <4>1. h \in doomed \cup missed
        BY <3>1, <3>2, <3>3, <3>6, <1>1 DEF RotationInv, ListLeft
      <4>2. h \notin doomed
        BY <3>1, <3>2, <3>4, <3>6
      <4> QED BY <4>1, <4>2
    <3>7. CASE at[f] < at[h]
      <4>1. DateOf(at[f]) <= DateOf(at[h])
        BY <3>4, <3>7, DateMonotone
      <4>2. DateOf(at[f]) \in Int /\ DateOf(at[h]) \in Int
        BY <3>4, DateBounds
      <4> QED BY <4>1, <4>2, <3>5
    <3> QED BY <3>4, <3>6, <3>7
  <2>2. ASSUME NEW g \in Files, CreateActive(g) PROVE A
    <3>1. at' = [at EXCEPT ![g] = ActiveName] /\ ActiveName # Absent
      BY <2>0, <2>2, Ranges DEF CreateActive, Absent
    <3>2. \A f \in Rotated : at'[f] # Absent
      BY <3>1, <2>0 DEF TypeOK
    <3> QED BY <3>2
  <2>3. ASSUME NEW g \in Files, NEW n \in NamesOf(today), Rotate(g, n) PROVE A
    <3>1. n # Absent
      <4>1. today \in 0..(Days - 1)
        BY <2>0 DEF TypeOK
      <4>2. n \in Nat
        BY <4>1, NamesInRange
      <4> QED BY <4>2 DEF Absent
    <3>2. \A f \in Rotated : at'[f] # Absent
      BY <2>3, <3>1, <2>0 DEF Rotate, TypeOK
    <3> QED BY <3>2
  <2>4. ASSUME UNCHANGED at PROVE A
    BY <2>4, <2>0
  <2> QED BY <1>1, WhoRemoves, <2>1, <2>2, <2>3, <2>4
<1> QED BY <1>1, RotationInvHolds, PTL DEF Spec, OldestDateFirst
=============================================================================
