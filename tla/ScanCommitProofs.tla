------------------------- MODULE ScanCommitProofs -------------------------
(***************************************************************************)
(* Proofs about ScanCommit.  Each safety property rests on an invariant    *)
(* that says of the state in memory what the property says of the          *)
(* installed one, with what the scan is about to write counted as written. *)
(***************************************************************************)
EXTENDS ScanCommit, NumberFacts

-----------------------------------------------------------------------------
(* Keys of different kinds differ; keys of one kind tell their subjects    *)
(* apart.                                                                  *)

LEMMA KeyTags ==
  /\ \A d : Seen(d)[1] = "seen"
  /\ \A p : Legacy(p)[1] = "legacy"
  /\ \A c : ScannerError(c)[1] = "scanner_error"
  /\ \A c : Outage(c)[1] = "outage"
  /\ Threshold[1] = "threshold"
  /\ \A t : Health(t)[1] = "health" /\ Health(t)[2] = t
  /\ \A s, id, ref : /\ Episode(s, id, ref)[1] = "episode"
                     /\ Episode(s, id, ref)[2] = s
                     /\ Episode(s, id, ref)[3] = id
                     /\ Episode(s, id, ref)[4] = ref
BY DEF Seen, Legacy, ScannerError, Outage, Threshold, Health, Episode

LEMMA KeysDiffer ==
  /\ \A d, e \in Detections : Seen(d) = Seen(e) => d = e
  /\ \A p, q : Legacy(p) = Legacy(q) => p = q
  /\ \A b, c : Outage(b) = Outage(c) => b = c
BY DEF Seen, Legacy, Outage, Detections

-----------------------------------------------------------------------------
(* Types.                                                                  *)

Phases == {"idle", "prepared", "drained", "persisted", "installed", "delivered",
           "observed", "alerted"}
Kinds == {"full", "targeted", "backfill"}
AllKeys ==
  {Seen(d) : d \in Detections} \cup {Legacy(p) : p \in Postures}
  \cup {ScannerError(c) : c \in Clients} \cup {Outage(c) : c \in Clients}
  \cup {Threshold} \cup {Health(t) : t \in Nat}
  \cup {Episode(x[1], x[2], x[3]) : x \in Sinks \X Identities \X Nat}
States == [keys : SUBSET AllKeys, baseline : [Clients -> SUBSET Postures],
           observed : SUBSET Clients]

WorldTypes ==
  /\ wall \in Nat /\ wall >= 1 /\ mono \in Nat /\ mono >= 1
  /\ setup \in Setups
  /\ content \in [Clients -> SUBSET Detections]
  /\ failing \subseteq Clients

ScanTypes ==
  /\ pc \in Phases /\ kind \in Kinds
  /\ targets \subseteq Clients /\ lost \subseteq targets
  /\ observed \in Nat
  /\ disk \in States /\ mem \in States
  /\ fails \in [Sinks -> Seq(Failure)]
  /\ alert.honor \in BOOLEAN /\ alert.success \in [Sinks -> Nat]

HistoryTypes ==
  /\ sink \in [Sinks -> [success : Nat, error : Nat]]
  /\ heartbeat \in [last : SUBSET Nat, retry : Nat]
  /\ journal \subseteq Detections
  /\ toldSink \in [Sinks -> SUBSET Identities] /\ unseen \in [Sinks -> BOOLEAN]

TypeInv == WorldTypes /\ ScanTypes /\ HistoryTypes

-----------------------------------------------------------------------------
(* One evaluation: every way to start a scan is one.                       *)

LEMMA ScanStarts ==
  ASSUME FullScan \/ TargetedScan \/ Backfill
  PROVE  \E k \in Kinds, ts \in SUBSET Clients, due \in BOOLEAN :
            \E first \in Orders(Found(ts)) : Evaluate(k, ts, due, first)
<1>1. CASE FullScan
  <2>1. IsDue \in BOOLEAN
    BY DEF IsDue
  <2> QED BY <1>1, <2>1 DEF FullScan, Start, Kinds
<1>2. CASE TargetedScan
  BY <1>2 DEF TargetedScan, Start, Kinds
<1>3. CASE Backfill
  BY <1>3 DEF Backfill, Start, Kinds
<1> QED BY <1>1, <1>2, <1>3

LEMMA FoundTypes ==
  ASSUME TypeInv, NEW ts \in SUBSET Clients
  PROVE  /\ Found(ts) \subseteq Detections
         /\ Failed(ts) \subseteq ts
BY DEF TypeInv, WorldTypes, Found, Failed

\* The keys of an evaluation, kind by kind of key.
LEMMA EvaluatedKeys ==
  ASSUME TypeInv, NEW k \in Kinds, NEW ts \in SUBSET Clients, NEW due \in BOOLEAN,
         NEW first \in Orders(Found(ts)), Evaluate(k, ts, due, first)
  PROVE  /\ \A d \in Detections : Seen(d) \in mem'.keys <=>
                Seen(d) \in disk.keys \/ (k # "backfill" /\ d \in Found(ts))
         /\ \A p : Legacy(p) \in mem'.keys <=> Legacy(p) \in disk.keys
         /\ \A c : Outage(c) \in mem'.keys <=>
                IF k = "targeted" THEN Outage(c) \in disk.keys
                ELSE c \in Failed(ts) \/ (c \notin ts \ failing /\ Outage(c) \in disk.keys)
         /\ Threshold \in mem'.keys <=>
                IF k = "full" THEN Above(ts) ELSE Threshold \in disk.keys
         /\ \A x : x[1] = "episode" => (x \in mem'.keys <=> x \in disk.keys)
         /\ \A x : x[1] = "health" /\ x \in mem'.keys =>
                x \in disk.keys \/ (x = Health(wall) /\ <<"health">> \in events')
<1> DEFINE chosen == Selected(k, ts, first)
<1>1. \A x : x[1] # "health" => (x \in mem'.keys <=> x \in chosen.keys)
  <2>1. mem'.keys = chosen.keys \/ mem'.keys = WithHealth(chosen.keys)
    BY DEF Evaluate
  <2> QED BY <2>1, KeyTags DEF WithHealth
<1>2. \A x : x[1] = "health" /\ x \in mem'.keys =>
                x \in chosen.keys \/ (x = Health(wall) /\ <<"health">> \in events')
  BY DEF Evaluate, WithHealth
<1>3. chosen.keys = IF k = "backfill" THEN Latched(disk.keys, k, ts)
                    ELSE Latched(disk.keys \cup {Seen(d) : d \in Found(ts)}
                                 \cup {ScannerError(c) : c \in Failed(ts)}, k, ts)
  BY DEF Selected, SelectEvents
<1> DEFINE K == IF k = "backfill" THEN disk.keys
                ELSE disk.keys \cup {Seen(d) : d \in Found(ts)}
                     \cup {ScannerError(c) : c \in Failed(ts)}
<1>4. chosen.keys = Latched(K, k, ts)
  BY <1>3
<1>5. \A x : x[1] \notin {"outage", "threshold"} => (x \in chosen.keys <=> x \in K)
  <2> HIDE DEF K, chosen
  <2> QED BY <1>4, KeyTags DEF Latched
<1>6. \A x : x[1] \notin {"seen", "scanner_error"} => (x \in K <=> x \in disk.keys)
  BY KeyTags
<1>7. \A d \in Detections : Seen(d) \in K <=>
                Seen(d) \in disk.keys \/ (k # "backfill" /\ d \in Found(ts))
  <2>1. \A d, c : Seen(d) # ScannerError(c)
    BY KeyTags
  <2> QED BY <2>1, KeysDiffer, FoundTypes
<1>8. \A c : Outage(c) \in chosen.keys <=>
                IF k = "targeted" THEN Outage(c) \in disk.keys
                ELSE c \in Failed(ts) \/ (c \notin ts \ failing /\ Outage(c) \in disk.keys)
  <2>1. \A c : Outage(c) \in K <=> Outage(c) \in disk.keys
    BY <1>6, KeyTags
  <2>2. \A c : Outage(c) # Threshold
    BY KeyTags
  <2> HIDE DEF K, chosen
  <2> QED BY <1>4, <2>1, <2>2, KeysDiffer DEF Latched, Failed
<1>9. Threshold \in chosen.keys <=> IF k = "full" THEN Above(ts) ELSE Threshold \in disk.keys
  <2>1. Threshold \in K <=> Threshold \in disk.keys
    BY <1>6, KeyTags
  <2>2. \A c : Outage(c) # Threshold
    BY KeyTags
  <2> HIDE DEF K, chosen
  <2> QED BY <1>4, <2>1, <2>2 DEF Latched, Kinds
<1> HIDE DEF K, chosen
<1>10. \A d \in Detections : Seen(d) \in mem'.keys <=>
                Seen(d) \in disk.keys \/ (k # "backfill" /\ d \in Found(ts))
  BY <1>1, <1>5, <1>7, KeyTags
<1>11. \A p : Legacy(p) \in mem'.keys <=> Legacy(p) \in disk.keys
  BY <1>1, <1>5, <1>6, KeyTags
<1>12. \A x : x[1] = "episode" => (x \in mem'.keys <=> x \in disk.keys)
  BY <1>1, <1>5, <1>6
<1>13. \A x : x[1] = "health" /\ x \in mem'.keys =>
                x \in disk.keys \/ (x = Health(wall) /\ <<"health">> \in events')
  BY <1>2, <1>5, <1>6
<1> QED BY <1>1, <1>8, <1>9, <1>10, <1>11, <1>12, <1>13, KeyTags

-----------------------------------------------------------------------------
(* Type correctness.                                                       *)

LEMMA EvaluateTypes ==
  ASSUME TypeInv, NEW k \in Kinds, NEW ts \in SUBSET Clients, NEW due \in BOOLEAN,
         NEW first \in Orders(Found(ts)), Evaluate(k, ts, due, first)
  PROVE  TypeInv'
<1> DEFINE chosen == Selected(k, ts, first)
<1>1. chosen.keys \subseteq AllKeys
  <2>1. {Outage(c) : c \in Failed(ts)} \cup {Threshold}
        \cup {Seen(d) : d \in Found(ts)} \cup {ScannerError(c) : c \in Failed(ts)}
          \subseteq AllKeys
    BY FoundTypes DEF AllKeys
  <2>2. disk.keys \subseteq AllKeys
    BY DEF TypeInv, ScanTypes, States
  <2>3. \A K : K \subseteq AllKeys => Latched(K, k, ts) \subseteq AllKeys
    BY <2>1 DEF Latched
  <2>4. chosen.keys = IF k = "backfill" THEN Latched(disk.keys, k, ts)
                      ELSE Latched(disk.keys \cup {Seen(d) : d \in Found(ts)}
                                   \cup {ScannerError(c) : c \in Failed(ts)}, k, ts)
    BY DEF Selected, SelectEvents
  <2> HIDE DEF chosen
  <2> QED BY <2>1, <2>2, <2>3, <2>4
<1>2. mem'.keys \subseteq AllKeys
  <2>1. Health(wall) \in AllKeys
    BY DEF AllKeys, TypeInv, WorldTypes
  <2>2. mem'.keys = chosen.keys \/ mem'.keys = WithHealth(chosen.keys)
    BY DEF Evaluate
  <2> HIDE DEF chosen
  <2> QED BY <1>1, <2>1, <2>2 DEF WithHealth
<1>3. mem' = [keys |-> mem'.keys,
              baseline |-> IF k = "backfill" THEN disk.baseline
                           ELSE [c \in Clients |-> IF c \in ts \ failing
                                                   THEN Contribution(content[c])
                                                   ELSE disk.baseline[c]],
              observed |-> IF k = "targeted" THEN disk.observed \cup ts ELSE ts]
  BY DEF Evaluate
<1>4. \A c \in Clients : Contribution(content[c]) \subseteq Postures
  BY DEF TypeInv, WorldTypes, Contribution, Detections
<1>5. disk.baseline \in [Clients -> SUBSET Postures] /\ disk.observed \subseteq Clients
  BY DEF TypeInv, ScanTypes, States
<1>6. mem' \in States
  <2>1. (IF k = "backfill" THEN disk.baseline
         ELSE [c \in Clients |-> IF c \in ts \ failing THEN Contribution(content[c])
                                 ELSE disk.baseline[c]]) \in [Clients -> SUBSET Postures]
    BY <1>4, <1>5
  <2>2. (IF k = "targeted" THEN disk.observed \cup ts ELSE ts) \subseteq Clients
    BY <1>5
  <2> QED BY <1>2, <1>3, <2>1, <2>2 DEF States
<1>7. WorldTypes' /\ HistoryTypes'
  BY DEF TypeInv, WorldTypes, HistoryTypes, Evaluate, worldVars, sinkVars
<1>8. ScanTypes'
  BY <1>6 DEF TypeInv, ScanTypes, WorldTypes, Evaluate, Phases, Failed
<1> QED BY <1>7, <1>8 DEF TypeInv

LEMMA FreshTypes == Fresh \in States
BY DEF Fresh, States

LEMMA EndTypes ==
  ASSUME TypeInv, EndScan
  PROVE  /\ pc' \in Phases /\ kind' \in Kinds
         /\ targets' \subseteq Clients /\ lost' \subseteq targets'
         /\ observed' \in Nat /\ mem' \in States
         /\ fails' \in [Sinks -> Seq(Failure)]
         /\ alert'.honor \in BOOLEAN /\ alert'.success \in [Sinks -> Nat]
         /\ wall' \in Nat /\ wall' >= 1 /\ mono' \in Nat /\ mono' >= 1
BY FreshTypes DEF TypeInv, WorldTypes, EndScan, Phases, Kinds, NoAlert

LEMMA HealthTimesTypes ==
  ASSUME NEW K \in SUBSET AllKeys
  PROVE  HealthTimes(K) \subseteq Nat
<1>1. \A x \in AllKeys : x[1] = "health" => x[2] \in Nat
  BY KeyTags DEF AllKeys
<1> QED BY <1>1 DEF HealthTimes

\* What a dispatch leaves, inside a scan or not.
LEMMA DispatchedTypes ==
  ASSUME TypeInv, NEW o \in [Sinks -> Outcome], NEW t \in Nat, Dispatched(o, t)
  PROVE  /\ \A s \in Sinks : o[s].ok \in BOOLEAN /\ o[s].fails \in Seq(Failure)
         /\ sink' \in [Sinks -> [success : Nat, error : Nat]]
         /\ unseen' \in [Sinks -> BOOLEAN]
         /\ ToldSince(o) \in [Sinks -> SUBSET Identities]
<1>1. \A s \in Sinks : o[s].ok \in BOOLEAN /\ o[s].fails \in Seq(Failure)
  <2>1. \A q \in BoundedSeq(Failure, MaxFails) : q \in Seq(Failure)
    BY BoundAssumption DEF BoundedSeq, SeqOf
  <2>2. \A x \in Outcome : x.ok \in BOOLEAN /\ x.fails \in BoundedSeq(Failure, MaxFails)
    BY DEF Outcome
  <2> QED BY <2>1, <2>2
<1>2. sink' \in [Sinks -> [success : Nat, error : Nat]]
  BY DEF Dispatched, TypeInv, HistoryTypes
<1>3. unseen' \in [Sinks -> BOOLEAN]
  <2>1. \A s \in Sinks : unseen[s] \in BOOLEAN
    BY DEF TypeInv, HistoryTypes
  <2>2. \A S : (t \in S) \in BOOLEAN
    OBVIOUS
  <2> QED BY <2>1, <2>2, Zenon DEF Dispatched
<1>4. ToldSince(o) \in [Sinks -> SUBSET Identities]
  BY DEF ToldSince, TypeInv, HistoryTypes
<1> QED BY <1>1, <1>2, <1>3, <1>4

\* The three dispatches that neither end a scan nor touch its state.
LEMMA DispatchSteps ==
  ASSUME TypeInv, Drain \/ Deliver \/ \E s \in Sinks, t \in 1..wall : Dispatch(s, t)
  PROVE  /\ \E o \in [Sinks -> Outcome], t \in Nat :
               /\ t >= 1 /\ Dispatched(o, t) /\ toldSink' = ToldSince(o)
               /\ \/ fails' = fails
                  \/ fails' = [s \in Sinks |-> o[s].fails]
                  \/ fails' = [s \in Sinks |-> fails[s] \o o[s].fails]
         /\ UNCHANGED <<wall, mono, content, failing, setup, disk, kind, targets, lost, observed,
                        mem, events, alert, heartbeat, journal, told, healths>>
         /\ \/ pc' = pc
            \/ pc = "prepared" /\ pc' = "drained"
            \/ pc = "installed" /\ pc' = "delivered"
<1>1. wall \in Nat /\ wall >= 1 /\ Dispatches \subseteq [Sinks -> Outcome]
  BY DEF TypeInv, WorldTypes, Dispatches
<1>2. CASE Drain
  BY <1>1, <1>2 DEF Drain, worldVars
<1>3. CASE Deliver
  BY <1>1, <1>3 DEF Deliver, worldVars
<1>4. ASSUME NEW s \in Sinks, NEW t \in 1..wall, Dispatch(s, t)
      PROVE  /\ \E o \in [Sinks -> Outcome] :
                   Dispatched(o, t) /\ toldSink' = ToldSince(o) /\ fails' = fails
             /\ t \in Nat /\ t >= 1 /\ pc' = pc
             /\ UNCHANGED <<wall, mono, content, failing, setup, disk, kind, targets, lost,
                            observed, mem, events, alert, heartbeat, journal, told, healths>>
  BY <1>1, <1>4 DEF Dispatch, scanVars
<1> QED BY <1>2, <1>3, <1>4

LEMMA DispatchStepTypes ==
  ASSUME TypeInv, Drain \/ Deliver \/ \E s \in Sinks, t \in 1..wall : Dispatch(s, t)
  PROVE  TypeInv'
<1>1. PICK o \in [Sinks -> Outcome], t \in Nat :
               /\ t >= 1 /\ Dispatched(o, t) /\ toldSink' = ToldSince(o)
               /\ \/ fails' = fails
                  \/ fails' = [s \in Sinks |-> o[s].fails]
                  \/ fails' = [s \in Sinks |-> fails[s] \o o[s].fails]
  BY DispatchSteps
<1>2. fails' \in [Sinks -> Seq(Failure)]
  <2>1. \A s \in Sinks : o[s].fails \in Seq(Failure) /\ fails[s] \in Seq(Failure)
    BY <1>1, DispatchedTypes DEF TypeInv, ScanTypes
  <2>2. \A s \in Sinks : fails[s] \o o[s].fails \in Seq(Failure)
    BY <2>1
  <2> QED BY <1>1, <2>1, <2>2 DEF TypeInv, ScanTypes
<1>3. HistoryTypes'
  BY <1>1, DispatchedTypes, DispatchSteps DEF TypeInv, HistoryTypes
<1>4. WorldTypes'
  BY DispatchSteps DEF TypeInv, WorldTypes
<1>5. ScanTypes'
  BY <1>2, DispatchSteps DEF TypeInv, ScanTypes, Phases
<1> QED BY <1>3, <1>4, <1>5 DEF TypeInv

\* What Observe does to the keys.
LEMMA ObservedKeys ==
  ASSUME TypeInv, Observe
  PROVE  \E readable \in BOOLEAN :
           /\ mem'.keys = Cleared(mem.keys, readable)
           /\ mem' = [mem EXCEPT !.keys = mem'.keys]
           /\ mem'.keys \subseteq mem.keys
           /\ \A x : x[1] # "episode" => (x \in mem'.keys <=> x \in mem.keys)
           /\ alert'.honor = readable
           /\ alert'.success = [s \in Sinks |-> IF readable /\ s \in DurableSinks
                                                THEN sink[s].success ELSE 0]
           /\ alert'.silent = UNION {{<<s, id>> : id \in Silenced(mem'.keys, readable, s)} :
                                       s \in Sinks}
<1>1. PICK readable \in BOOLEAN :
         LET keys == Cleared(mem.keys, readable)
         IN  /\ mem' = [mem EXCEPT !.keys = keys]
             /\ alert' = [silent |-> UNION {{<<s, id>> : id \in Silenced(keys, readable, s)} :
                                              s \in Sinks},
                          honor |-> readable,
                          success |-> [s \in Sinks |-> IF readable /\ s \in DurableSinks
                                                       THEN sink[s].success ELSE 0],
                          changed |-> keys # mem.keys, refused |-> FALSE]
  BY DEF Observe
<1> DEFINE keys == Cleared(mem.keys, readable)
<1>2. keys \subseteq mem.keys /\ \A x : x[1] # "episode" => (x \in keys <=> x \in mem.keys)
  BY DEF Cleared, EpisodesOf
<1>3. mem'.keys = keys
  BY <1>1 DEF TypeInv, ScanTypes, States
<1>4. /\ alert'.honor = readable
      /\ alert'.success = [s \in Sinks |-> IF readable /\ s \in DurableSinks
                                           THEN sink[s].success ELSE 0]
      /\ alert'.silent = UNION {{<<s, id>> : id \in Silenced(keys, readable, s)} : s \in Sinks}
  BY <1>1
<1> HIDE DEF keys
<1>5. WITNESS readable \in BOOLEAN
<1> QED BY <1>1, <1>2, <1>3, <1>4 DEF keys

LEMMA ObserveTypes ==
  ASSUME TypeInv, Observe
  PROVE  TypeInv'
<1>1. PICK readable \in BOOLEAN :
           /\ mem' = [mem EXCEPT !.keys = mem'.keys]
           /\ mem'.keys \subseteq mem.keys
           /\ alert'.honor = readable
           /\ alert'.success = [s \in Sinks |-> IF readable /\ s \in DurableSinks
                                                THEN sink[s].success ELSE 0]
  BY ObservedKeys
<1>2. mem' \in States
  BY <1>1 DEF TypeInv, ScanTypes, States
<1>3. alert'.success \in [Sinks -> Nat]
  BY <1>1 DEF TypeInv, HistoryTypes
<1>4. WorldTypes' /\ HistoryTypes'
  BY DEF TypeInv, WorldTypes, HistoryTypes, Observe, worldVars, sinkVars
<1>5. ScanTypes'
  BY <1>1, <1>2, <1>3 DEF TypeInv, ScanTypes, Observe, Phases
<1> QED BY <1>4, <1>5 DEF TypeInv

\* What Alert does to the keys.
LEMMA AlertedKeys ==
  ASSUME TypeInv, Alert
  PROVE  \E accepted \in BOOLEAN, o \in [Sinks -> Outcome] :
           /\ Dispatched(o, wall)
           /\ mem' = [mem EXCEPT !.keys = mem'.keys]
           /\ \A x : x[1] # "episode" => (x \in mem'.keys <=> x \in mem.keys)
           /\ \A s \in Sinks : EpisodesOf(mem'.keys, s) = Recorded(mem.keys, s, accepted)
           /\ mem'.keys = {k \in mem.keys : k[1] # "episode"} \cup
                          UNION {Recorded(mem.keys, s, accepted) : s \in Sinks}
           /\ toldSink' = [s \in Sinks |-> ToldSince(o)[s] \cup
                             IF accepted THEN Alerted(mem.keys, alert.honor, s) ELSE {}]
<1>1. PICK admitted \in BOOLEAN, o \in [Sinks -> Outcome] :
         LET alerts == Alerts(mem.keys, alert.honor)
             accepted == admitted \/ ~alerts
             episodes == UNION {Recorded(mem.keys, s, accepted) : s \in Sinks}
         IN  /\ Dispatched(o, wall)
             /\ mem' = [mem EXCEPT !.keys = {k \in @ : k[1] # "episode"} \cup episodes]
             /\ toldSink' = [s \in Sinks |-> ToldSince(o)[s] \cup
                               IF accepted THEN Alerted(mem.keys, alert.honor, s) ELSE {}]
  BY DEF Alert, Dispatches
<1> DEFINE accepted == admitted \/ ~Alerts(mem.keys, alert.honor)
<1>2. accepted \in BOOLEAN
  OBVIOUS
<1>3. mem'.keys = {k \in mem.keys : k[1] # "episode"} \cup
                  UNION {Recorded(mem.keys, s, accepted) : s \in Sinks}
  BY <1>1 DEF TypeInv, ScanTypes, States
<1>4. \A s \in Sinks : \A k \in Recorded(mem.keys, s, accepted) : k[1] = "episode" /\ k[2] = s
  BY KeyTags DEF Recorded, EpisodesOf
<1>5. \A s \in Sinks : EpisodesOf(mem'.keys, s) = Recorded(mem.keys, s, accepted)
  <2> HIDE DEF accepted
  <2> QED BY <1>3, <1>4 DEF EpisodesOf
<1>6. \A x : x[1] # "episode" => (x \in mem'.keys <=> x \in mem.keys)
  <2> HIDE DEF accepted
  <2> QED BY <1>3, <1>4
<1>7. mem' = [mem EXCEPT !.keys = mem'.keys]
  BY <1>1, <1>3
<1>8. WITNESS accepted \in BOOLEAN, o \in [Sinks -> Outcome]
<1> QED BY <1>1, <1>3, <1>5, <1>6, <1>7

LEMMA AlertTypes ==
  ASSUME TypeInv, Alert
  PROVE  TypeInv'
<1>1. PICK accepted \in BOOLEAN, o \in [Sinks -> Outcome] :
           /\ Dispatched(o, wall)
           /\ mem' = [mem EXCEPT !.keys = mem'.keys]
           /\ mem'.keys = {k \in mem.keys : k[1] # "episode"} \cup
                          UNION {Recorded(mem.keys, s, accepted) : s \in Sinks}
           /\ toldSink' = [s \in Sinks |-> ToldSince(o)[s] \cup
                             IF accepted THEN Alerted(mem.keys, alert.honor, s) ELSE {}]
  BY AlertedKeys
<1>2. \A s \in Sinks : Recorded(mem.keys, s, accepted) \subseteq AllKeys
  <2> SUFFICES ASSUME NEW s \in Sinks
               PROVE  Recorded(mem.keys, s, accepted) \subseteq AllKeys
    OBVIOUS
  <2>1. EpisodesOf(mem.keys, s) \subseteq AllKeys
    BY DEF EpisodesOf, TypeInv, ScanTypes, States
  <2>2. \A id \in Identities, ref \in Nat : Episode(s, id, ref) \in AllKeys
    <3> SUFFICES ASSUME NEW id \in Identities, NEW ref \in Nat
                 PROVE  Episode(s, id, ref) \in AllKeys
      OBVIOUS
    <3>1. <<s, id, ref>> \in Sinks \X Identities \X Nat
      OBVIOUS
    <3>2. Episode(s, id, ref) = Episode(<<s, id, ref>>[1], <<s, id, ref>>[2], <<s, id, ref>>[3])
      OBVIOUS
    <3> QED BY <3>1, <3>2 DEF AllKeys
  <2>3. alert.success[s] \in Nat
    BY DEF TypeInv, ScanTypes
  <2> QED BY <2>1, <2>2, <2>3 DEF Recorded
<1>3. mem'.keys \subseteq AllKeys
  BY <1>1, <1>2 DEF TypeInv, ScanTypes, States
<1>4. mem' \in States
  BY <1>1, <1>3 DEF TypeInv, ScanTypes, States
<1>5. wall \in Nat
  BY DEF TypeInv, WorldTypes
<1>6. toldSink' \in [Sinks -> SUBSET Identities]
  <2>1. \A s \in Sinks : ToldSince(o)[s] \subseteq Identities
    BY <1>1, <1>5, DispatchedTypes
  <2> QED BY <1>1, <2>1 DEF Alerted
<1>7. WorldTypes' /\ HistoryTypes'
  BY <1>1, <1>5, <1>6, DispatchedTypes
     DEF TypeInv, WorldTypes, HistoryTypes, Alert, worldVars
<1>8. alert'.honor \in BOOLEAN /\ alert'.success \in [Sinks -> Nat]
  BY DEF Alert, NoAlert
<1>9. ScanTypes'
  BY <1>4, <1>8 DEF TypeInv, ScanTypes, Alert, Phases
<1> QED BY <1>7, <1>9 DEF TypeInv

LEMMA EndStepTypes ==
  ASSUME TypeInv, Finish \/ Stop \/ QueueFull
  PROVE  TypeInv'
<1>1. EndScan
  BY DEF Finish, Stop, QueueFull
<1>2. disk' \in States
  BY DEF Finish, Stop, QueueFull, TypeInv, ScanTypes
<1>3. /\ HealthTimes(mem.keys) \subseteq Nat /\ HealthTimes(disk.keys) \subseteq Nat
      /\ HealthTimes(disk'.keys) \subseteq Nat
  BY <1>2, HealthTimesTypes DEF TypeInv, ScanTypes, States
<1>4. heartbeat' \in [last : SUBSET Nat, retry : Nat]
  BY <1>3 DEF Finish, Stop, QueueFull, Restarted, TypeInv, WorldTypes
<1>5. WorldTypes'
  BY <1>1, EndTypes DEF TypeInv, WorldTypes, Finish, Stop, QueueFull
<1>6. HistoryTypes'
  BY <1>4 DEF TypeInv, HistoryTypes, Finish, Stop, QueueFull, sinkVars
<1>7. ScanTypes'
  BY <1>1, <1>2, EndTypes DEF ScanTypes
<1> QED BY <1>5, <1>6, <1>7 DEF TypeInv

LEMMA TypeInit ==
  ASSUME Init
  PROVE  TypeInv
<1>1. WorldTypes
  BY SetupAssumption DEF Init, WorldTypes, Detections
<1>2. ScanTypes
  <2>1. {Legacy(p) : p \in setup.legacy} \subseteq AllKeys
    BY SetupAssumption DEF Init, AllKeys
  <2>2. [c \in Clients |-> Contribution(content[c])] \in [Clients -> SUBSET Postures]
    BY <1>1 DEF Contribution, WorldTypes, Detections
  <2>3. disk \in States
    BY <2>1, <2>2 DEF Init, States
  <2> QED BY <2>3, FreshTypes DEF Init, ScanTypes, Phases, Kinds, NoAlert
<1>3. HistoryTypes
  BY DEF Init, HistoryTypes
<1> QED BY <1>1, <1>2, <1>3 DEF TypeInv

LEMMA TypeStep ==
  ASSUME TypeInv, [Next]_vars
  PROVE  TypeInv'
<1>1. CASE Tick
  BY <1>1 DEF Tick, TypeInv, WorldTypes, ScanTypes, HistoryTypes, scanVars, sinkVars
<1>2. CASE Jump
  <2>1. setup.maxTime \in Nat
    BY SetupAssumption DEF TypeInv, WorldTypes
  <2> QED BY <1>2, <2>1
          DEF Jump, TypeInv, WorldTypes, ScanTypes, HistoryTypes, scanVars, sinkVars
<1>3. ASSUME NEW c \in setup.changing, Change(c) PROVE TypeInv'
  BY <1>3 DEF Change, TypeInv, WorldTypes, ScanTypes, HistoryTypes, scanVars, sinkVars
<1>4. ASSUME NEW c \in setup.changing, Toggle(c) PROVE TypeInv'
  <2>1. c \in Clients
    BY SetupAssumption DEF TypeInv, WorldTypes
  <2> QED BY <1>4, <2>1
          DEF Toggle, TypeInv, WorldTypes, ScanTypes, HistoryTypes, scanVars, sinkVars
<1>5. CASE Drain \/ Deliver \/ \E s \in Sinks, t \in 1..wall : Dispatch(s, t)
  BY <1>5, DispatchStepTypes
<1>6. CASE FullScan \/ TargetedScan \/ Backfill
  BY <1>6, ScanStarts, EvaluateTypes
<1>7. CASE Persist
  BY <1>7 DEF Persist, TypeInv, WorldTypes, ScanTypes, HistoryTypes, worldVars, sinkVars, Phases
<1>8. CASE Install
  BY <1>8 DEF Install, TypeInv, WorldTypes, ScanTypes, HistoryTypes, worldVars, sinkVars, Phases
<1>9. CASE Observe
  BY <1>9, ObserveTypes
<1>10. CASE Alert
  BY <1>10, AlertTypes
<1>11. CASE Finish \/ Stop \/ QueueFull
  BY <1>11, EndStepTypes
<1>12. CASE UNCHANGED vars
  BY <1>12 DEF vars, TypeInv, WorldTypes, ScanTypes, HistoryTypes, scanVars, worldVars, sinkVars
<1> QED BY <1>1, <1>2, <1>3, <1>4, <1>5, <1>6, <1>7, <1>8, <1>9, <1>10, <1>11, <1>12 DEF Next

\* The steps that leave a scan and the installed state alone.
Outside == UNCHANGED <<setup, disk, scanVars, heartbeat, journal, told, healths>>

\* What a step is, to the invariants below.
LEMMA Steps ==
  ASSUME TypeInv, [Next]_vars
  PROVE  \/ Outside
         \/ FullScan \/ TargetedScan \/ Backfill
         \/ Drain \/ Persist \/ Install \/ Deliver \/ Observe \/ Alert
         \/ Finish \/ Stop \/ QueueFull
BY DEF Next, Tick, Jump, Change, Toggle, Dispatch, Outside, vars, scanVars, worldVars

-----------------------------------------------------------------------------
(* At most one open episode of a sink and one health time.                 *)

OneLatch(K) ==
  /\ \A s \in Sinks : \A x, y \in EpisodesOf(K, s) : x = y
  /\ \A x, y \in K : x[1] = "health" /\ y[1] = "health" => x = y

LatchInv == OneLatch(disk.keys) /\ OneLatch(mem.keys)

LEMMA EvaluateLatch ==
  ASSUME TypeInv, LatchInv, NEW k \in Kinds, NEW ts \in SUBSET Clients,
         NEW due \in BOOLEAN, NEW first \in Orders(Found(ts)), Evaluate(k, ts, due, first)
  PROVE  OneLatch(mem'.keys)
<1>1. \A s \in Sinks : EpisodesOf(mem'.keys, s) = EpisodesOf(disk.keys, s)
  BY EvaluatedKeys DEF EpisodesOf
<1> DEFINE chosen == Selected(k, ts, first)
<1>2. \A x : x[1] = "health" => (x \in chosen.keys <=> x \in disk.keys)
  <2>1. \A K, x : x[1] = "health" => (x \in Latched(K, k, ts) <=> x \in K)
    BY KeyTags DEF Latched
  <2>2. \A x : x[1] = "health" => x \notin {Seen(d) : d \in Found(ts)}
                                   /\ x \notin {ScannerError(c) : c \in Failed(ts)}
    BY KeyTags
  <2> QED BY <2>1, <2>2 DEF Selected, SelectEvents
<1>3. mem'.keys = chosen.keys \/ mem'.keys = WithHealth(chosen.keys)
  BY DEF Evaluate
<1>4. \A x, y \in chosen.keys : x[1] = "health" /\ y[1] = "health" => x = y
  <2> HIDE DEF chosen
  <2> QED BY <1>2 DEF LatchInv, OneLatch
<1>5. \A x, y \in WithHealth(chosen.keys) : x[1] = "health" /\ y[1] = "health" => x = y
  <2> HIDE DEF chosen
  <2> QED BY <1>4 DEF WithHealth
<1> HIDE DEF chosen
<1> QED BY <1>1, <1>3, <1>4, <1>5 DEF LatchInv, OneLatch

LEMMA FreshLatch == OneLatch(Fresh.keys)
BY DEF Fresh, OneLatch, EpisodesOf

LEMMA LatchStep ==
  ASSUME TypeInv, LatchInv, [Next]_vars
  PROVE  LatchInv'
<1>1. CASE UNCHANGED <<disk, mem>>
  BY <1>1 DEF LatchInv, OneLatch, EpisodesOf
<1>2. CASE FullScan \/ TargetedScan \/ Backfill
  <2>1. disk' = disk
    BY <1>2, ScanStarts DEF Evaluate
  <2>2. OneLatch(mem'.keys)
    BY <1>2, ScanStarts, EvaluateLatch
  <2> QED BY <2>1, <2>2 DEF LatchInv, OneLatch, EpisodesOf
<1>3. CASE Install
  BY <1>3 DEF Install, LatchInv, OneLatch, EpisodesOf
<1>4. CASE Observe
  <2>1. mem'.keys \subseteq mem.keys /\ disk' = disk
    BY <1>4, ObservedKeys DEF Observe
  <2>2. OneLatch(mem'.keys)
    BY <2>1 DEF LatchInv, OneLatch, EpisodesOf
  <2> QED BY <2>1, <2>2 DEF LatchInv, OneLatch, EpisodesOf
<1>5. CASE Alert
  <2>1. PICK accepted \in BOOLEAN :
           /\ \A x : x[1] # "episode" => (x \in mem'.keys <=> x \in mem.keys)
           /\ \A s \in Sinks : EpisodesOf(mem'.keys, s) = Recorded(mem.keys, s, accepted)
    BY <1>5, AlertedKeys
  <2>2. \A s \in Sinks : \A x, y \in Recorded(mem.keys, s, accepted) : x = y
    BY DEF Recorded, LatchInv, OneLatch
  <2>3. OneLatch(mem'.keys)
    <3>1. \A x, y \in mem'.keys : x[1] = "health" /\ y[1] = "health" => x = y
      BY <2>1 DEF LatchInv, OneLatch
    <3> QED BY <2>1, <2>2, <3>1 DEF OneLatch
  <2>4. disk' = disk
    BY <1>5 DEF Alert
  <2> QED BY <2>3, <2>4 DEF LatchInv, OneLatch, EpisodesOf
<1>6. CASE Finish \/ Stop \/ QueueFull
  <2>1. mem' = Fresh /\ disk' \in {disk, mem}
    BY <1>6 DEF Finish, Stop, QueueFull, EndScan
  <2> QED BY <2>1, FreshLatch DEF LatchInv
<1> QED BY <1>1, <1>2, <1>3, <1>4, <1>5, <1>6, Steps
        DEF Outside, scanVars, Drain, Persist, Deliver

\* Types, at most one open episode of a sink and at most one health time in
\* every installed state, for any setup and any number of clients and sinks.
THEOREM TypeCorrect == Spec => []TypeOK
<1>1. Init => LatchInv
  <2> SUFFICES ASSUME Init PROVE LatchInv
    OBVIOUS
  <2>1. \A x \in disk.keys : x[1] = "legacy"
    BY KeyTags DEF Init
  <2>2. OneLatch(disk.keys)
    BY <2>1 DEF OneLatch, EpisodesOf
  <2>3. mem = Fresh
    BY DEF Init
  <2> QED BY <2>2, <2>3, FreshLatch DEF LatchInv
<1>2. TypeInv /\ LatchInv => TypeOK
  <2> SUFFICES ASSUME TypeInv, LatchInv PROVE TypeOK
    OBVIOUS
  <2>1. \A K : (\A x, y \in K : x = y) => Cardinality(K) <= 1
    <3> SUFFICES ASSUME NEW K, \A x, y \in K : x = y PROVE Cardinality(K) <= 1
      OBVIOUS
    <3>1. CASE K = {}
      BY <3>1, FS_EmptySet
    <3>2. CASE K # {}
      <4>1. PICK x \in K : TRUE
        BY <3>2
      <4>2. K = {x}
        BY <4>1
      <4> QED BY <4>2, FS_Singleton
    <3> QED BY <3>1, <3>2
  <2>2. \A s \in Sinks : Cardinality(EpisodesOf(disk.keys, s)) <= 1
    BY <2>1 DEF LatchInv, OneLatch
  <2>3. Cardinality(HealthTimes(disk.keys)) <= 1
    <3>1. \A x, y \in HealthTimes(disk.keys) : x = y
      BY DEF LatchInv, OneLatch, HealthTimes
    <3> QED BY <2>1, <3>1
  <2>4. \A k \in AllKeys : k[1] \in {"seen", "legacy", "scanner_error", "outage",
                                     "threshold", "health", "episode"}
    BY KeyTags DEF AllKeys
  <2> QED BY <2>2, <2>3, <2>4 DEF TypeOK, TypeInv, ScanTypes, HistoryTypes, States
<1> QED BY <1>1, <1>2, TypeInit, TypeStep, LatchStep, PTL DEF Spec

-----------------------------------------------------------------------------
(* What is remembered was written.                                         *)

Written(K, J) ==
  \A d \in Detections :
    Seen(d) \in K /\ d \notin J
      => /\ Legacy(d[1]) \in K
         /\ \A c \in Classes \ {d[2]} : Seen(<<d[1], c>>) \in K => <<d[1], c>> \in J

WrittenInv ==
  /\ Written(disk.keys, journal)
  /\ pc \in {"prepared", "drained"} => Written(mem.keys, journal \cup (events \cap Detections))
  /\ pc \notin {"idle", "prepared", "drained"} => Written(mem.keys, journal)

\* Of the detections a scan finds, those it does not emit are hidden by a key
\* of this very classification or, as the first of their posture, by a legacy key.
LEMMA Hidden ==
  ASSUME TypeInv, NEW k \in Kinds, k # "backfill", NEW ts \in SUBSET Clients,
         NEW due \in BOOLEAN, NEW first \in Orders(Found(ts)), Evaluate(k, ts, due, first),
         NEW d \in Found(ts), d \notin events'
  PROVE  \/ Seen(d) \in disk.keys
         \/ /\ Legacy(d[1]) \in disk.keys
            /\ d[2] = first[d[1]]
            /\ \A c \in Classes \ {d[2]} : Seen(<<d[1], c>>) \notin disk.keys
<1>1. d \in Detections /\ d = <<d[1], d[2]>> /\ d[1] \in DOMAIN first
  BY FoundTypes DEF Detections, Orders
<1>2. ~Emits(KeysAt(disk.keys, first, d), d)
  BY DEF Evaluate, Selected, SelectEvents
<1>3. <<d[1], first[d[1]]>> \in Detections /\ first[d[1]] \in Classes
  BY <1>1, FoundTypes DEF Orders, Detections
<1>4. CASE first[d[1]] = d[2]
  BY <1>2, <1>4 DEF KeysAt, Emits, LegacySeen, ClassificationChanged
<1>5. CASE first[d[1]] # d[2]
  <2>1. Seen(<<d[1], first[d[1]]>>) # Seen(d)
    BY <1>1, <1>3, <1>5, KeysDiffer
  <2>2. ClassificationChanged(KeysAt(disk.keys, first, d), d)
    BY <1>3, <1>5 DEF KeysAt, ClassificationChanged
  <2>3. Seen(d) \in KeysAt(disk.keys, first, d)
    BY <1>2, <2>2 DEF Emits, LegacySeen
  <2> QED BY <2>1, <2>3, <1>5 DEF KeysAt
<1> QED BY <1>4, <1>5

LEMMA EvaluateWritten ==
  ASSUME TypeInv, WrittenInv, NEW k \in Kinds, NEW ts \in SUBSET Clients,
         NEW due \in BOOLEAN, NEW first \in Orders(Found(ts)), Evaluate(k, ts, due, first)
  PROVE  Written(mem'.keys, journal \cup (events' \cap Detections))
<1> DEFINE J == journal \cup (events' \cap Detections)
<1> SUFFICES ASSUME NEW d \in Detections, Seen(d) \in mem'.keys, d \notin J
             PROVE  /\ Legacy(d[1]) \in mem'.keys
                    /\ \A c \in Classes \ {d[2]} :
                          Seen(<<d[1], c>>) \in mem'.keys => <<d[1], c>> \in J
  BY DEF Written
<1>1. CASE k = "backfill"
  <2>1. \A e \in Detections : Seen(e) \in mem'.keys <=> Seen(e) \in disk.keys
    BY <1>1, EvaluatedKeys
  <2>2. \A c \in Classes : <<d[1], c>> \in Detections
    BY DEF Detections
  <2>3. d \notin journal /\ Seen(d) \in disk.keys
    BY <2>1
  <2>4. /\ Legacy(d[1]) \in disk.keys
        /\ \A c \in Classes \ {d[2]} : Seen(<<d[1], c>>) \in disk.keys => <<d[1], c>> \in journal
    BY <2>3 DEF WrittenInv, Written
  <2>5. Legacy(d[1]) \in mem'.keys
    BY <2>4, EvaluatedKeys
  <2> QED BY <2>1, <2>2, <2>4, <2>5
<1>2. CASE k # "backfill"
  <2>1. Seen(d) \in disk.keys \/ d \in Found(ts)
    BY EvaluatedKeys
  <2>2. \A c \in Classes : <<d[1], c>> \in Detections
    BY DEF Detections
  <2>3. CASE Seen(d) \in disk.keys
    <3>1. /\ Legacy(d[1]) \in disk.keys
          /\ \A c \in Classes \ {d[2]} :
                Seen(<<d[1], c>>) \in disk.keys => <<d[1], c>> \in journal
      BY <2>3 DEF WrittenInv, Written
    <3>2. Legacy(d[1]) \in mem'.keys
      BY <3>1, EvaluatedKeys
    <3>3. ASSUME NEW c \in Classes \ {d[2]}, Seen(<<d[1], c>>) \in mem'.keys,
                 <<d[1], c>> \notin J
          PROVE  FALSE
      <4> DEFINE e == <<d[1], c>>
      <4>1. e \in Detections /\ e[1] = d[1] /\ e[2] = c
        BY <2>2
      <4>2. Seen(e) \notin disk.keys /\ e \in Found(ts) /\ e \notin events'
        BY <3>1, <3>3, <4>1, EvaluatedKeys
      <4>3. \A c2 \in Classes \ {c} : Seen(<<d[1], c2>>) \notin disk.keys
        BY <1>2, <4>1, <4>2, Hidden
      <4>4. d = <<d[1], d[2]>> /\ d[2] \in Classes
        BY DEF Detections
      <4> QED BY <2>3, <4>3, <4>4, <3>3
    <3> QED BY <3>2, <3>3
  <2>4. CASE Seen(d) \notin disk.keys
    <3>1. d \in Found(ts) /\ d \notin events'
      BY <2>1, <2>4
    <3>2. /\ Legacy(d[1]) \in disk.keys
          /\ d[2] = first[d[1]]
          /\ \A c \in Classes \ {d[2]} : Seen(<<d[1], c>>) \notin disk.keys
      BY <1>2, <2>4, <3>1, Hidden
    <3>3. Legacy(d[1]) \in mem'.keys
      BY <3>2, EvaluatedKeys
    <3>4. ASSUME NEW c \in Classes \ {d[2]}, Seen(<<d[1], c>>) \in mem'.keys,
                 <<d[1], c>> \notin J
          PROVE  FALSE
      <4> DEFINE e == <<d[1], c>>
      <4>1. e \in Detections /\ e[1] = d[1] /\ e[2] = c
        BY <2>2
      <4>2. Seen(e) \notin disk.keys /\ e \in Found(ts) /\ e \notin events'
        BY <3>2, <3>4, <4>1, EvaluatedKeys
      <4>3. e[2] = first[d[1]]
        BY <1>2, <4>1, <4>2, Hidden
      <4> QED BY <3>2, <4>1, <4>3
    <3> QED BY <3>3, <3>4
  <2> QED BY <2>3, <2>4
<1> QED BY <1>1, <1>2

LEMMA WrittenStep ==
  ASSUME TypeInv, WrittenInv, [Next]_vars
  PROVE  WrittenInv'
<1>1. CASE UNCHANGED <<disk, mem, pc, events, journal>>
  BY <1>1 DEF WrittenInv, Written
<1>2. CASE FullScan \/ TargetedScan \/ Backfill
  <2>1. PICK k \in Kinds, ts \in SUBSET Clients, due \in BOOLEAN :
            \E first \in Orders(Found(ts)) : Evaluate(k, ts, due, first)
    BY <1>2, ScanStarts
  <2>2. Written(mem'.keys, journal \cup (events' \cap Detections))
    BY <2>1, EvaluateWritten
  <2>3. disk' = disk /\ journal' = journal /\ pc' = "prepared"
    BY <2>1 DEF Evaluate
  <2> QED BY <2>2, <2>3 DEF WrittenInv, Written
<1>3. CASE Persist
  BY <1>3 DEF Persist, WrittenInv, Written
<1>4. CASE Install
  BY <1>4 DEF Install, WrittenInv, Written
<1>5. CASE Drain \/ Deliver
  BY <1>5 DEF Drain, Deliver, WrittenInv, Written
<1>6. CASE Observe \/ Alert
  <2>1. \A x : x[1] # "episode" => (x \in mem'.keys <=> x \in mem.keys)
    BY <1>6, ObservedKeys, AlertedKeys
  <2>2. \A d : Seen(d) \in mem'.keys <=> Seen(d) \in mem.keys
    BY <2>1, KeyTags
  <2>3. \A p : Legacy(p) \in mem'.keys <=> Legacy(p) \in mem.keys
    BY <2>1, KeyTags
  <2> QED BY <1>6, <2>2, <2>3 DEF Observe, Alert, WrittenInv, Written
<1>7. CASE Finish \/ Stop \/ QueueFull
  <2>1. pc' = "idle" /\ journal' = journal
    BY <1>7 DEF Finish, Stop, QueueFull, EndScan
  <2>2. disk' = disk \/ (disk' = mem /\ pc = "alerted")
    BY <1>7 DEF Finish, Stop, QueueFull
  <2> QED BY <2>1, <2>2 DEF WrittenInv, Written
<1> QED BY <1>1, <1>2, <1>3, <1>4, <1>5, <1>6, <1>7, Steps DEF Outside, scanVars

\* Nothing is remembered that was not written: for any clients, postures,
\* classifications and emission orders, whatever legacy keys are inherited and
\* wherever a scan stops.
THEOREM RememberedWasWritten == Spec => []RememberedIsWritten
<1>1. Init => WrittenInv
  <2>1. \A d : Seen(d) \notin {Legacy(p) : p \in setup.legacy}
    BY KeyTags
  <2> QED BY <2>1 DEF Init, WrittenInv, Written
<1>2. WrittenInv => RememberedIsWritten
  BY DEF WrittenInv, Written, RememberedIsWritten
<1> QED BY <1>1, <1>2, TypeInit, TypeStep, WrittenStep, PTL DEF Spec

-----------------------------------------------------------------------------
(* The heartbeat.                                                          *)

HealthInv ==
  /\ HealthTimes(disk.keys) \subseteq healths
  /\ heartbeat.last \subseteq healths
  /\ pc \in {"prepared", "drained"} =>
       HealthTimes(mem.keys) \subseteq
         healths \cup (IF <<"health">> \in events THEN {observed} ELSE {})
  /\ pc \notin {"idle", "prepared", "drained"} => HealthTimes(mem.keys) \subseteq healths

LEMMA HealthStep ==
  ASSUME TypeInv, HealthInv, [Next]_vars
  PROVE  HealthInv'
<1>1. CASE UNCHANGED <<disk, mem, pc, events, observed, healths, heartbeat>>
  BY <1>1 DEF HealthInv, HealthTimes
<1>2. CASE FullScan \/ TargetedScan \/ Backfill
  <2>1. PICK k \in Kinds, ts \in SUBSET Clients, due \in BOOLEAN :
            \E first \in Orders(Found(ts)) : Evaluate(k, ts, due, first)
    BY <1>2, ScanStarts
  <2>2. \A x : x[1] = "health" /\ x \in mem'.keys =>
                x \in disk.keys \/ (x = Health(wall) /\ <<"health">> \in events')
    BY <2>1, EvaluatedKeys
  <2>3. disk' = disk /\ healths' = healths /\ heartbeat' = heartbeat /\ pc' = "prepared"
        /\ observed' = wall
    BY <2>1 DEF Evaluate
  <2>4. HealthTimes(mem'.keys) \subseteq
          HealthTimes(disk.keys) \cup (IF <<"health">> \in events' THEN {wall} ELSE {})
    BY <2>2, KeyTags DEF HealthTimes
  <2> QED BY <2>3, <2>4 DEF HealthInv, HealthTimes
<1>3. CASE Persist
  BY <1>3 DEF Persist, HealthInv, HealthTimes
<1>4. CASE Install
  BY <1>4 DEF Install, HealthInv, HealthTimes
<1>5. CASE Drain \/ Deliver
  BY <1>5 DEF Drain, Deliver, HealthInv, HealthTimes
<1>6. CASE Observe \/ Alert
  <2>1. \A x : x[1] # "episode" => (x \in mem'.keys <=> x \in mem.keys)
    BY <1>6, ObservedKeys, AlertedKeys
  <2>2. HealthTimes(mem'.keys) = HealthTimes(mem.keys)
    BY <2>1 DEF HealthTimes
  <2> QED BY <1>6, <2>2 DEF Observe, Alert, HealthInv, HealthTimes
<1>7. CASE Finish \/ Stop \/ QueueFull
  <2>1. pc' = "idle" /\ healths' = healths
    BY <1>7 DEF Finish, Stop, QueueFull, EndScan
  <2>2. \/ disk' = disk /\ heartbeat'.last = HealthTimes(disk.keys)
        \/ /\ disk' \in {disk, mem} /\ pc = "alerted"
           /\ heartbeat'.last \in {HealthTimes(mem.keys), HealthTimes(disk'.keys)}
    BY <1>7 DEF Finish, Stop, QueueFull, Restarted
  <2> QED BY <2>1, <2>2 DEF HealthInv, HealthTimes
<1> QED BY <1>1, <1>2, <1>3, <1>4, <1>5, <1>6, <1>7, Steps DEF Outside, scanVars

\* While no heartbeat scan is due, a health event is in the journal within the
\* interval, or a heartbeat scan ended within it: for any interval, any jumps of
\* the wall clock and any stops.
THEOREM HeartbeatHeard == Spec => []HeartbeatNotSilent
<1>1. Init => HealthInv
  <2>1. HealthTimes({Legacy(p) : p \in setup.legacy}) = {}
    BY KeyTags DEF HealthTimes
  <2> QED BY <2>1 DEF Init, HealthInv
<1>2. TypeInv /\ HealthInv => HeartbeatNotSilent
  <2> SUFFICES ASSUME TypeInv, HealthInv, setup.interval > 0, ~IsDue
               PROVE  \/ \E t \in healths : t <= wall /\ wall - t < setup.interval
                      \/ heartbeat.retry # 0 /\ mono - heartbeat.retry < setup.interval
    BY DEF HeartbeatNotSilent
  <2>1. setup.interval \in Nat /\ heartbeat.retry \in Nat /\ mono \in Nat /\ wall \in Nat
        /\ heartbeat.last \subseteq Nat
    BY SetupAssumption DEF TypeInv, WorldTypes, HistoryTypes
  <2>2. \/ heartbeat.retry # 0 /\ mono - heartbeat.retry < setup.interval
        \/ ~HeartbeatDue(heartbeat.last, wall)
    BY <2>1 DEF IsDue
  <2>3. ASSUME ~HeartbeatDue(heartbeat.last, wall)
        PROVE  \E t \in healths : t <= wall /\ wall - t < setup.interval
    BY <2>1, <2>3 DEF HeartbeatDue, HealthInv
  <2> QED BY <2>2, <2>3
<1> QED BY <1>1, <1>2, TypeInit, TypeStep, HealthStep, PTL DEF Spec

-----------------------------------------------------------------------------
(* Sink-failure episodes.  An open episode that refers to the sink's       *)
(* present success was alerted since that success, unless the success      *)
(* hides in the episode's millisecond.  The same holds of what the scan    *)
(* decided to leave unalerted and of the success times it read then: other *)
(* dispatches may follow before it records the episode.                    *)

EpisodeTold(K) ==
  \A s \in DurableSinks : \A x \in EpisodesOf(K, s) :
    x[4] = sink[s].success /\ ~unseen[s] => x[3] \in toldSink[s]

SilentTold ==
  \A x \in alert.silent :
    x[1] \in DurableSinks /\ alert.success[x[1]] = sink[x[1]].success /\ ~unseen[x[1]]
      => x[2] \in toldSink[x[1]]

EpisodeInv ==
  /\ EpisodeTold(disk.keys) /\ EpisodeTold(mem.keys)
  /\ pc = "observed" =>
       /\ SilentTold
       /\ alert.silent = UNION {{<<s, id>> : id \in Silenced(mem.keys, alert.honor, s)} :
                                  s \in Sinks}
  /\ \A s \in DurableSinks : unseen[s] => sink[s].success # 0

LEMMA FreshEpisodes == \A s : EpisodesOf(Fresh.keys, s) = {}
BY DEF Fresh, EpisodesOf

\* A failure left unalerted was alerted since the sink's last success, or that
\* success is unseen and cannot be taken for the last error's time.
LEMMA SilencedTold ==
  ASSUME TypeInv, EpisodeInv, NEW readable \in BOOLEAN, NEW s \in DurableSinks,
         NEW id \in Silenced(Cleared(mem.keys, readable), readable, s)
  PROVE  /\ readable
         /\ IF unseen[s] THEN sink[s].success # sink[s].error ELSE id \in toldSink[s]
<1> DEFINE keys == Cleared(mem.keys, readable)
           I == {i \in DOMAIN fails[s] : fails[s][i].id = id}
<1>1. s \in Sinks /\ fails[s] \in Seq(Failure) /\ id \in Identities
  BY SinkAssumption DEF TypeInv, ScanTypes, Silenced
<1>2. I \subseteq Nat /\ I # {} /\ DOMAIN fails[s] = 1..Len(fails[s]) /\ Len(fails[s]) \in Nat
  BY <1>1 DEF Silenced
<1>3. PICK i \in I : \A j \in I : i <= j
  <2> HIDE DEF I
  <2> QED BY <1>2, LeastNat
<1>4. AlreadyOpen(keys, readable, s, i)
  BY <1>1, <1>3 DEF Silenced, Alerted
<1>5. i = 1
  <2>1. i - 1 \in I => FALSE
    BY <1>2, <1>3
  <2>2. i > 1 => i - 1 \in DOMAIN fails[s]
    BY <1>2, <1>3
  <2>3. i > 1 => fails[s][i - 1].id = fails[s][i].id
    BY <1>4 DEF AlreadyOpen
  <2> QED BY <2>1, <2>2, <2>3, <1>2, <1>3
<1>6. readable /\ \E x \in EpisodesOf(keys, s) : x[3] = id
  <2>1. ~(i > 1)
    BY <1>5
  <2>2. readable /\ \E x \in EpisodesOf(keys, s) : x[3] = fails[s][i].id
    BY <1>4, <2>1, Zenon DEF AlreadyOpen
  <2> QED BY <1>3, <2>2
<1>7. PICK x \in EpisodesOf(keys, s) : x[3] = id
  BY <1>6
<1>8. x \in EpisodesOf(mem.keys, s) /\ ~Recovered(mem.keys, s)
  BY <1>1, <1>6, <1>7 DEF Cleared, EpisodesOf
<1>9. x[4] = sink[s].success /\ (sink[s].success = 0 \/ sink[s].success # sink[s].error)
  BY <1>8 DEF Recovered
<1> QED BY <1>6, <1>7, <1>8, <1>9 DEF EpisodeInv, EpisodeTold

LEMMA ObserveEpisodes ==
  ASSUME TypeInv, EpisodeInv, Observe
  PROVE  EpisodeInv'
<1>1. PICK readable \in BOOLEAN :
           /\ mem'.keys = Cleared(mem.keys, readable)
           /\ mem'.keys \subseteq mem.keys
           /\ alert'.honor = readable
           /\ alert'.silent = UNION {{<<s, id>> : id \in Silenced(mem'.keys, readable, s)} :
                                       s \in Sinks}
  BY ObservedKeys
<1>2. UNCHANGED <<disk, fails, sink, toldSink, unseen>> /\ pc' = "observed"
  BY DEF Observe, sinkVars
<1>3. EpisodeTold(mem.keys)' /\ EpisodeTold(disk.keys)'
  BY <1>1, <1>2 DEF EpisodeInv, EpisodeTold, EpisodesOf
<1>4. SilentTold'
  <2> SUFFICES ASSUME NEW s \in DurableSinks, NEW id \in Silenced(mem'.keys, readable, s),
                      ~unseen[s]
               PROVE  id \in toldSink[s]
    BY <1>1, <1>2 DEF SilentTold
  <2> QED BY <1>1, SilencedTold
<1>5. alert'.silent = UNION {{<<s, id>> : id \in Silenced(mem.keys, alert.honor, s)'} : s \in Sinks}
  BY <1>1, <1>2 DEF Silenced, Alerted, AlreadyOpen, Released, EpisodesOf
<1> QED BY <1>2, <1>3, <1>4, <1>5 DEF EpisodeInv

\* A dispatch's success is new to every episode that refers to another time,
\* and unseen where one refers to this time.
LEMMA DispatchedEpisodes ==
  ASSUME TypeInv, EpisodeInv, NEW o \in [Sinks -> Outcome], NEW t \in Nat, t >= 1,
         Dispatched(o, t), NEW s \in DurableSinks
  PROVE  /\ \A K, x : /\ K \in {disk.keys, mem.keys} /\ x \in EpisodesOf(K, s)
                      /\ x[4] = sink'[s].success /\ ~unseen'[s]
                      => x[3] \in ToldSince(o)[s]
         /\ /\ pc = "observed" /\ alert.success[s] = sink'[s].success /\ ~unseen'[s]
            => \A id \in Silenced(mem.keys, alert.honor, s) : id \in ToldSince(o)[s]
         /\ unseen'[s] => sink'[s].success # 0
<1>1. s \in Sinks /\ o[s].ok \in BOOLEAN
  BY SinkAssumption, DispatchedTypes
<1>2. CASE o[s].ok
  <2>1. sink'[s].success = t /\ (unseen'[s] <=> t \in References(s))
    BY <1>1, <1>2 DEF Dispatched
  <2>2. \A K, x : K \in {disk.keys, mem.keys} /\ x \in EpisodesOf(K, s) => x[4] \in References(s)
    BY DEF References, EpisodesOf
  <2>3. pc = "observed" => alert.success[s] \in References(s)
    BY DEF References
  <2> QED BY <2>1, <2>2, <2>3
<1>3. CASE ~o[s].ok
  <2>1. sink'[s].success = sink[s].success /\ unseen'[s] = unseen[s]
        /\ ToldSince(o)[s] = toldSink[s]
    BY <1>1, <1>3 DEF Dispatched, ToldSince
  <2>2. pc = "observed" => \A id \in Silenced(mem.keys, alert.honor, s) : <<s, id>> \in alert.silent
    BY <1>1 DEF EpisodeInv
  <2>3. pc = "observed" => \A id : <<s, id>> \in alert.silent =>
           (alert.success[s] = sink[s].success /\ ~unseen[s] => id \in toldSink[s])
    BY DEF EpisodeInv, SilentTold
  <2> QED BY <2>1, <2>2, <2>3 DEF EpisodeInv, EpisodeTold
<1> QED BY <1>1, <1>2, <1>3

LEMMA DispatchStepEpisodes ==
  ASSUME TypeInv, EpisodeInv,
         Drain \/ Deliver \/ \E s \in Sinks, t \in 1..wall : Dispatch(s, t)
  PROVE  EpisodeInv'
<1>1. PICK o \in [Sinks -> Outcome], t \in Nat :
         t >= 1 /\ Dispatched(o, t) /\ toldSink' = ToldSince(o)
  BY DispatchSteps
<1>2. UNCHANGED <<disk, mem, alert>> /\ (pc' = "observed" => pc = "observed")
  BY DispatchSteps
<1>3. EpisodeTold(disk.keys)' /\ EpisodeTold(mem.keys)'
  BY <1>1, <1>2, DispatchedEpisodes DEF EpisodeTold
<1>4. \A s \in DurableSinks : unseen'[s] => sink'[s].success # 0
  BY <1>1, DispatchedEpisodes
<1>5. ASSUME pc' = "observed"
      PROVE  /\ SilentTold'
             /\ alert.silent = UNION {{<<s, id>> : id \in Silenced(mem.keys, alert.honor, s)'} :
                                        s \in Sinks}
  <2>1. pc = "observed" /\ fails' = fails
    BY <1>2, <1>5 DEF Drain, Deliver, Dispatch, scanVars
  <2>2. alert.silent = UNION {{<<s, id>> : id \in Silenced(mem.keys, alert.honor, s)} : s \in Sinks}
    BY <2>1 DEF EpisodeInv
  <2>3. \A s : Silenced(mem.keys, alert.honor, s)' = Silenced(mem.keys, alert.honor, s)
    BY <1>2, <2>1 DEF Silenced, Alerted, AlreadyOpen, Released, EpisodesOf
  <2>4. \A x \in alert.silent : \A s \in DurableSinks :
           x[1] = s => x[2] \in Silenced(mem.keys, alert.honor, s)
    BY <2>2
  <2>5. SilentTold'
    BY <1>1, <1>2, <2>1, <2>4, DispatchedEpisodes DEF SilentTold
  <2> QED BY <2>2, <2>3, <2>5
<1> QED BY <1>2, <1>3, <1>4, <1>5 DEF EpisodeInv

LEMMA AlertEpisodes ==
  ASSUME TypeInv, EpisodeInv, Alert
  PROVE  EpisodeInv'
<1>1. PICK accepted \in BOOLEAN, o \in [Sinks -> Outcome] :
           /\ Dispatched(o, wall)
           /\ \A s \in Sinks : EpisodesOf(mem'.keys, s) = Recorded(mem.keys, s, accepted)
           /\ toldSink' = [s \in Sinks |-> ToldSince(o)[s] \cup
                             IF accepted THEN Alerted(mem.keys, alert.honor, s) ELSE {}]
  BY AlertedKeys
<1>2. disk' = disk /\ pc = "observed" /\ pc' = "alerted" /\ wall \in Nat /\ wall >= 1
  BY DEF Alert, TypeInv, WorldTypes
<1>3. \A s \in DurableSinks : s \in Sinks /\ ToldSince(o)[s] \subseteq toldSink'[s]
  BY <1>1, SinkAssumption
<1>4. EpisodeTold(disk.keys)' /\ \A s \in DurableSinks : unseen'[s] => sink'[s].success # 0
  BY <1>1, <1>2, <1>3, DispatchedEpisodes DEF EpisodeTold
<1>5. ASSUME NEW s \in DurableSinks, NEW x \in Recorded(mem.keys, s, accepted),
             x[4] = sink'[s].success, ~unseen'[s]
      PROVE  x[3] \in toldSink'[s]
  <2>1. s \in Sinks /\ fails[s] \in Seq(Failure)
    BY SinkAssumption DEF TypeInv, ScanTypes
  <2>2. CASE x \in EpisodesOf(mem.keys, s)
    <3>1. x[3] \in ToldSince(o)[s]
      BY <1>1, <1>2, <1>5, <2>2, DispatchedEpisodes
    <3> QED BY <1>3, <3>1
  <2>3. CASE x \notin EpisodesOf(mem.keys, s)
    <3> DEFINE last == fails[s][Len(fails[s])].id
    <3>1. accepted /\ fails[s] # <<>> /\ last \in Identities
          /\ x = Episode(s, last, alert.success[s])
      BY <1>5, <2>3 DEF Recorded
    <3>2. x[3] = last /\ x[4] = alert.success[s]
      BY <3>1, KeyTags
    <3>3. Len(fails[s]) \in DOMAIN fails[s]
      BY <2>1, <3>1
    <3>4. CASE last \in Alerted(mem.keys, alert.honor, s)
      BY <1>1, <2>1, <3>1, <3>2, <3>4
    <3>5. CASE last \notin Alerted(mem.keys, alert.honor, s)
      <4>1. last \in Silenced(mem.keys, alert.honor, s)
        BY <3>1, <3>3, <3>5 DEF Silenced
      <4>2. last \in ToldSince(o)[s]
        <5> HIDE DEF last
        <5> QED BY <1>1, <1>2, <1>5, <3>2, <4>1, DispatchedEpisodes
      <4> QED BY <1>3, <3>2, <4>2
    <3> QED BY <3>4, <3>5
  <2> QED BY <2>2, <2>3
<1>6. EpisodeTold(mem.keys)'
  BY <1>1, <1>3, <1>5 DEF EpisodeTold
<1> QED BY <1>2, <1>4, <1>6 DEF EpisodeInv

LEMMA EpisodeStep ==
  ASSUME TypeInv, EpisodeInv, [Next]_vars
  PROVE  EpisodeInv'
<1>1. CASE UNCHANGED <<disk, scanVars, sinkVars>>
  BY <1>1 DEF EpisodeInv, EpisodeTold, SilentTold, EpisodesOf, Silenced, Alerted, AlreadyOpen,
              Released, scanVars, sinkVars
<1>2. CASE FullScan \/ TargetedScan \/ Backfill
  <2>1. PICK k \in Kinds, ts \in SUBSET Clients, due \in BOOLEAN :
            \E first \in Orders(Found(ts)) : Evaluate(k, ts, due, first)
    BY <1>2, ScanStarts
  <2>2. \A s : EpisodesOf(mem'.keys, s) = EpisodesOf(disk.keys, s)
    BY <2>1, EvaluatedKeys DEF EpisodesOf
  <2>3. UNCHANGED <<disk, sink, toldSink, unseen>> /\ pc' = "prepared"
    BY <2>1 DEF Evaluate, sinkVars
  <2> QED BY <2>2, <2>3 DEF EpisodeInv, EpisodeTold
<1>3. CASE Persist \/ Install
  <2>1. UNCHANGED <<mem, sink, toldSink, unseen>> /\ disk' \in {disk, mem} /\ pc' # "observed"
    BY <1>3 DEF Persist, Install, sinkVars
  <2> QED BY <2>1 DEF EpisodeInv, EpisodeTold
<1>4. CASE Drain \/ Deliver \/ \E s \in Sinks, t \in 1..wall : Dispatch(s, t)
  BY <1>4, DispatchStepEpisodes
<1>5. CASE Observe
  BY <1>5, ObserveEpisodes
<1>6. CASE Alert
  BY <1>6, AlertEpisodes
<1>7. CASE Finish \/ Stop \/ QueueFull
  <2>1. /\ pc' = "idle" /\ mem' = Fresh
        /\ UNCHANGED <<sink, toldSink, unseen>> /\ disk' \in {disk, mem}
    BY <1>7 DEF Finish, Stop, QueueFull, EndScan, sinkVars
  <2> QED BY <2>1, FreshEpisodes DEF EpisodeInv, EpisodeTold
<1> QED BY <1>1, <1>2, <1>3, <1>4, <1>5, <1>6, <1>7 DEF Next, Tick, Jump, Change, Toggle,
        vars

\* A blocked delivery of a durable sink that a scan reports is left unalerted
\* only inside an episode that was alerted after the sink's last success (or
\* where that success has the episode's very millisecond): for any sinks and
\* failure sequences, any dispatches inside and outside the scans, any clock,
\* stops and failed saves.
THEOREM SilenceInEpisode == Spec => SilentOnlyInEpisode
<1>1. Init => EpisodeInv
  <2> SUFFICES ASSUME Init PROVE EpisodeInv
    OBVIOUS
  <2>1. \A s : EpisodesOf(disk.keys, s) = {}
    BY KeyTags DEF Init, EpisodesOf
  <2>2. mem = Fresh /\ pc = "idle" /\ \A s \in DurableSinks : unseen[s] = FALSE
    BY SinkAssumption DEF Init
  <2> QED BY <2>1, <2>2, FreshEpisodes DEF EpisodeInv, EpisodeTold
<1>2. ASSUME TypeInv, EpisodeInv, [Next]_vars
      PROVE  [\A x \in alert'.silent \ alert.silent :
                x[1] \in DurableSinks /\ ~(unseen[x[1]] /\ sink[x[1]].success # sink[x[1]].error)
                   => x[2] \in toldSink[x[1]]]_vars
  <2>1. CASE Observe
    <3>1. PICK readable \in BOOLEAN :
             /\ mem'.keys = Cleared(mem.keys, readable)
             /\ alert'.silent = UNION {{<<s, id>> : id \in Silenced(mem'.keys, readable, s)} :
                                         s \in Sinks}
      BY <1>2, <2>1, ObservedKeys
    <3> QED BY <1>2, <3>1, SilencedTold
  <2>2. CASE Alert \/ Finish \/ Stop \/ QueueFull
    <3>1. Finish \/ Stop \/ QueueFull => alert'.silent = {}
      BY DEF Finish, Stop, QueueFull, EndScan, NoAlert
    <3>2. Alert => alert'.silent = {}
      BY DEF Alert, NoAlert
    <3> QED BY <2>2, <3>1, <3>2
  <2>3. CASE FullScan \/ TargetedScan \/ Backfill
    <3>1. alert' = alert
      BY <2>3, ScanStarts DEF Evaluate
    <3> QED BY <3>1
  <2>4. CASE alert' = alert
    BY <2>4
  <2> QED BY <1>2, <2>1, <2>2, <2>3, <2>4, Steps
          DEF Outside, scanVars, Drain, Persist, Install, Deliver
<1> QED BY <1>1, <1>2, TypeInit, TypeStep, EpisodeStep, PTL DEF Spec, SilentOnlyInEpisode

-----------------------------------------------------------------------------
(* Outages and the error threshold.  The key set is finite, so two sizes   *)
(* compare, and a scan that emits nothing learns nothing unless legacy     *)
(* keys hide what it found: then an unsaved state is the installed one.    *)

\* A watch saves only on change; it must not have inherited legacy keys.
LegacyFreeWatch == \A p \in Setups : p.save = "always" \/ p.legacy = {}

FiniteKeys == IsFiniteSet(disk.keys) /\ IsFiniteSet(mem.keys)

LEMMA FiniteScanned ==
  /\ IsFiniteSet({Seen(d) : d \in Detections})
  /\ IsFiniteSet({Legacy(p) : p \in Postures})
  /\ IsFiniteSet({ScannerError(c) : c \in Clients})
  /\ IsFiniteSet({Outage(c) : c \in Clients})
<1>1. IsFiniteSet(Detections)
  BY FiniteAssumption, FS_Product DEF Detections
<1>2. IsFiniteSet({Seen(d) : d \in Detections})
  <2> DEFINE f == [d \in Detections |-> Seen(d)]
  <2>1. {f[d] : d \in Detections} = {Seen(d) : d \in Detections}
    OBVIOUS
  <2> HIDE DEF f
  <2> QED BY <1>1, <2>1, ImageFinite
<1>3. IsFiniteSet({Legacy(p) : p \in Postures})
  <2> DEFINE f == [p \in Postures |-> Legacy(p)]
  <2>1. {f[p] : p \in Postures} = {Legacy(p) : p \in Postures}
    OBVIOUS
  <2> HIDE DEF f
  <2> QED BY FiniteAssumption, <2>1, ImageFinite
<1>4. IsFiniteSet({ScannerError(c) : c \in Clients})
  <2> DEFINE f == [c \in Clients |-> ScannerError(c)]
  <2>1. {f[c] : c \in Clients} = {ScannerError(c) : c \in Clients}
    OBVIOUS
  <2> HIDE DEF f
  <2> QED BY FiniteAssumption, <2>1, ImageFinite
<1>5. IsFiniteSet({Outage(c) : c \in Clients})
  <2> DEFINE f == [c \in Clients |-> Outage(c)]
  <2>1. {f[c] : c \in Clients} = {Outage(c) : c \in Clients}
    OBVIOUS
  <2> HIDE DEF f
  <2> QED BY FiniteAssumption, <2>1, ImageFinite
<1> QED BY <1>2, <1>3, <1>4, <1>5

LEMMA EvaluateFinite ==
  ASSUME TypeInv, FiniteKeys, NEW k \in Kinds, NEW ts \in SUBSET Clients,
         NEW due \in BOOLEAN, NEW first \in Orders(Found(ts)), Evaluate(k, ts, due, first)
  PROVE  IsFiniteSet(mem'.keys)
<1> DEFINE S == {Seen(d) : d \in Detections}
           E == {ScannerError(c) : c \in Clients}
           O == {Outage(c) : c \in Clients}
           All == (((disk.keys \cup S) \cup E) \cup O) \cup {Threshold} \cup {Health(wall)}
           chosen == Selected(k, ts, first)
<1>1. chosen.keys \subseteq disk.keys \cup S \cup E \cup O \cup {Threshold}
  <2>1. \A K : Latched(K, k, ts) \subseteq K \cup O \cup {Threshold}
    BY FoundTypes DEF Latched
  <2>2. {Seen(d) : d \in Found(ts)} \subseteq S /\ {ScannerError(c) : c \in Failed(ts)} \subseteq E
    BY FoundTypes
  <2>3. chosen.keys = IF k = "backfill" THEN Latched(disk.keys, k, ts)
                      ELSE Latched(disk.keys \cup {Seen(d) : d \in Found(ts)}
                                   \cup {ScannerError(c) : c \in Failed(ts)}, k, ts)
    BY DEF Selected, SelectEvents
  <2> HIDE DEF chosen, S, E, O
  <2> QED BY <2>1, <2>2, <2>3
<1>2. mem'.keys = chosen.keys \/ mem'.keys = WithHealth(chosen.keys)
  BY DEF Evaluate
<1>3. mem'.keys \subseteq All
  <2> HIDE DEF chosen, S, E, O
  <2> QED BY <1>1, <1>2 DEF WithHealth
<1>4. IsFiniteSet(All)
  <2>1. IsFiniteSet(S) /\ IsFiniteSet(E) /\ IsFiniteSet(O) /\ IsFiniteSet(disk.keys)
    BY FiniteScanned DEF FiniteKeys
  <2> HIDE DEF S, E, O
  <2>2. IsFiniteSet(disk.keys \cup S)
    BY <2>1, FS_Union
  <2>3. IsFiniteSet((disk.keys \cup S) \cup E)
    BY <2>1, <2>2, FS_Union
  <2>4. IsFiniteSet(((disk.keys \cup S) \cup E) \cup O)
    BY <2>1, <2>3, FS_Union
  <2>5. IsFiniteSet((((disk.keys \cup S) \cup E) \cup O) \cup {Threshold})
    BY <2>4, FS_AddElement
  <2> QED BY <2>5, FS_AddElement
<1> HIDE DEF All
<1> QED BY <1>3, <1>4, FS_Subset

LEMMA AlertFinite ==
  ASSUME TypeInv, FiniteKeys, Alert
  PROVE  IsFiniteSet(mem'.keys)
<1>1. PICK accepted \in BOOLEAN :
           mem'.keys = {k \in mem.keys : k[1] # "episode"} \cup
                          UNION {Recorded(mem.keys, s, accepted) : s \in Sinks}
  BY AlertedKeys
<1> DEFINE f == [s \in Sinks |-> Episode(s, fails[s][Len(fails[s])].id, alert.success[s])]
           New == {f[s] : s \in Sinks}
<1>2. \A s \in Sinks : Recorded(mem.keys, s, accepted) \subseteq mem.keys \cup New
  <2> SUFFICES ASSUME NEW s \in Sinks, NEW x \in Recorded(mem.keys, s, accepted)
               PROVE  x \in mem.keys \cup New
    OBVIOUS
  <2>1. x \in EpisodesOf(mem.keys, s) \/ x = f[s]
    BY DEF Recorded
  <2> QED BY <2>1 DEF EpisodesOf
<1>3. mem'.keys \subseteq mem.keys \cup New
  <2> HIDE DEF New
  <2> QED BY <1>1, <1>2
<1>4. IsFiniteSet(New)
  <2> HIDE DEF f
  <2> QED BY FiniteAssumption, ImageFinite
<1>5. IsFiniteSet(mem.keys \cup New)
  <2> HIDE DEF New
  <2> QED BY <1>4, FS_Union DEF FiniteKeys
<1> HIDE DEF New
<1> QED BY <1>3, <1>5, FS_Subset

LEMMA FiniteStep ==
  ASSUME TypeInv, FiniteKeys, [Next]_vars
  PROVE  FiniteKeys'
<1>1. CASE UNCHANGED <<disk, mem>>
  BY <1>1 DEF FiniteKeys
<1>2. CASE FullScan \/ TargetedScan \/ Backfill
  <2>1. IsFiniteSet(mem'.keys)
    BY <1>2, ScanStarts, EvaluateFinite
  <2>2. disk' = disk
    BY <1>2, ScanStarts DEF Evaluate
  <2> QED BY <2>1, <2>2 DEF FiniteKeys
<1>3. CASE Install
  BY <1>3 DEF Install, FiniteKeys
<1>4. CASE Observe
  BY <1>4, ObservedKeys, FS_Subset DEF Observe, FiniteKeys
<1>5. CASE Alert
  BY <1>5, AlertFinite DEF Alert, FiniteKeys
<1>6. CASE Finish \/ Stop \/ QueueFull
  <2>1. disk' \in {disk, mem} /\ mem' = Fresh
    BY <1>6 DEF Finish, Stop, QueueFull, EndScan
  <2> QED BY <2>1, FS_EmptySet DEF FiniteKeys, Fresh
<1> QED BY <1>1, <1>2, <1>3, <1>4, <1>5, <1>6, Steps
        DEF Outside, scanVars, Drain, Persist, Deliver

\* Every latched condition of K was alerted, as far as T tells.
AllTold(K, T) ==
  /\ \A c : Outage(c) \in K => Outage(c) \in T
  /\ Threshold \in K => Threshold \in T

NoLegacy(K) == setup.legacy = {} => \A p : Legacy(p) \notin K

\* A scan that emits nothing has learned nothing.
QuietScan == setup.legacy = {} /\ events = {} => mem.keys \subseteq disk.keys

OutageInv ==
  /\ NoLegacy(disk.keys) /\ NoLegacy(mem.keys)
  /\ pc \in {"prepared", "drained", "persisted"} => QuietScan
  /\ AllTold(disk.keys, told)
  /\ pc \in {"prepared", "drained"} => AllTold(mem.keys, told \cup events)
  /\ pc \notin {"idle", "prepared", "drained"} => AllTold(mem.keys, told)
  /\ pc # "idle" => mem.keys \cap SeenRecovered = {}
  /\ pc \notin {"idle", "prepared", "drained", "persisted"} => disk.keys \cap SeenRecovered = {}
  /\ OutageAlerts

LEMMA EvaluateQuiet ==
  ASSUME TypeInv, NoLegacy(disk.keys), NEW k \in Kinds, NEW ts \in SUBSET Clients,
         NEW due \in BOOLEAN, NEW first \in Orders(Found(ts)), Evaluate(k, ts, due, first)
  PROVE  QuietScan'
<1> DEFINE chosen == Selected(k, ts, first)
           errors == {ScannerError(c) : c \in Failed(ts)}
           found == {Seen(d) : d \in Found(ts)}
<1>1. setup' = setup /\ disk' = disk
  BY DEF Evaluate, worldVars
<1> SUFFICES ASSUME setup.legacy = {}, events' = {}
             PROVE  mem'.keys \subseteq disk.keys
  BY <1>1 DEF QuietScan
<1>2. k # "backfill" /\ chosen.events = {} /\ mem'.keys = chosen.keys
  <2>1. /\ events' = chosen.events \cup
                       (IF EmitsHealth(k, ts, chosen.events) THEN {<<"health">>} ELSE {})
        /\ mem'.keys = IF EmitsHealth(k, ts, chosen.events) THEN WithHealth(chosen.keys)
                       ELSE chosen.keys
    BY DEF Evaluate
  <2>2. ~EmitsHealth(k, ts, chosen.events)
    BY <2>1
  <2> QED BY <2>1, <2>2 DEF EmitsHealth
<1>3. chosen.keys = Latched(disk.keys \cup found \cup errors, k, ts)
  BY <1>2 DEF Selected, SelectEvents
<1>4. errors \subseteq disk.keys /\ LatchAlerts(disk.keys, k, ts) = {}
  BY <1>2 DEF Selected
<1>5. found \subseteq disk.keys
  <2> SUFFICES ASSUME NEW d \in Found(ts) PROVE Seen(d) \in disk.keys
    OBVIOUS
  <2>1. d \notin events'
    OBVIOUS
  <2> QED BY <1>2, <2>1, Hidden DEF NoLegacy
<1>6. Latched(disk.keys, k, ts) \subseteq disk.keys
  BY <1>2, <1>4 DEF Latched, LatchAlerts
<1>7. disk.keys \cup found \cup errors = disk.keys
  <2> HIDE DEF found, errors
  <2> QED BY <1>4, <1>5
<1> QED BY <1>2, <1>3, <1>6, <1>7

LEMMA EvaluateTold ==
  ASSUME TypeInv, AllTold(disk.keys, told), NEW k \in Kinds, NEW ts \in SUBSET Clients,
         NEW due \in BOOLEAN, NEW first \in Orders(Found(ts)), Evaluate(k, ts, due, first)
  PROVE  /\ AllTold(mem'.keys, told \cup events')
         /\ OutageAlerts'
         /\ mem'.keys \cap SeenRecovered' = {}
<1>1. LatchAlerts(disk.keys, k, ts) \subseteq events'
  BY DEF Evaluate, Selected
<1>2. /\ kind' = k /\ targets' = ts /\ lost' = Failed(ts)
      /\ Above(ts) <=> Cardinality(lost') > MaxErrors
  BY DEF Evaluate, Above
<1>3. ASSUME k # "targeted"
      PROVE  /\ \A c \in Failed(ts) : Outage(c) \in events' \cup told
             /\ Above(ts) => Threshold \in events' \cup told
  <2>1. \A c \in Failed(ts) : Outage(c) \in LatchAlerts(disk.keys, k, ts) \cup disk.keys
    BY <1>3 DEF LatchAlerts
  <2>2. Above(ts) => Threshold \in LatchAlerts(disk.keys, k, ts) \cup disk.keys
    BY <1>3 DEF LatchAlerts
  <2> QED BY <1>1, <2>1, <2>2 DEF AllTold
<1>4. OutageAlerts'
  <2>1. told' = told
    BY DEF Evaluate
  <2> QED BY <1>2, <1>3, <2>1 DEF OutageAlerts
<1>5. AllTold(mem'.keys, told \cup events')
  <2>1. \A c : Outage(c) \in mem'.keys =>
            Outage(c) \in disk.keys \/ (k # "targeted" /\ c \in Failed(ts))
    BY EvaluatedKeys
  <2>2. Threshold \in mem'.keys => Threshold \in disk.keys \/ (k # "targeted" /\ Above(ts))
    BY EvaluatedKeys
  <2> QED BY <1>3, <2>1, <2>2 DEF AllTold
<1>6. mem'.keys \cap SeenRecovered' = {}
  <2>1. Cardinality(lost') \in Nat /\ MaxErrors \in Nat
    <3>1. IsFiniteSet(Failed(ts))
      BY FiniteAssumption, FoundTypes, FS_Subset
    <3> QED BY <1>2, <3>1, FS_CardinalityType, BoundAssumption
  <2>2. k # "targeted" => \A c \in ts \ lost' : Outage(c) \notin mem'.keys
    BY <1>2, EvaluatedKeys DEF Failed
  <2>3. k = "full" /\ Cardinality(lost') <= MaxErrors => Threshold \notin mem'.keys
    BY <1>2, <2>1, EvaluatedKeys
  <2> QED BY <1>2, <2>2, <2>3 DEF SeenRecovered
<1> QED BY <1>4, <1>5, <1>6

\* What an installation leaves on disk holds the scan's keys, saved or not.
LEMMA InstalledKeys ==
  ASSUME LegacyFreeWatch, TypeInv, FiniteKeys, OutageInv, Install
  PROVE  disk'.keys = mem.keys
<1>1. CASE ShouldSave(mem, events)
  BY <1>1 DEF Install
<1>2. CASE ~ShouldSave(mem, events)
  <2>1. /\ setup.save # "always" /\ events = {}
        /\ Cardinality(mem.keys) = Cardinality(disk.keys)
    BY <1>2 DEF ShouldSave
  <2>2. setup.legacy = {}
    BY <2>1 DEF LegacyFreeWatch, TypeInv, WorldTypes
  <2>3. mem.keys \subseteq disk.keys
    BY <2>1, <2>2 DEF OutageInv, QuietScan, Install
  <2>4. mem.keys = disk.keys
    BY <2>1, <2>3, FS_Subset DEF FiniteKeys
  <2> QED BY <1>2, <2>4 DEF Install
<1> QED BY <1>1, <1>2

LEMMA OutageStep ==
  ASSUME LegacyFreeWatch, TypeInv, FiniteKeys, OutageInv, [Next]_vars
  PROVE  OutageInv'
<1>1. CASE UNCHANGED <<setup, disk, scanVars, told>>
  BY <1>1 DEF OutageInv, NoLegacy, QuietScan, AllTold, OutageAlerts, SeenRecovered, scanVars
<1>2. CASE FullScan \/ TargetedScan \/ Backfill
  <2>1. PICK k \in Kinds, ts \in SUBSET Clients, due \in BOOLEAN :
            \E first \in Orders(Found(ts)) : Evaluate(k, ts, due, first)
    BY <1>2, ScanStarts
  <2>2. UNCHANGED <<setup, disk, told>> /\ pc' = "prepared"
    BY <2>1 DEF Evaluate, worldVars
  <2>3. NoLegacy(mem.keys)' /\ NoLegacy(disk.keys)'
    BY <2>1, <2>2, EvaluatedKeys DEF OutageInv, NoLegacy
  <2>4. QuietScan'
    BY <2>1, EvaluateQuiet DEF OutageInv
  <2>5. /\ AllTold(mem'.keys, told \cup events')
        /\ OutageAlerts'
        /\ mem'.keys \cap SeenRecovered' = {}
    BY <2>1, EvaluateTold DEF OutageInv
  <2> QED BY <2>2, <2>3, <2>4, <2>5 DEF OutageInv, AllTold
<1>3. CASE Persist
  <2>1. /\ UNCHANGED <<setup, disk, mem, events, kind, targets, lost>>
        /\ pc = "drained" /\ pc' = "persisted"
        /\ told' = told \cup {e \in events : e[1] \in {"outage", "threshold"}}
    BY <1>3 DEF Persist, worldVars
  <2>2. AllTold(mem.keys, told') /\ AllTold(disk.keys, told')
    BY <2>1, KeyTags DEF OutageInv, AllTold
  <2> QED BY <2>1, <2>2 DEF OutageInv, NoLegacy, QuietScan, AllTold, OutageAlerts, SeenRecovered
<1>4. CASE Install
  <2>1. disk'.keys = mem.keys
    BY <1>4, InstalledKeys
  <2>2. /\ UNCHANGED <<setup, mem, events, told, kind, targets, lost>>
        /\ pc = "persisted" /\ pc' = "installed"
    BY <1>4 DEF Install, worldVars
  <2>3. SeenRecovered' = SeenRecovered
    BY <2>2 DEF SeenRecovered
  <2> QED BY <2>1, <2>2, <2>3 DEF OutageInv, NoLegacy, AllTold, OutageAlerts
<1>5. CASE Drain \/ Deliver
  BY <1>5 DEF Drain, Deliver, worldVars, OutageInv, NoLegacy, QuietScan, AllTold, OutageAlerts,
              SeenRecovered
<1>6. CASE Observe \/ Alert
  <2>1. \A x : x[1] # "episode" => (x \in mem'.keys <=> x \in mem.keys)
    BY <1>6, ObservedKeys, AlertedKeys
  <2>2. /\ UNCHANGED <<setup, disk, events, told, kind, targets, lost>>
        /\ pc \in {"delivered", "observed"} /\ pc' \in {"observed", "alerted"}
    BY <1>6 DEF Observe, Alert, worldVars
  <2>3. SeenRecovered' = SeenRecovered /\ \A x \in SeenRecovered : x[1] # "episode"
    BY <2>2, KeyTags DEF SeenRecovered
  <2>4. NoLegacy(mem.keys)' /\ AllTold(mem.keys, told)'
    BY <2>1, <2>2, KeyTags DEF OutageInv, NoLegacy, AllTold
  <2> QED BY <2>1, <2>2, <2>3, <2>4 DEF OutageInv, NoLegacy, AllTold, OutageAlerts
<1>7. CASE Finish
  <2>1. /\ pc = "alerted" /\ pc' = "idle" /\ mem'.keys = {} /\ setup' = setup
        /\ disk' \in {mem, disk} /\ told' = told \ SeenRecovered
    BY <1>7 DEF Finish, EndScan, Fresh
  <2>2. AllTold(disk'.keys, told')
    BY <2>1 DEF OutageInv, AllTold
  <2> QED BY <2>1, <2>2 DEF OutageInv, NoLegacy, AllTold, OutageAlerts
<1>8. CASE Stop \/ QueueFull
  <2>1. pc' = "idle" /\ mem'.keys = {} /\ UNCHANGED <<setup, disk, told>>
    BY <1>8 DEF Stop, QueueFull, EndScan, Fresh
  <2> QED BY <2>1 DEF OutageInv, NoLegacy, AllTold, OutageAlerts
<1> QED BY <1>1, <1>2, <1>3, <1>4, <1>5, <1>6, <1>7, <1>8, Steps DEF Outside

\* Whatever stops, failed saves and unsaved scans come between, a full scan
\* that sees an outage or too many errors alerts unless it was alerted since
\* a finished scan saw it gone: for any installation that saves every scan or
\* inherited no legacy keys.  (The other installations do miss alerts.)
THEOREM OutagesAlert ==
  ASSUME LegacyFreeWatch
  PROVE  Spec => []OutageAlerts
<1>1. Init => FiniteKeys /\ OutageInv
  <2> SUFFICES ASSUME Init PROVE FiniteKeys /\ OutageInv
    OBVIOUS
  <2>1. /\ setup \in Setups /\ pc = "idle" /\ mem.keys = {}
        /\ disk.keys = {Legacy(p) : p \in setup.legacy}
    BY DEF Init, Fresh
  <2>2. disk.keys \subseteq {Legacy(p) : p \in Postures}
    BY <2>1, SetupAssumption
  <2>3. FiniteKeys
    BY <2>1, <2>2, FiniteScanned, FS_Subset, FS_EmptySet DEF FiniteKeys
  <2>4. OutageInv
    BY <2>1, KeyTags DEF OutageInv, NoLegacy, AllTold, OutageAlerts
  <2> QED BY <2>3, <2>4
<1>2. FiniteKeys /\ OutageInv => OutageAlerts
  BY DEF OutageInv
<1> QED BY <1>1, <1>2, TypeInit, TypeStep, FiniteStep, OutageStep, PTL DEF Spec
=============================================================================
