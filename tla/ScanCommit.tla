---------------------------- MODULE ScanCommit ----------------------------
(***************************************************************************)
(* What one scan remembers, and when it becomes durable (run_scan in       *)
(* cli/scan.rs over ScanState in state.rs).                                *)
(*                                                                         *)
(* ScanState keeps one set of keys: fingerprints of what was emitted,      *)
(* latches of conditions already alerted (a client whose sources all fail, *)
(* the scanner-error threshold, a sink that keeps being refused) and the   *)
(* time of the last health event.  A scan loads the installed state under  *)
(* the state lock, changes it in memory, dispatches the rows that are      *)
(* ready, writes the events it selected to the canonical journal, installs *)
(* the state, delivers, compares the open episodes with the sinks' health, *)
(* alerts about sinks that failed and saves the episode latch.  It may     *)
(* stop between any two of these steps, and other dispatches may run       *)
(* there.  The wall clock may jump; the monotonic clock does not.          *)
(***************************************************************************)
EXTENDS Integers, Sequences, FiniteSets, SequencesExt

CONSTANTS
    Clients,        \* clients, one source each
    Postures, Classes,  \* a detection is a posture with its classification
    Sinks, DurableSinks,
    Identities,     \* failure classes that open an episode
    MaxFails,       \* failures one dispatch reports of a sink
    MaxErrors,      \* max_scanner_errors
    Setups,         \* configurations and inherited states to start from
    MaxStops        \* bound of the model only

ASSUME SinkAssumption == DurableSinks \subseteq Sinks
\* A scan finds finitely much: the key set is compared by its size.
ASSUME FiniteAssumption ==
    \A S \in {Clients, Postures, Classes, Sinks} : IsFiniteSet(S)
\* The save policy, the postures of legacy keys in the inherited state,
\* health_heartbeat_interval_seconds (0 when not set), the configured sinks;
\* and, bounds of the model only, the clients whose sources change, how often
\* the world does something and how long it lasts.
ASSUME SetupAssumption ==
    \A p \in Setups : /\ p.save \in {"always", "on_change"}
                      /\ p.legacy \subseteq Postures
                      /\ p.interval \in Nat
                      /\ p.sinks \subseteq Sinks
                      /\ p.changing \subseteq Clients
                      /\ p.maxChanges \in Nat /\ p.maxTime \in Nat
ASSUME BoundAssumption == {MaxFails, MaxErrors} \subseteq Nat
\* A failure of any other class never opens an episode.
ASSUME IdentityAssumption == "other" \notin Identities

VARIABLES
    wall, mono,     \* the two clocks
    content,        \* detections each client's source yields
    failing,        \* clients whose source cannot be processed
    setup,          \* the configuration of this installation
    disk,           \* installed scan state
    pc, kind,       \* phase and kind of the scan
    targets,        \* clients scanned
    lost,           \* of these, the ones that could not be processed
    observed,       \* observed_at of the scan
    mem,            \* the scan's state in memory
    events,         \* the scan's selected events
    fails,          \* failures of each sink in this scan
    sink,           \* health of each sink in the outbox
    heartbeat,      \* the watch loop's own copy of the last health time
    alert,          \* what the scan knows of the episodes (see NoAlert)
    beat,           \* this scan was scheduled by the heartbeat
    journal,        \* detections in the canonical journal
    told,           \* history: outages and threshold alerted since recovery
    toldSink,       \* history: identities alerted since the sink's last success
    unseen,         \* history: whether that success hides in the millisecond
                    \*   an episode refers to
    healths,        \* history: times of the health events in the journal
    changes, stops
scanVars == <<pc, kind, targets, lost, observed, mem, events, fails, alert, beat>>
worldVars == <<wall, mono, content, failing, setup, changes>>
sinkVars == <<sink, toldSink, unseen>>
vars == <<worldVars, disk, scanVars, sinkVars, heartbeat, journal, told, healths,
          stops>>

Detections == Postures \X Classes

-----------------------------------------------------------------------------
(***************************************************************************)
(* Keys of seen_detection_fingerprints.                                    *)
(***************************************************************************)
Seen(d) == <<"seen", d[1], d[2]>>
Legacy(p) == <<"legacy", p>>
ScannerError(c) == <<"scanner_error", c>>
Outage(c) == <<"outage", c>>
Threshold == <<"threshold">>
Health(t) == <<"health", t>>
Episode(s, id, ref) == <<"episode", s, id, ref>>

EpisodesOf(keys, s) == {k \in keys : k[1] = "episode" /\ k[2] = s}
HealthTimes(keys) == {k[2] : k \in {x \in keys : x[1] = "health"}}

\* should_emit_posture: a legacy key hides a detection only while the posture
\* was learned with no other classification.
ClassificationChanged(keys, d) ==
    \E c \in Classes \ {d[2]} : Seen(<<d[1], c>>) \in keys
\* Variant: a legacy key hides every classification.
LegacySeenAlways(keys, d) == Legacy(d[1]) \in keys
LegacySeen(keys, d) == ~ClassificationChanged(keys, d) /\ Legacy(d[1]) \in keys
Emits(keys, d) == Seen(d) \notin keys /\ ~LegacySeen(keys, d)

\* The emission orders of what was found: as far as a detection can tell, an
\* order is the classification of its posture that comes first.
Orders(found) ==
    {first \in [{d[1] : d \in found} -> Classes] :
        \A p \in DOMAIN first : <<p, first[p]>> \in found}

\* The keys when d has its turn: a posture's first detection is learned by then.
KeysAt(keys, first, d) ==
    IF first[d[1]] = d[2] THEN keys ELSE keys \cup {Seen(<<d[1], first[d[1]]>>)}

\* select_source_events in the order first.
SelectEvents(keys, found, first) ==
    [keys |-> keys \cup {Seen(d) : d \in found},
     events |-> {d \in found : Emits(KeysAt(keys, first, d), d)}]

-----------------------------------------------------------------------------
(***************************************************************************)
(* Evaluation.  All of a scan up to its first write is one step: it holds  *)
(* the state lock and changes nothing but its memory.                      *)
(***************************************************************************)
\* Variant: a time in the future keeps the heartbeat quiet.
HeartbeatDueByAge(last, now) == last = {} \/ \E t \in last : now - t >= setup.interval
\* health_heartbeat_wait is zero.
HeartbeatDue(last, now) ==
    \/ last = {}
    \/ \E t \in last : t > now \/ now - t >= setup.interval

Failed(ts) == ts \cap failing
Above(ts) == Cardinality(Failed(ts)) > MaxErrors

\* Variant: latches are never cleared.
LatchedForever(keys, k, ts) ==
    IF k = "targeted" THEN keys ELSE keys \cup {Outage(c) : c \in Failed(ts)}
\* Outage and threshold latches, touched by full scans only; a backfill alerts
\* without suppression and leaves the threshold latch alone.
Latched(keys, k, ts) ==
    LET cleared == {Outage(c) : c \in ts \ failing}
                   \cup (IF Above(ts) \/ k = "backfill" THEN {} ELSE {Threshold})
        entered == {Outage(c) : c \in Failed(ts)}
                   \cup (IF Above(ts) /\ k # "backfill" THEN {Threshold} ELSE {})
    IN  IF k = "targeted" THEN keys ELSE (keys \ cleared) \cup entered

LatchAlerts(keys, k, ts) ==
    LET conditions == {Outage(c) : c \in Failed(ts)}
                      \cup (IF Above(ts) THEN {Threshold} ELSE {})
    IN  IF k = "targeted" THEN {}
        ELSE IF k = "backfill" THEN conditions ELSE conditions \ keys

Found(ts) == UNION {content[c] : c \in ts \ failing}

Fresh == [keys |-> {}, baseline |-> [c \in Clients |-> {}], observed |-> {}]
\* Failures left unalerted; whether open episodes are honoured, and the success
\* times they are compared with; whether the latch changed; whether the alerts
\* could not be stored.
NoAlert == [silent |-> {}, honor |-> FALSE, success |-> [s \in Sinks |-> 0],
            changed |-> FALSE, refused |-> FALSE]

\* What a source contributes to the activity baseline does not depend on how
\* the rules classify it.
Contribution(found) == {d[1] : d \in found}

\* A state left by a version that kept legacy keys already knows its sources.
Init ==
    /\ wall = 1 /\ mono = 1
    /\ setup \in Setups
    /\ content \in [Clients -> SUBSET (setup.legacy \X Classes)] /\ failing = {}
    /\ disk = [keys |-> {Legacy(p) : p \in setup.legacy},
               baseline |-> [c \in Clients |-> Contribution(content[c])],
               observed |-> {c \in Clients : content[c] # {}}]
    /\ pc = "idle" /\ kind = "full" /\ targets = {} /\ lost = {} /\ observed = 0
    /\ mem = Fresh /\ events = {} /\ beat = FALSE /\ alert = NoAlert
    /\ fails = [s \in Sinks |-> <<>>]
    /\ sink = [s \in Sinks |-> [success |-> 0, error |-> 0]]
    /\ heartbeat = [last |-> {}, retry |-> 0]
    /\ journal = {} /\ told = {} /\ healths = {}
    /\ toldSink = [s \in Sinks |-> {}] /\ unseen = [s \in Sinks |-> FALSE]
    /\ changes = 0 /\ stops = 0

\* The state in memory and the events before health is decided.
Selected(k, ts, first) ==
    LET errors == {ScannerError(c) : c \in Failed(ts)}
        chosen == SelectEvents(disk.keys, Found(ts), first)
    IN  IF k = "backfill"
        THEN [keys |-> Latched(disk.keys, k, ts),
              events |-> Found(ts) \cup errors \cup LatchAlerts(disk.keys, k, ts)]
        ELSE [keys |-> Latched(chosen.keys \cup errors, k, ts),
              events |-> chosen.events \cup (errors \ disk.keys)
                         \cup LatchAlerts(disk.keys, k, ts)]

\* Whether a health event is emitted.
EmitsHealth(k, ts, evs) ==
    \/ k = "backfill"
    \/ k # "targeted" /\ disk.observed # ts
    \/ \E e \in evs : e[1] \in {"scanner_error", "outage", "threshold"}
    \/ /\ k # "targeted" /\ setup.interval > 0
       /\ HeartbeatDue(HealthTimes(disk.keys), wall)

WithHealth(keys) ==
    IF setup.interval = 0 THEN keys
    ELSE {x \in keys : x[1] # "health"} \cup {Health(wall)}

\* StateSavePolicy: OnChange compares the sizes of the key set.
ShouldSave(m, evs) ==
    \/ setup.save = "always"
    \/ evs # {}
    \/ m.baseline # disk.baseline \/ m.observed # disk.observed
    \/ Cardinality(m.keys) # Cardinality(disk.keys)

Evaluate(k, ts, due, first) ==
    LET chosen == Selected(k, ts, first)
        health == EmitsHealth(k, ts, chosen.events)
    IN  /\ pc = "idle"
        /\ pc' = "prepared" /\ kind' = k /\ targets' = ts /\ beat' = due
        /\ lost' = Failed(ts)
        /\ observed' = wall
        /\ mem' = [keys |-> IF health THEN WithHealth(chosen.keys) ELSE chosen.keys,
                   baseline |-> IF k = "backfill" THEN disk.baseline
                                ELSE [c \in Clients |-> IF c \in ts \ failing
                                                        THEN Contribution(content[c])
                                                        ELSE disk.baseline[c]],
                   observed |-> IF k = "targeted" THEN disk.observed \cup ts ELSE ts]
        /\ events' = chosen.events \cup (IF health THEN {<<"health">>} ELSE {})
        /\ UNCHANGED <<worldVars, disk, fails, alert, sinkVars, heartbeat, journal, told,
                       healths, stops>>

Start(k, ts, due) == \E first \in Orders(Found(ts)) : Evaluate(k, ts, due, first)

\* WatchHeartbeat::is_due; the delay after a fruitless scan is monotonic.
IsDue ==
    /\ setup.interval > 0
    /\ heartbeat.retry = 0 \/ mono - heartbeat.retry >= setup.interval
    /\ HeartbeatDue(heartbeat.last, wall)

\* A due heartbeat widens a targeted scan.
FullScan == Start("full", Clients, IsDue)
TargetedScan == \E ts \in (SUBSET Clients) \ {{}} : ~IsDue /\ Start("targeted", ts, FALSE)
Backfill == Start("backfill", Clients, FALSE)

-----------------------------------------------------------------------------
(***************************************************************************)
(* Dispatches.  Each reads the wall clock once, when it begins, and stamps *)
(* what it records of a sink's health with it.                             *)
(***************************************************************************)
\* Only a blocked row that fails the same way again matters as released.
Failure == [id : Identities, released : BOOLEAN] \cup [id : {"other"}, released : {FALSE}]
Outcome == [ok : BOOLEAN, fails : BoundedSeq(Failure, MaxFails)]
NoOutcome == [ok |-> FALSE, fails |-> <<>>]
Durable == DurableSinks \cap setup.sinks

\* A durable sink may have ready rows or none.
Dispatches == {o \in [Sinks -> Outcome] : \A s \in Sinks \ Durable : o[s] = NoOutcome}

\* The success times the episodes of a sink refer to, or are about to.
References(s) ==
    {k[4] : k \in EpisodesOf(disk.keys \cup mem.keys, s)}
    \cup (IF pc = "observed" THEN {alert.success[s]} ELSE {})

\* record_delivery_at for the outcomes o of a dispatch begun at t.
Dispatched(o, t) ==
    /\ sink' = [s \in Sinks |->
                  IF s \notin DurableSinks THEN sink[s]
                  ELSE [success |-> IF o[s].ok THEN t ELSE sink[s].success,
                        error |-> IF o[s].fails # <<>> THEN t ELSE sink[s].error]]
    /\ unseen' = [s \in Sinks |-> IF s \in DurableSinks /\ o[s].ok THEN t \in References(s)
                                  ELSE unseen[s]]

\* Alerts that are from before a success count no more.
ToldSince(o) == [s \in Sinks |-> IF o[s].ok THEN {} ELSE toldSink[s]]

\* A dispatch outside the scan: idle delivery of the watch, another process.
\* It may have begun before the clock's last tick; its failures are printed only.
Dispatch(s, t) ==
    /\ s \in Durable /\ changes < setup.maxChanges /\ changes' = changes + 1
    /\ \E o \in Dispatches :
         /\ \A r \in Sinks \ {s} : o[r] = NoOutcome
         /\ o[s] # NoOutcome
         /\ Dispatched(o, t)
         /\ toldSink' = ToldSince(o)
    /\ UNCHANGED <<wall, mono, content, failing, setup, disk, scanVars, heartbeat,
                   journal, told, healths, stops>>

-----------------------------------------------------------------------------
(***************************************************************************)
(* Commit and delivery.                                                    *)
(***************************************************************************)
\* The scan's variables end with it.
EndScan ==
    /\ pc' = "idle" /\ kind' = "full" /\ targets' = {} /\ lost' = {}
    /\ observed' = 0 /\ mem' = Fresh /\ events' = {} /\ beat' = FALSE
    /\ fails' = [s \in Sinks |-> <<>>] /\ alert' = NoAlert
    /\ mono < setup.maxTime /\ mono' = mono + 1 /\ wall' = wall + 1

\* A process that starts reads the last health time from the installed state.
Restarted(keys) == [last |-> HealthTimes(keys), retry |-> 0]

\* persist_for_durable_replay dispatches ready rows, to make room, before it
\* looks at the queue.
Drain ==
    /\ pc = "prepared"
    /\ \E o \in Dispatches :
         /\ fails' = [s \in Sinks |-> o[s].fails]
         /\ Dispatched(o, wall)
         /\ toldSink' = ToldSince(o)
    /\ pc' = "drained"
    /\ UNCHANGED <<worldVars, disk, kind, targets, lost, observed, mem, events, beat,
                   alert, heartbeat, journal, told, healths, stops>>

\* The queue has no room for the batch: the scan fails, the process ends, and
\* with them what the dispatch reported.
QueueFull ==
    /\ pc = "drained" /\ events # {} /\ Durable # {}
    /\ heartbeat' = Restarted(disk.keys)
    /\ EndScan
    /\ UNCHANGED <<content, failing, setup, changes, disk, sinkVars, journal, told,
                   healths, stops>>

\* The append: what is written stays, even if the call fails.
Persist ==
    /\ pc = "drained"
    /\ pc' = "persisted"
    /\ journal' = journal \cup (events \cap Detections)
    /\ told' = told \cup {e \in events : e[1] \in {"outage", "threshold"}}
    /\ healths' = healths \cup (IF <<"health">> \in events THEN {observed} ELSE {})
    /\ UNCHANGED <<worldVars, disk, kind, targets, lost, observed, mem, events, fails,
                   beat, alert, sinkVars, heartbeat, stops>>

Install ==
    /\ pc = "persisted"
    /\ pc' = "installed"
    /\ disk' = IF ShouldSave(mem, events) THEN mem ELSE disk
    /\ UNCHANGED <<worldVars, kind, targets, lost, observed, mem, events, fails, beat, alert,
                   sinkVars, heartbeat, journal, told, healths, stops>>

\* A best-effort sink takes the whole batch or fails once, if there is a batch.
Emitted(s, o) ==
    /\ Len(o.fails) <= 1 /\ \A i \in DOMAIN o.fails : ~o.fails[i].released
    /\ o.ok = (s \in setup.sinks /\ events # {} /\ o.fails = <<>>)
    /\ s \notin setup.sinks \/ events = {} => o.fails = <<>>

\* deliver_durable and deliver_best_effort; the failures add to the drain's.
Deliver ==
    /\ pc = "installed"
    /\ \E o \in [Sinks -> Outcome] :
         /\ \A s \in Sinks : IF s \in DurableSinks THEN s \in Durable \/ o[s] = NoOutcome
                             ELSE Emitted(s, o[s])
         /\ fails' = [s \in Sinks |-> fails[s] \o o[s].fails]
         /\ Dispatched(o, wall)
         /\ toldSink' = ToldSince(o)
    /\ pc' = "delivered"
    /\ UNCHANGED <<worldVars, disk, kind, targets, lost, observed, mem, events, beat,
                   alert, heartbeat, journal, told, healths, stops>>

-----------------------------------------------------------------------------
(***************************************************************************)
(* Sink-failure episodes.                                                  *)
(***************************************************************************)
\* Variant: only a success after the last error closes an episode.
RecoveredLater(keys, s) == sink[s].success > sink[s].error
\* A success the open episode does not know of, or one whose order with the
\* last error cannot be told, closes it.
Recovered(keys, s) ==
    \/ \E k \in EpisodesOf(keys, s) : k[4] # sink[s].success
    \/ sink[s].success # 0 /\ sink[s].success = sink[s].error

\* observe_sink_failure_episode_success; the outbox may be unreadable.
Cleared(keys, readable) ==
    LET closed == {s \in Sinks : IF s \in DurableSinks THEN readable /\ Recovered(keys, s)
                                 ELSE events # {} /\ fails[s] = <<>>}
    IN  keys \ UNION {EpisodesOf(keys, s) : s \in closed}

AlreadyOpen(keys, honor, s, i) ==
    IF i > 1 THEN fails[s][i - 1].id = fails[s][i].id
    ELSE honor /\ \E k \in EpisodesOf(keys, s) : k[3] = fails[s][i].id

Released(s, id) == \E i \in DOMAIN fails[s] : fails[s][i].id = id /\ fails[s][i].released

\* select_sink_failure_alerts: identities alerted, one alert for each.
Alerted(keys, honor, s) ==
    {id \in Identities :
       \E i \in DOMAIN fails[s] :
          fails[s][i].id = id /\ (Released(s, id) \/ ~AlreadyOpen(keys, honor, s, i))}

\* Identities that failed and are left unalerted.
Silenced(keys, honor, s) ==
    ({fails[s][i].id : i \in DOMAIN fails[s]} \cap Identities) \ Alerted(keys, honor, s)

Alerts(keys, honor) ==
    \E s \in Sinks : \/ Alerted(keys, honor, s) # {}
                     \/ \E i \in DOMAIN fails[s] : fails[s][i].id = "other"

\* observe_sink_failure_episode_success and the selection: what the scan will
\* alert about is settled by the success times it reads here.
Observe ==
    /\ pc = "delivered"
    /\ \E readable \in BOOLEAN :
         LET keys == Cleared(mem.keys, readable)
         IN  /\ mem' = [mem EXCEPT !.keys = keys]
             /\ alert' = [silent |-> UNION {{<<s, id>> : id \in Silenced(keys, readable, s)} :
                                              s \in Sinks},
                          honor |-> readable,
                          success |-> [s \in Sinks |-> IF readable /\ s \in DurableSinks
                                                       THEN sink[s].success ELSE 0],
                          changed |-> keys # mem.keys, refused |-> FALSE]
    /\ pc' = "observed"
    /\ UNCHANGED <<worldVars, disk, kind, targets, lost, observed, events, fails,
                   beat, sinkVars, heartbeat, journal, told, healths, stops>>

\* Variant: a new episode does not replace the old one.
RecordedBeside(keys, s, accepted) ==
    LET last == fails[s][Len(fails[s])].id
    IN  IF accepted /\ fails[s] # <<>> /\ last \in Identities
        THEN EpisodesOf(keys, s) \cup {Episode(s, last, alert.success[s])}
        ELSE EpisodesOf(keys, s)
\* record_sink_failure_episode: only the last identity stays latched.
Recorded(keys, s, accepted) ==
    LET last == fails[s][Len(fails[s])].id
    IN  IF fails[s] = <<>> THEN EpisodesOf(keys, s)
        ELSE IF accepted /\ last \in Identities THEN {Episode(s, last, alert.success[s])}
        ELSE {}

\* If there are alerts, they are stored and delivered, or not accepted; storing
\* them dispatches once more, and what that reports is dropped.
Alert ==
    /\ pc = "observed"
    /\ \E admitted \in BOOLEAN, o \in Dispatches :
         LET alerts == Alerts(mem.keys, alert.honor)
             accepted == admitted \/ ~alerts
             episodes == UNION {Recorded(mem.keys, s, accepted) : s \in Sinks}
         IN  /\ ~alerts => \A s \in Sinks : o[s] = NoOutcome
             /\ Dispatched(o, wall)
             /\ mem' = [mem EXCEPT !.keys = {k \in @ : k[1] # "episode"} \cup episodes]
             /\ toldSink' = [s \in Sinks |-> ToldSince(o)[s] \cup
                               IF accepted THEN Alerted(mem.keys, alert.honor, s) ELSE {}]
             /\ alert' = [NoAlert EXCEPT !.changed = alert.changed \/ mem'.keys # mem.keys,
                                         !.refused = ~accepted]
    /\ pc' = "alerted"
    /\ UNCHANGED <<worldVars, disk, kind, targets, lost, observed, events, fails,
                   beat, heartbeat, journal, told, healths, stops>>

\* Conditions the scan saw gone.
SeenRecovered ==
    IF kind = "targeted" THEN {}
    ELSE {Outage(c) : c \in targets \ lost}
         \cup (IF kind = "full" /\ Cardinality(lost) <= MaxErrors THEN {Threshold} ELSE {})

\* The latch is saved with the whole state; a failed save is only a warning, but
\* alerts that could not be stored may end the process.
Finish ==
    /\ pc = "alerted"
    /\ disk' \in IF alert.changed THEN {mem, disk} ELSE {disk}
    /\ told' = told \ SeenRecovered
    /\ \/ heartbeat' = [last |-> HealthTimes(mem.keys),
                        retry |-> IF beat /\ HeartbeatDue(HealthTimes(mem.keys), wall)
                                  THEN mono ELSE 0]
       \/ alert.refused /\ heartbeat' = Restarted(disk'.keys)
    /\ EndScan
    /\ UNCHANGED <<content, failing, setup, changes, sinkVars, journal, healths, stops>>

\* The process stops, or a required step fails and ends it; it starts again.
Stop ==
    /\ pc # "idle" /\ stops < MaxStops
    /\ stops' = stops + 1
    /\ heartbeat' = Restarted(disk.keys)
    /\ EndScan
    /\ UNCHANGED <<content, failing, setup, changes, disk, sinkVars, journal, told,
                   healths>>

-----------------------------------------------------------------------------
Tick ==
    /\ mono < setup.maxTime /\ mono' = mono + 1 /\ wall' = wall + 1
    /\ UNCHANGED <<content, failing, setup, changes, disk, scanVars, sinkVars,
                   heartbeat, journal, told, healths, stops>>

\* The wall clock is set.  (Without a heartbeat or sinks nothing reads it.)
Jump ==
    /\ setup.interval > 0 \/ setup.sinks # {}
    /\ changes < setup.maxChanges /\ changes' = changes + 1
    /\ wall' \in 1..setup.maxTime
    /\ UNCHANGED <<mono, content, failing, setup, disk, scanVars, sinkVars, heartbeat,
                   journal, told, healths, stops>>

\* A session file grows or its detections are classified anew.  A scan reads
\* the sources in its first step, so nothing is lost by changing them between
\* scans only.
Change(c) ==
    /\ pc = "idle" /\ changes < setup.maxChanges /\ changes' = changes + 1
    /\ \E found \in SUBSET Detections : content' = [content EXCEPT ![c] = found]
    /\ UNCHANGED <<wall, mono, failing, setup, disk, scanVars, sinkVars, heartbeat,
                   journal, told, healths, stops>>

\* A source becomes unreadable, or readable again.
Toggle(c) ==
    /\ pc = "idle" /\ changes < setup.maxChanges /\ changes' = changes + 1
    /\ failing' = IF c \in failing THEN failing \ {c} ELSE failing \cup {c}
    /\ UNCHANGED <<wall, mono, content, setup, disk, scanVars, sinkVars, heartbeat,
                   journal, told, healths, stops>>

Next ==
    \/ Tick \/ Jump
    \/ \E c \in setup.changing : Change(c) \/ Toggle(c)
    \/ \E s \in Sinks, t \in 1..wall : Dispatch(s, t)
    \/ FullScan \/ TargetedScan \/ Backfill
    \/ Drain \/ QueueFull \/ Persist \/ Install \/ Deliver
    \/ Observe \/ Alert \/ Finish \/ Stop

Spec == Init /\ [][Next]_vars

-----------------------------------------------------------------------------
(***************************************************************************)
(* Types.  The key set of the installed state holds at most one open episode *)
(* of a sink and at most one health time, whatever saves failed; only      *)
(* scanned clients are lost.                                               *)
(***************************************************************************)
TypeOK ==
    /\ disk.observed \subseteq Clients /\ mem.observed \subseteq Clients
    /\ \A k \in disk.keys \cup mem.keys :
         k[1] \in {"seen", "legacy", "scanner_error", "outage", "threshold",
                   "health", "episode"}
    /\ \A s \in Sinks : Cardinality(EpisodesOf(disk.keys, s)) <= 1
    /\ Cardinality(HealthTimes(disk.keys)) <= 1
    /\ journal \subseteq Detections
    /\ lost \subseteq targets

(***************************************************************************)
(* A remembered detection was written: the installed state holds the key   *)
(* of a classified detection only if the canonical journal holds the       *)
(* event, or a legacy key stands for it; and a legacy key stands for at    *)
(* most one classification.                                                *)
(***************************************************************************)
RememberedIsWritten ==
    \A d \in Detections :
        Seen(d) \in disk.keys /\ d \notin journal
            => /\ Legacy(d[1]) \in disk.keys
               /\ \A c \in Classes \ {d[2]} :
                    Seen(<<d[1], c>>) \in disk.keys => <<d[1], c>> \in journal

(***************************************************************************)
(* "An outage alerts when it starts, stays quiet while unchanged, and      *)
(* alerts again if it recurs": a full scan that sees a client lose every   *)
(* source, or the error count above its threshold, selects the alert       *)
(* unless one is in the journal since a finished full scan saw it gone.    *)
(***************************************************************************)
OutageAlerts ==
    pc = "prepared" /\ kind # "targeted" =>
        /\ \A c \in lost : Outage(c) \in events \cup told
        /\ Cardinality(lost) > MaxErrors => Threshold \in events \cup told

(***************************************************************************)
(* A refused durable sink is silenced only inside an episode: when a scan  *)
(* leaves a blocked delivery it reports unalerted, an alert for that sink  *)
(* and class was accepted after the sink's last success, whichever other   *)
(* dispatches ran, however the clock was set, the process stopped and      *)
(* saves failed in between.  The one success that escapes the scan has the *)
(* very millisecond the episode refers to, and not that of the last error. *)
(* (Of a best-effort sink only the scan that saw the success knows of it;  *)
(* what a dispatch outside Drain and Deliver reports is never alerted.)    *)
(***************************************************************************)
SilentOnlyInEpisode ==
    [][\A x \in alert'.silent \ alert.silent :
         x[1] \in DurableSinks /\ ~(unseen[x[1]] /\ sink[x[1]].success # sink[x[1]].error)
            => x[2] \in toldSink[x[1]]]_vars

(***************************************************************************)
(* The heartbeat is not silenced by a clock that jumps or a process that   *)
(* stops: while no heartbeat scan is due, the journal has a health event   *)
(* within the interval by the wall clock, or a heartbeat scan ended within *)
(* the interval of the monotonic clock.                                    *)
(***************************************************************************)
HeartbeatNotSilent ==
    setup.interval > 0 /\ pc = "idle" /\ ~IsDue =>
        \/ \E t \in healths : t <= wall /\ wall - t < setup.interval
        \/ heartbeat.retry # 0 /\ mono - heartbeat.retry < setup.interval
=============================================================================
