--------------------------- MODULE AlarmIngestion ---------------------------
(***************************************************************************)
(* The alarm occurrences of one device: its rules with their states and    *)
(* transition counters, the periodic snapshots it publishes, the signature *)
(* of the last snapshot MqttManager keeps to skip repeats, the transaction *)
(* of ingest_alarm_snapshot, and the acknowledgement by an account.        *)
(*                                                                         *)
(* The signature is memory, the occurrences are rows: a restart, a failed  *)
(* transaction and the first claim of the device come between them.        *)
(***************************************************************************)
EXTENDS Naturals, FiniteSets

CONSTANTS
    Keys,           \* alarm keys, one per rule
    Requests,       \* slots for concurrent acknowledgements
    None,
    MaxBoots, MaxCount, MaxDisturbances     \* model bounds

ASSUME AlarmIngestionConstants ==
    /\ IsFiniteSet(Keys)
    /\ MaxBoots \in Nat \ {0} /\ MaxCount \in Nat /\ MaxDisturbances \in Nat

VARIABLES
    boot,           \* boot_count of the device
    ready,          \* "ready" of its alarm manager
    rule,           \* its rules: enabled, state, transition_count
    happened,       \* history: activations on the device
    registered,     \* a device row has the routing identity
    message,        \* a snapshot that was not handled yet
    signature,      \* _alarm_snapshot_signatures of the routing identity
    taken,          \* history: how the snapshot that set the signature was taken
    status,         \* alarm_occurrences: status by source
    acked,          \* alarm_occurrences with an acknowledged_at
    ack,            \* acknowledge requests that have read their row
    disturbances    \* failed transactions and restarts, for the bound

device == <<boot, ready, rule, happened>>
rows   == <<status, acked>>
memory == <<signature, taken>>
vars   == <<device, registered, message, memory, rows, ack, disturbances>>

Boots  == 1 .. MaxBoots
Counts == 0 .. MaxCount
States == {"normal", "pending_active", "active", "pending_clear"}

\* uq_alarm_occurrence_source; the device is fixed.
Sources == Keys \X Boots \X Counts

Items     == [Keys -> [state: States, count: Counts] \cup {None}]
Snapshots == [boot: Boots, ready: BOOLEAN, items: Items]

\* NULL is none of the values it stands beside.
ASSUME NoneIsNothing ==
    None \notin [state: States, count: Counts] \cup [boot: Boots, items: Items]

\* The signature leaves out whether the snapshot is complete.
Signature(m) == [boot |-> m.boot, items |-> m.items]

Recorded == {s \in Sources : status[s] # "absent"}

TypeOK ==
    /\ boot \in Boots /\ ready \in BOOLEAN
    /\ rule \in [Keys -> [enabled: BOOLEAN, state: States, count: Counts]]
    /\ happened \subseteq Sources
    /\ registered \in BOOLEAN
    /\ message \in Snapshots \cup {None}
    /\ signature \in [boot: Boots, items: Items] \cup {None}
    /\ taken \in [complete: BOOLEAN, registered: BOOLEAN]
    /\ status \in [Sources -> {"absent", "active", "cleared"}]
    /\ acked \subseteq Recorded
    /\ ack \in [Requests -> Recorded \cup {None}]

NotTaken == [complete |-> FALSE, registered |-> FALSE]

Init ==
    /\ boot = 1 /\ ready = FALSE
    /\ rule = [k \in Keys |-> [enabled |-> TRUE, state |-> "normal", count |-> 0]]
    /\ happened = {}
    /\ registered \in BOOLEAN
    /\ message = None
    /\ signature = None /\ taken = NotTaken
    /\ status = [s \in Sources |-> "absent"]
    /\ acked = {}
    /\ ack = [q \in Requests |-> None]
    /\ disturbances = 0
-----------------------------------------------------------------------------
(* The device.  Its counter moves with activations and clearances.         *)

backend == <<registered, memory, rows, ack, disturbances>>

MovesTo(k, s, n) ==
    /\ rule' = [rule EXCEPT ![k].state = s, ![k].count = n]
    /\ happened' = IF s = "active" /\ rule[k].state = "pending_active"
                   THEN happened \cup {<<k, boot, n>>} ELSE happened
    /\ UNCHANGED <<boot, ready, message, backend>>

RuleMoves(k) ==
    /\ rule[k].enabled
    /\ LET s == rule[k].state
           n == rule[k].count IN
         \/ s = "normal" /\ n < MaxCount /\ MovesTo(k, "pending_active", n)
         \/ s = "pending_active" /\ MovesTo(k, "normal", n)
         \/ s = "pending_active" /\ MovesTo(k, "active", n + 1)
         \/ s = "active" /\ MovesTo(k, "pending_clear", n)
         \/ s = "pending_clear" /\ MovesTo(k, "active", n)
         \/ s = "pending_clear" /\ n < MaxCount /\ MovesTo(k, "normal", n + 1)

\* A disabled rule is no longer listed.
RuleDisabled(k) ==
    /\ rule[k].enabled
    /\ rule' = [rule EXCEPT ![k].enabled = FALSE, ![k].state = "normal"]
    /\ UNCHANGED <<boot, ready, happened, message, backend>>

Reboot ==
    /\ boot + 1 \in Boots
    /\ boot' = boot + 1 /\ ready' = FALSE
    /\ rule' = [k \in Keys |-> [rule[k] EXCEPT !.state = "normal", !.count = 0]]
    /\ UNCHANGED <<happened, message, backend>>

BecomeReady ==
    /\ ~ready /\ ready' = TRUE
    /\ UNCHANGED <<boot, rule, happened, message, backend>>

ItemsOf(listed) ==
    [k \in Keys |-> IF k \in listed
                    THEN [state |-> rule[k].state, count |-> rule[k].count]
                    ELSE None]

Enabled == {k \in Keys : rule[k].enabled}

\* A state message enters the ingestion queue.  Before it is ready the device
\* may list nothing yet.
PublishState ==
    /\ message = None
    /\ \E listed \in IF ready THEN {Enabled} ELSE {{}, Enabled} :
         message' = [boot |-> boot, ready |-> ready, items |-> ItemsOf(listed)]
    /\ UNCHANGED <<device, backend>>

\* QoS 0, a full queue, or a state without a synchronized clock.
StateLost ==
    /\ message # None /\ message' = None
    /\ UNCHANGED <<device, backend>>
-----------------------------------------------------------------------------
(* ingest_alarm_snapshot.                                                  *)

Listed(m) == {k \in Keys : m.items[k] # None}

ACTIVE_ALARM_STATES == {"active", "pending_clear"}

\* Alarms the snapshot shows as active.
Shown(m) == {k \in Listed(m) : m.items[k].state \in ACTIVE_ALARM_STATES}

Open(k) == {s \in Sources : s[1] = k /\ status[s] = "active"}

Later(s, t) == s[2] > t[2] \/ (s[2] = t[2] /\ s[3] >= t[3])

\* _active_occurrence: the one activated last.
LatestOpen(k) == {s \in Open(k) : \A t \in Open(k) : Later(s, t)}

SourceOf(m, k) == <<k, m.boot, m.items[k].count>>

\* Activations that are not open yet; a counter of 0 is no activation.
Activations(m) ==
    {SourceOf(m, k) : k \in {j \in Shown(m) : m.items[j].count # 0
                                           /\ SourceOf(m, j) \notin LatestOpen(j)}}

\* Mutant of Superseded: the occurrence of an earlier activation stays open.
NothingSuperseded(m) == {}

Superseded(m) ==
    (UNION {LatestOpen(k) : k \in {j \in Shown(m) : m.items[j].count # 0}})
        \ {SourceOf(m, k) : k \in Shown(m)}

BackToNormal(m) == UNION {LatestOpen(k) : k \in Listed(m) \ Shown(m)}

\* Only a complete snapshot closes what it does not list.
NoLongerListed(m) ==
    IF m.ready THEN UNION {Open(k) : k \in Keys \ Listed(m)} ELSE {}

Cleared(m) == Superseded(m) \cup BackToNormal(m) \cup NoLongerListed(m)

IngestAlarmSnapshot(m) ==
    status' = [s \in Sources |->
                 IF s \in Activations(m) THEN "active"
                 ELSE IF s \in Cleared(m) THEN "cleared" ELSE status[s]]

Remember(m) ==
    /\ signature' = Signature(m)
    /\ taken' = [complete |-> m.ready, registered |-> registered]

\* Mutant of Forget: the signature is set although the transaction failed.
RememberAnyway(m) == Remember(m)

Forget(m) == UNCHANGED memory

Disturbance ==
    /\ disturbances < MaxDisturbances
    /\ disturbances' = disturbances + 1

\* _persist_alarm_snapshot: repeats are skipped; an unknown device changes no row
\* but its signature is kept; an error of the database or of the unique
\* constraint rolls everything back.
PersistAlarmSnapshot ==
    /\ message # None
    /\ message' = None
    /\ LET m == message IN
         \/ signature = Signature(m) /\ UNCHANGED <<status, memory, disturbances>>
         \/ /\ signature # Signature(m) /\ ~registered
            /\ Remember(m) /\ UNCHANGED <<status, disturbances>>
         \/ /\ signature # Signature(m) /\ registered
            /\ Activations(m) \cap Recorded = {}
            /\ IngestAlarmSnapshot(m) /\ Remember(m) /\ UNCHANGED disturbances
         \/ /\ signature # Signature(m)
            /\ \/ Disturbance
               \/ /\ registered /\ Activations(m) \cap Recorded # {}
                  /\ UNCHANGED disturbances
            /\ Forget(m) /\ UNCHANGED status
    /\ UNCHANGED <<device, registered, acked, ack>>
-----------------------------------------------------------------------------
(* The other parties.                                                      *)

\* The first claim of the device.
Claim ==
    /\ ~registered /\ registered' = TRUE
    /\ UNCHANGED <<device, message, memory, rows, ack, disturbances>>

RestartBackend ==
    /\ Disturbance
    /\ signature' = None /\ taken' = NotTaken
    /\ message' = None
    /\ ack' = [q \in Requests |-> None]
    /\ UNCHANGED <<device, registered, rows>>

\* Mutant of MayAcknowledge: the row is not looked up.
AnySource(s) == TRUE

MayAcknowledge(s) == s \in Recorded \ acked

\* acknowledge_device_alarm reads its row; an acknowledged one is left alone.
BeginAcknowledge(q, s) ==
    /\ ack[q] = None
    /\ MayAcknowledge(s)
    /\ ack' = [ack EXCEPT ![q] = s]
    /\ UNCHANGED <<device, registered, message, memory, rows, disturbances>>

\* Only the columns that were assigned are updated.
Acknowledge(s) ==
    /\ acked' = acked \cup {s}
    /\ UNCHANGED status

CommitAcknowledge(q) ==
    /\ ack[q] # None
    /\ Acknowledge(ack[q])
    /\ ack' = [ack EXCEPT ![q] = None]
    /\ UNCHANGED <<device, registered, message, memory, disturbances>>
-----------------------------------------------------------------------------
Next ==
    \/ \E k \in Keys : RuleMoves(k)
    \/ \E k \in Keys : RuleDisabled(k)
    \/ Reboot
    \/ BecomeReady
    \/ PublishState
    \/ StateLost
    \/ PersistAlarmSnapshot
    \/ Claim
    \/ RestartBackend
    \/ \E q \in Requests, s \in Sources : BeginAcknowledge(q, s)
    \/ \E q \in Requests : CommitAcknowledge(q)

\* The device finishes its self test and publishes its state periodically, and
\* some of it arrives; the ingestion worker runs.
Fairness ==
    /\ WF_vars(BecomeReady) /\ WF_vars(PublishState)
    /\ SF_vars(PersistAlarmSnapshot)

Spec == Init /\ [][Next]_vars /\ Fairness
-----------------------------------------------------------------------------
(* Correctness.                                                            *)

\* "Persist alarm transitions once": whatever is repeated, lost or restarted, an
\* alarm has one open occurrence at most and a new row stands for an activation the
\* device really had; a row only moves forward, so that the ingestion never loses an
\* acknowledgement and an acknowledgement never opens an occurrence that was
\* cleared meanwhile.
RowsFaithful ==
    [][/\ \A k \in Keys : Cardinality(Open(k)') <= 1
       /\ \A s \in Recorded' \ Recorded : s \in happened
       /\ \A s \in Recorded :
            /\ status'[s] # "absent"
            /\ status[s] = "cleared" => status'[s] = "cleared"
            /\ s \in acked => s \in acked']_vars

OpenAlarms   == {k \in Keys : Open(k) # {}}
DeviceAlarms == {k \in Keys : rule[k].state \in {"active", "pending_clear"}}

\* When the device is left alone, its open occurrences are its alarms, if the
\* last snapshot that was not taken for a repeat was complete and found the
\* device row: a complete snapshot with the items of an incomplete one before it
\* is taken for a repeat and closes nothing.
Followed ==
    <>[](taken.complete /\ taken.registered => OpenAlarms = DeviceAlarms)
=============================================================================
