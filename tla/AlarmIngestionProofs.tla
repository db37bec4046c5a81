------------------------ MODULE AlarmIngestionProofs ------------------------
(***************************************************************************)
(* Proofs about AlarmIngestion: what the rows of alarm_occurrences say of  *)
(* the device, for any set of rules and any number of boots, transitions,  *)
(* acknowledgements, failures and restarts.                                *)
(***************************************************************************)
EXTENDS AlarmIngestion, FiniteSetTheorems, TLAPS

\* An alarm that is on was activated with the counter it has; a rule that is about to
\* activate has a transition left to count, and one that is disabled has no alarm.
DeviceTrue ==
    \A k \in Keys :
        /\ rule[k].state \in ACTIVE_ALARM_STATES =>
             <<k, boot, rule[k].count>> \in happened /\ rule[k].count # 0
        /\ ~rule[k].enabled => rule[k].state = "normal"
        /\ rule[k].state = "pending_active" => rule[k].count < MaxCount

\* A snapshot shows no alarm that was not activated, however late it is handled.
MessageTrue ==
    message # None =>
        \A k \in Shown(message) : SourceOf(message, k) \in happened /\ message.items[k].count # 0

\* One open occurrence at most.
OneOpen == \A k \in Keys : \A s, t \in Open(k) : s = t

\* The occurrence that a snapshot of boot n shows for an alarm it lists.
ShownIn(items, n, k) ==
    IF items[k] # None /\ items[k].state \in ACTIVE_ALARM_STATES
    THEN {<<k, n, items[k].count>>} ELSE {}

\* The rows say what the remembered signature says, of the alarms it lists and, when its
\* snapshot was complete, of the others.
RowsTrue ==
    (signature # None /\ taken.registered) =>
        \A k \in Keys :
            (signature.items[k] # None \/ taken.complete)
                => Open(k) = ShownIn(signature.items, signature.boot, k)

IInv == TypeOK /\ DeviceTrue /\ MessageTrue /\ OneOpen /\ RowsTrue
-----------------------------------------------------------------------------
(* Lemmas about the state.                                                 *)

\* The parts of TypeOK: the device, the memory of the ingestion, and the rows.
DeviceType ==
    /\ boot \in Boots /\ ready \in BOOLEAN
    /\ rule \in [Keys -> [enabled: BOOLEAN, state: States, count: Counts]]
    /\ happened \subseteq Sources
MessageType == message \in Snapshots \cup {None}
MemoryType ==
    /\ registered \in BOOLEAN
    /\ signature \in [boot: Boots, items: Items] \cup {None}
    /\ taken \in [complete: BOOLEAN, registered: BOOLEAN]
RowsType ==
    /\ status \in [Sources -> {"absent", "active", "cleared"}]
    /\ acked \subseteq Recorded
    /\ ack \in [Requests -> Recorded \cup {None}]

LEMMA TypeParts == TypeOK <=> DeviceType /\ MessageType /\ MemoryType /\ RowsType
  BY DEF TypeOK, DeviceType, MessageType, MemoryType, RowsType

LEMMA TypePartsNext == TypeOK' <=> DeviceType' /\ MessageType' /\ MemoryType' /\ RowsType'
  BY DEF TypeOK, DeviceType, MessageType, MemoryType, RowsType

\* The third part of a source is a number of transitions.
LEMMA SourceParts ==
    ASSUME NEW s \in Sources
    PROVE  s[1] \in Keys /\ s[2] \in Boots /\ s[3] \in Counts /\ s = <<s[1], s[2], s[3]>>
  BY DEF Sources

LEMMA Numbers == Boots \subseteq Nat /\ Counts \subseteq Nat
  BY AlarmIngestionConstants DEF Boots, Counts

\* With one open occurrence at most, the latest one is the open one.
LEMMA LatestIsOpen ==
    ASSUME OneOpen, NEW k \in Keys
    PROVE  LatestOpen(k) = Open(k)
<1> SUFFICES ASSUME NEW s \in Open(k), NEW t \in Open(k) PROVE Later(s, t)
  BY DEF LatestOpen
<1>1. s = t /\ s \in Sources
  BY DEF OneOpen, Open
<1>2. s[2] \in Nat /\ s[3] \in Nat
  BY <1>1, SourceParts, Numbers
<1> QED  BY <1>1, <1>2 DEF Later

\* The device goes on: what it has shown or activated stays true.
LEMMA DeviceStep ==
    ASSUME IInv, DeviceType', DeviceTrue', happened \subseteq happened',
           UNCHANGED <<message, backend>>
    PROVE  IInv'
<1>1. MessageType' /\ MemoryType' /\ RowsType'
  BY TypeParts DEF IInv, MessageType, MemoryType, RowsType, Recorded, backend, memory, rows
<1>2. MessageTrue'
  BY DEF IInv, MessageTrue, Shown, Listed, SourceOf
<1>3. OneOpen' /\ RowsTrue'
  BY DEF IInv, OneOpen, RowsTrue, Open, backend, rows, memory
<1> QED  BY <1>1, <1>2, <1>3, TypePartsNext DEF IInv

\* The back end works: the device is not touched, and the snapshot at most handled.
LEMMA BackendStep ==
    ASSUME IInv, MemoryType', RowsType', OneOpen', RowsTrue', UNCHANGED device,
           message' = message \/ message' = None
    PROVE  IInv'
<1>1. DeviceType' /\ MessageType'
  BY TypeParts DEF IInv, DeviceType, MessageType, device
<1>2. DeviceTrue'
  BY DEF IInv, DeviceTrue, device
<1>3. MessageTrue'
  BY DEF IInv, MessageTrue, Shown, Listed, SourceOf, device
<1> QED  BY <1>1, <1>2, <1>3, TypePartsNext DEF IInv

\* The rows stay as they are.
LEMMA RowsKept ==
    ASSUME IInv, UNCHANGED rows
    PROVE  /\ OneOpen' /\ Recorded' = Recorded
           /\ ack' \in [Requests -> Recorded \cup {None}] => RowsType'
           /\ UNCHANGED memory \/ signature' = None => RowsTrue'
<1>1. OneOpen' /\ Recorded' = Recorded
  BY DEF IInv, OneOpen, Open, Recorded, rows
<1>2. ack' \in [Requests -> Recorded \cup {None}] => RowsType'
  BY <1>1, TypeParts DEF IInv, RowsType, rows
<1>3. UNCHANGED memory \/ signature' = None => RowsTrue'
  BY DEF IInv, RowsTrue, Open, rows, memory
<1> QED  BY <1>1, <1>2, <1>3
-----------------------------------------------------------------------------
(* The steps of the device.                                                *)

LEMMA RuleMovesStep ==
    ASSUME IInv, NEW k \in Keys, RuleMoves(k)
    PROVE  IInv'
<1> USE DEF IInv
<1>1. PICK s \in States, n \in Nat :
        /\ MovesTo(k, s, n) /\ n \in Counts
        /\ s = "pending_active" => n < MaxCount
        /\ s \in ACTIVE_ALARM_STATES =>
             \/ rule[k].state = "pending_active" /\ s = "active"
             \/ rule[k].state \in ACTIVE_ALARM_STATES /\ n = rule[k].count
        /\ rule[k].state = "pending_active" /\ s = "active" => n = rule[k].count + 1
  <2> DEFINE n == rule[k].count
  <2>1. n \in Nat /\ n <= MaxCount /\ MaxCount \in Nat
    BY AlarmIngestionConstants DEF TypeOK, Counts
  <2>2. rule[k].state = "pending_active" => n < MaxCount
    BY DEF DeviceTrue
  <2>3. n \in Counts /\ (n < MaxCount => n + 1 \in Counts) /\ n + 1 \in Nat
    BY <2>1 DEF Counts
  <2> HIDE DEF n
  <2>4. \/ rule[k].state = "normal" /\ n < MaxCount /\ MovesTo(k, "pending_active", n)
        \/ rule[k].state = "pending_active" /\ MovesTo(k, "normal", n)
        \/ rule[k].state = "pending_active" /\ MovesTo(k, "active", n + 1)
        \/ rule[k].state = "active" /\ MovesTo(k, "pending_clear", n)
        \/ rule[k].state = "pending_clear" /\ MovesTo(k, "active", n)
        \/ rule[k].state = "pending_clear" /\ n < MaxCount /\ MovesTo(k, "normal", n + 1)
    BY DEF RuleMoves, n
  <2>5. n = rule[k].count
    BY DEF n
  <2> QED  BY <2>1, <2>2, <2>3, <2>4, <2>5 DEF States, ACTIVE_ALARM_STATES
<1>2. /\ rule' = [rule EXCEPT ![k].state = s, ![k].count = n]
      /\ UNCHANGED <<boot, ready, message, backend>>
      /\ happened \subseteq happened'
      /\ happened' \subseteq happened \cup {<<k, boot, n>>}
      /\ rule[k].state = "pending_active" /\ s = "active" => <<k, boot, n>> \in happened'
  BY <1>1 DEF MovesTo
<1>3. /\ rule'[k].state = s /\ rule'[k].count = n
      /\ rule'[k].enabled = rule[k].enabled
      /\ \A j \in Keys \ {k} : rule'[j] = rule[j]
      /\ rule' \in [Keys -> [enabled: BOOLEAN, state: States, count: Counts]]
  BY <1>1, <1>2 DEF TypeOK
<1>4. DeviceType'
  BY <1>1, <1>2, <1>3 DEF DeviceType, TypeOK, Sources
<1>5. DeviceTrue'
  <2> SUFFICES ASSUME NEW j \in Keys
               PROVE  /\ rule'[j].state \in ACTIVE_ALARM_STATES =>
                           /\ <<j, boot, rule'[j].count>> \in happened'
                           /\ rule'[j].count # 0
                      /\ ~rule'[j].enabled => rule'[j].state = "normal"
                      /\ rule'[j].state = "pending_active" => rule'[j].count < MaxCount
    BY <1>2 DEF DeviceTrue
  <2>1. CASE j = k
    <3>1. rule[k].count \in Nat
      BY Numbers DEF TypeOK
    <3>2. s \in ACTIVE_ALARM_STATES => <<k, boot, n>> \in happened' /\ n # 0
      BY <1>1, <1>2, <3>1 DEF DeviceTrue
    <3>3. rule'[k].enabled
      BY <1>3 DEF RuleMoves
    <3> QED  BY <1>1, <1>3, <2>1, <3>2, <3>3
  <2>2. CASE j # k
    BY <1>2, <1>3, <2>2 DEF DeviceTrue
  <2> QED  BY <2>1, <2>2
<1> QED  BY <1>2, <1>4, <1>5, DeviceStep

LEMMA RuleDisabledStep ==
    ASSUME IInv, NEW k \in Keys, RuleDisabled(k)
    PROVE  IInv'
<1> USE DEF IInv, RuleDisabled
<1>1. /\ rule'[k].state = "normal"
      /\ \A j \in Keys \ {k} : rule'[j] = rule[j]
      /\ rule' \in [Keys -> [enabled: BOOLEAN, state: States, count: Counts]]
  BY DEF TypeOK, States
<1>2. DeviceType'
  BY <1>1 DEF DeviceType, TypeOK
<1>3. DeviceTrue'
  BY <1>1 DEF DeviceTrue, ACTIVE_ALARM_STATES
<1> QED  BY <1>2, <1>3, DeviceStep

LEMMA RebootStep ==
    ASSUME IInv, Reboot
    PROVE  IInv'
<1>1. 0 \in Counts
  <2>1. MaxCount \in Nat
    BY AlarmIngestionConstants
  <2> QED  BY <2>1 DEF Counts
<1> USE DEF IInv, Reboot
<1>2. /\ rule' \in [Keys -> [enabled: BOOLEAN, state: States, count: Counts]]
      /\ \A k \in Keys : rule'[k].state = "normal"
  BY <1>1 DEF TypeOK, States
<1>3. DeviceType'
  BY <1>2 DEF DeviceType, TypeOK
<1>4. DeviceTrue'
  BY <1>2 DEF DeviceTrue, ACTIVE_ALARM_STATES
<1> QED  BY <1>3, <1>4, DeviceStep

LEMMA BecomeReadyStep ==
    ASSUME IInv, BecomeReady
    PROVE  IInv'
<1>1. DeviceType' /\ DeviceTrue'
  BY DEF IInv, BecomeReady, DeviceType, TypeOK, DeviceTrue
<1> QED  BY <1>1, DeviceStep DEF BecomeReady

\* A snapshot is what the device has at this moment.
LEMMA PublishStateStep ==
    ASSUME IInv, PublishState
    PROVE  IInv'
<1> USE DEF IInv
<1>1. PICK listed : /\ listed \in (IF ready THEN {Enabled} ELSE {{}, Enabled})
                    /\ message' = [boot |-> boot, ready |-> ready, items |-> ItemsOf(listed)]
  BY DEF PublishState
<1>2. UNCHANGED <<device, backend>>
  BY DEF PublishState
<1>3. ItemsOf(listed) \in Items
  BY DEF ItemsOf, Items, TypeOK
<1>4. MessageType'
  BY <1>1, <1>3 DEF MessageType, Snapshots, TypeOK
<1>5. /\ message'.boot = boot
      /\ \A k \in Keys : message'.items[k] # None =>
           /\ message'.items[k].state = rule[k].state
           /\ message'.items[k].count = rule[k].count
  <2>1. ASSUME NEW k \in Keys, ItemsOf(listed)[k] # None
        PROVE  ItemsOf(listed)[k] = [state |-> rule[k].state, count |-> rule[k].count]
    BY <2>1 DEF ItemsOf
  <2>2. message'.items = ItemsOf(listed) /\ message'.boot = boot
    BY <1>1
  <2>3. ASSUME NEW k \in Keys, message'.items[k] # None
        PROVE  message'.items[k].state = rule[k].state /\ message'.items[k].count = rule[k].count
    <3>1. message'.items[k] = ItemsOf(listed)[k]
      BY <2>2
    <3>2. message'.items[k] = [state |-> rule[k].state, count |-> rule[k].count]
      BY <2>1, <2>3, <3>1
    <3> QED  BY <3>2
  <2> QED  BY <2>2, <2>3
<1>6. MessageTrue'
  <2> SUFFICES ASSUME NEW k \in Keys, message'.items[k] # None,
                      message'.items[k].state \in ACTIVE_ALARM_STATES
               PROVE  /\ <<k, message'.boot, message'.items[k].count>> \in happened
                      /\ message'.items[k].count # 0
    BY <1>2 DEF MessageTrue, Shown, Listed, SourceOf, device
  <2>1. rule[k].state \in ACTIVE_ALARM_STATES
    BY <1>5
  <2> QED  BY <1>5, <2>1 DEF DeviceTrue
<1>7. DeviceType' /\ MemoryType' /\ RowsType'
  BY <1>2, TypeParts
     DEF DeviceType, MemoryType, RowsType, Recorded, device, backend, memory, rows
<1>8. DeviceTrue' /\ OneOpen' /\ RowsTrue'
  BY <1>2 DEF DeviceTrue, OneOpen, RowsTrue, Open, device, backend, memory, rows
<1> QED  BY <1>4, <1>6, <1>7, <1>8, TypePartsNext
-----------------------------------------------------------------------------
(* The ingestion of a snapshot.                                            *)

\* A snapshot closes what it opens another occurrence beside.
LEMMA IngestOpens ==
    ASSUME IInv, message # None, IngestAlarmSnapshot(message), NEW k \in Keys
    PROVE  /\ \A s, t \in Open(k)' : s = t
           /\ \A s \in Open(k)' : s \in Activations(message) \/ s \in Open(k)
<1> DEFINE m == message
           src == SourceOf(m, k)
<1> USE DEF IInv
<1>1. \A s \in Sources :
        status'[s] = IF s \in Activations(m) THEN "active"
                     ELSE IF s \in Cleared(m) THEN "cleared" ELSE status[s]
  BY DEF IngestAlarmSnapshot
<1>2. \A s \in Open(k)' : s \in Sources /\ s[1] = k /\ status'[s] = "active"
  BY DEF Open
<1>3. \A s \in Open(k)' : s \in Activations(m) \/ (s \notin Cleared(m) /\ status[s] = "active")
  BY <1>1, <1>2
<1>4. \A s \in Open(k)' : s \in Activations(m) \/ (s \notin Cleared(m) /\ s \in Open(k))
  BY <1>2, <1>3 DEF Open
<1>5. \A s \in Activations(m) :
        s[1] = k => s = src /\ k \in Shown(m) /\ m.items[k].count # 0 /\ src \notin Open(k)
  <2> SUFFICES ASSUME NEW s \in Activations(m), s[1] = k
               PROVE  s = src /\ k \in Shown(m) /\ m.items[k].count # 0 /\ src \notin Open(k)
    OBVIOUS
  <2>1. PICK j \in Shown(m) : /\ s = SourceOf(m, j) /\ m.items[j].count # 0
                              /\ SourceOf(m, j) \notin LatestOpen(j)
    BY DEF Activations
  <2>2. j = k
    BY <2>1 DEF SourceOf
  <2> QED  BY <2>1, <2>2, LatestIsOpen
\* An activation of an alarm that has an open occurrence supersedes it.
<1>6. ASSUME NEW s \in Activations(m), s[1] = k, NEW t \in Open(k)
      PROVE  t \in Cleared(m)
  <2>1. /\ s = src /\ k \in Shown(m) /\ m.items[k].count # 0 /\ t # src
        /\ t \in LatestOpen(k)
    BY <1>5, <1>6, LatestIsOpen
  <2>2. t \notin {SourceOf(m, j) : j \in Shown(m)}
    <3>1. t[1] = k
      BY DEF Open
    <3> QED  BY <2>1, <3>1 DEF SourceOf
  <2>3. k \in {j \in Shown(m) : m.items[j].count # 0}
    BY <2>1
  <2>4. t \in UNION {LatestOpen(j) : j \in {i \in Shown(m) : m.items[i].count # 0}}
    BY <2>1, <2>3
  <2>5. t \notin {SourceOf(m, j) : j \in Shown(m)} => t \in Superseded(m)
    BY <2>4 DEF Superseded
  <2> QED  BY <2>2, <2>5 DEF Cleared
<1>7. ASSUME NEW s \in Open(k)', NEW t \in Open(k)' PROVE s = t
  <2>1. CASE s \in Activations(m) /\ t \in Activations(m)
    BY <1>2, <1>5, <2>1
  <2>2. CASE s \in Activations(m) /\ t \notin Activations(m)
    BY <1>2, <1>4, <1>6, <2>2
  <2>3. CASE s \notin Activations(m) /\ t \in Activations(m)
    BY <1>2, <1>4, <1>6, <2>3
  <2>4. CASE s \notin Activations(m) /\ t \notin Activations(m)
    BY <1>4, <2>4 DEF OneOpen
  <2> QED  BY <2>1, <2>2, <2>3, <2>4
<1> QED  BY <1>4, <1>7

\* The open occurrence of an alarm that is listed, or missing in a complete snapshot, is
\* the one the snapshot shows.
LEMMA IngestShown ==
    ASSUME IInv, message \in Snapshots, message # None, IngestAlarmSnapshot(message),
           NEW k \in Keys, message.items[k] # None \/ message.ready
    PROVE  Open(k)' = ShownIn(message.items, message.boot, k)
<1> DEFINE m == message
           src == SourceOf(m, k)
<1> USE DEF IInv
<1>1. \A s \in Sources :
        status'[s] = IF s \in Activations(m) THEN "active"
                     ELSE IF s \in Cleared(m) THEN "cleared" ELSE status[s]
  BY DEF IngestAlarmSnapshot
<1>2. \A s \in Open(k)' : s \in Activations(m) \/ (s \in Open(k) /\ s \notin Cleared(m))
  BY <1>1 DEF Open
<1>3. \A s \in Open(k)' : s \in Sources /\ s[1] = k
  BY DEF Open
<1>4. \A s \in Activations(m) : s[1] = k => k \in Shown(m) /\ s = src
  <2> SUFFICES ASSUME NEW s \in Activations(m), s[1] = k PROVE k \in Shown(m) /\ s = src
    OBVIOUS
  <2>1. PICK j \in Shown(m) : s = SourceOf(m, j)
    BY DEF Activations
  <2>2. j = k
    BY <2>1 DEF SourceOf
  <2> QED  BY <2>1, <2>2
<1>5. CASE k \in Shown(m)
  <2>1. /\ src \in Sources /\ src[1] = k /\ m.items[k].count # 0
        /\ ShownIn(m.items, m.boot, k) = {src}
    BY <1>5 DEF MessageTrue, TypeOK, ShownIn, Shown, Listed, SourceOf
  <2>2. ASSUME NEW s \in Open(k), s # src PROVE s \in Cleared(m)
    <3>1. s \in LatestOpen(k) /\ k \in {j \in Shown(m) : m.items[j].count # 0}
      BY <1>5, <2>1, LatestIsOpen
    <3>2. s \notin {SourceOf(m, j) : j \in Shown(m)}
      BY <2>2 DEF Open, SourceOf
    <3>3. s \in UNION {LatestOpen(j) : j \in {i \in Shown(m) : m.items[i].count # 0}}
      BY <3>1
    <3> QED  BY <3>2, <3>3 DEF Cleared, Superseded
  <2>3. \A s \in Open(k)' : s = src
    BY <1>2, <1>3, <1>4, <2>2
  <2>4. CASE src \in Activations(m)
    <3>1. src \in Open(k)'
      BY <1>1, <2>1, <2>4 DEF Open
    <3> QED  BY <2>1, <2>3, <3>1
  <2>5. CASE src \notin Activations(m)
    <3>1. src \in Open(k) /\ status[src] = "active"
      BY <1>5, <2>1, <2>5, LatestIsOpen DEF Activations, Open
    <3>2. src \notin Superseded(m)
      BY <1>5 DEF Superseded
    <3>3. ASSUME NEW j \in Keys, src \in Open(j) PROVE j = k
      BY <2>1, <3>3 DEF Open
    <3>4. src \notin BackToNormal(m) /\ src \notin NoLongerListed(m)
      BY <1>5, <3>3 DEF BackToNormal, NoLongerListed, LatestOpen, Shown, Listed
    <3>5. src \notin Cleared(m)
      BY <3>2, <3>4 DEF Cleared
    <3>6. src \in Open(k)'
      BY <1>1, <2>1, <2>5, <3>1, <3>5 DEF Open
    <3> QED  BY <2>1, <2>3, <3>6
  <2> QED  BY <2>4, <2>5
<1>6. CASE k \notin Shown(m)
  <2>1. ShownIn(m.items, m.boot, k) = {}
    BY <1>6 DEF ShownIn, Shown, Listed
  <2>2. ASSUME NEW s \in Open(k) PROVE s \in Cleared(m)
    <3>1. s \in LatestOpen(k)
      BY LatestIsOpen
    <3>2. CASE m.items[k] # None
      BY <1>6, <3>1, <3>2 DEF Cleared, BackToNormal, Listed
    <3>3. CASE m.items[k] = None
      BY <3>3 DEF Cleared, NoLongerListed, Listed
    <3> QED  BY <3>2, <3>3
  <2> QED  BY <1>2, <1>3, <1>4, <1>6, <2>1, <2>2
<1> QED  BY <1>5, <1>6

\* What the ingestion opens was activated; what it closes was open.
LEMMA IngestSources ==
    ASSUME IInv, message # None
    PROVE  /\ Activations(message) \subseteq happened
           /\ \A s \in Cleared(message) : s \in Sources /\ status[s] = "active"
<1> USE DEF IInv
<1>1. Activations(message) \subseteq happened
  <2> SUFFICES ASSUME NEW s \in Activations(message) PROVE s \in happened
    OBVIOUS
  <2>1. PICK j \in Shown(message) : s = SourceOf(message, j)
    BY DEF Activations
  <2> QED  BY <2>1 DEF MessageTrue
<1>2. ASSUME NEW s \in Cleared(message) PROVE \E k \in Keys : s \in Open(k)
  BY DEF Cleared, Superseded, BackToNormal, NoLongerListed, LatestOpen, Shown, Listed
<1>3. \A k \in Keys : \A s \in Open(k) : s \in Sources /\ status[s] = "active"
  BY DEF Open
<1> QED  BY <1>1, <1>2, <1>3

\* What RowsFaithful says of a step, with the number of open occurrences in other words.
Faithful ==
    /\ \A k \in Keys : \A s, t \in Open(k)' : s = t
    /\ \A s \in Recorded' \ Recorded : s \in happened
    /\ \A s \in Recorded :
         /\ status'[s] # "absent"
         /\ status[s] = "cleared" => status'[s] = "cleared"
         /\ s \in acked => s \in acked'

\* A snapshot is taken into the rows.
LEMMA IngestFaithful ==
    ASSUME IInv, message # None, Activations(message) \cap Recorded = {},
           IngestAlarmSnapshot(message), UNCHANGED <<acked, ack>>
    PROVE  Faithful /\ OneOpen' /\ RowsType'
<1> DEFINE m == message
<1> USE DEF IInv
<1>1. \A s \in Sources :
        status'[s] = IF s \in Activations(m) THEN "active"
                     ELSE IF s \in Cleared(m) THEN "cleared" ELSE status[s]
  BY DEF IngestAlarmSnapshot
<1>2. Activations(m) \subseteq happened /\ \A s \in Cleared(m) : s \in Sources /\ status[s] = "active"
  BY IngestSources
<1>3. \A s \in Recorded : s \in Sources /\ s \notin Activations(m) /\ status[s] # "absent"
  BY DEF Recorded
<1> HIDE DEF m
<1>4. \A s \in Recorded : /\ status'[s] # "absent"
                          /\ status[s] = "cleared" => status'[s] = "cleared"
  BY <1>1, <1>2, <1>3
<1>5. \A s \in Recorded' \ Recorded : s \in happened
  <2> SUFFICES ASSUME NEW s \in Sources, status'[s] # "absent", status[s] = "absent"
               PROVE  s \in happened
    BY DEF Recorded
  <2> QED  BY <1>1, <1>2
<1>6. Recorded \subseteq Recorded'
  BY <1>3, <1>4 DEF Recorded
<1>7. status' \in [Sources -> {"absent", "active", "cleared"}]
  BY DEF IngestAlarmSnapshot, TypeOK
<1>8. RowsType'
  BY <1>6, <1>7 DEF RowsType, TypeOK
<1>9. \A k \in Keys : \A s, t \in Open(k)' : s = t
  BY IngestOpens
<1> QED  BY <1>4, <1>5, <1>8, <1>9 DEF Faithful, OneOpen

\* The ingestion of a state message, in each of its outcomes.
LEMMA PersistStep ==
    ASSUME IInv, PersistAlarmSnapshot
    PROVE  IInv' /\ Faithful
<1> USE DEF IInv
<1>1. message # None /\ message' = None /\ UNCHANGED <<device, registered, acked, ack>>
  BY DEF PersistAlarmSnapshot
<1>2. message \in Snapshots
  BY <1>1 DEF TypeOK
<1>3. UNCHANGED memory \/ Remember(message)
  BY DEF PersistAlarmSnapshot, Forget
<1>4. MemoryType'
  <2>1. Signature(message) \in [boot: Boots, items: Items] /\ message.ready \in BOOLEAN
    BY <1>2 DEF Snapshots, Signature
  <2>2. CASE UNCHANGED memory
    BY <1>1, <2>2, TypeParts DEF MemoryType, memory
  <2>3. CASE Remember(message)
    BY <1>1, <2>1, <2>3 DEF Remember, MemoryType, TypeOK
  <2> QED  BY <1>3, <2>2, <2>3
<1>7. \/ UNCHANGED status /\ (UNCHANGED memory \/ (Remember(message) /\ ~registered))
      \/ /\ Activations(message) \cap Recorded = {} /\ IngestAlarmSnapshot(message)
         /\ Remember(message)
  BY DEF PersistAlarmSnapshot, Forget
<1>5. CASE UNCHANGED status /\ (UNCHANGED memory \/ (Remember(message) /\ ~registered))
  <2>1. UNCHANGED rows
    BY <1>1, <1>5 DEF rows
  <2>2. OneOpen' /\ Recorded' = Recorded /\ RowsType'
    BY <1>1, <2>1, RowsKept DEF TypeOK
  <2>3. Faithful
    BY <1>1, <1>5, <2>2 DEF Faithful, OneOpen, Recorded
  <2>4. CASE UNCHANGED memory
    BY <1>1, <1>4, <2>1, <2>2, <2>3, <2>4, RowsKept, BackendStep
  <2>5. CASE Remember(message) /\ ~registered
    <3>1. ~taken'.registered
      BY <2>5 DEF Remember
    <3>2. RowsTrue'
      BY <3>1 DEF RowsTrue
    <3> QED  BY <1>1, <1>4, <2>2, <2>3, <3>2, BackendStep
  <2> QED  BY <1>5, <2>4, <2>5
<1>6. CASE /\ Activations(message) \cap Recorded = {} /\ IngestAlarmSnapshot(message)
           /\ Remember(message)
  <2>1. Faithful /\ OneOpen' /\ RowsType'
    BY <1>1, <1>6, IngestFaithful
  <2>2. /\ signature'.items = message.items /\ signature'.boot = message.boot
        /\ taken'.complete = message.ready
    BY <1>6 DEF Remember, Signature
  <2>3. RowsTrue'
    BY <1>1, <1>2, <1>6, <2>2, IngestShown DEF RowsTrue
  <2> QED  BY <1>1, <1>4, <2>1, <2>3, BackendStep
<1> QED  BY <1>5, <1>6, <1>7
-----------------------------------------------------------------------------
(* The other parties.                                                      *)

LEMMA OtherSteps ==
    ASSUME IInv, StateLost \/ Claim \/ RestartBackend
    PROVE  IInv'
<1> USE DEF IInv
<1>1. /\ UNCHANGED device /\ UNCHANGED rows
      /\ message' = message \/ message' = None
      /\ UNCHANGED ack \/ ack' = [q \in Requests |-> None]
      /\ UNCHANGED memory \/ signature' = None
  BY DEF StateLost, Claim, RestartBackend, backend
<1>2. ack' \in [Requests -> Recorded \cup {None}]
  BY <1>1 DEF TypeOK
<1>3. OneOpen' /\ RowsType' /\ RowsTrue'
  BY <1>1, <1>2, RowsKept
<1>4. MemoryType'
  <2>1. /\ registered' \in BOOLEAN
        /\ UNCHANGED memory \/ (signature' = None /\ taken' = NotTaken)
    BY DEF StateLost, Claim, RestartBackend, backend, memory, TypeOK
  <2>2. CASE UNCHANGED memory
    BY <2>1, <2>2 DEF MemoryType, TypeOK, memory
  <2>3. CASE signature' = None /\ taken' = NotTaken
    BY <2>1, <2>3 DEF MemoryType, NotTaken
  <2> QED  BY <2>1, <2>2, <2>3
<1> QED  BY <1>1, <1>3, <1>4, BackendStep

LEMMA BeginAcknowledgeStep ==
    ASSUME IInv, NEW q \in Requests, NEW s \in Sources, BeginAcknowledge(q, s)
    PROVE  IInv'
<1> USE DEF IInv, BeginAcknowledge
<1>1. ack' \in [Requests -> Recorded \cup {None}]
  BY DEF MayAcknowledge, TypeOK
<1>2. OneOpen' /\ RowsType' /\ RowsTrue'
  BY <1>1, RowsKept
<1>3. MemoryType'
  BY TypeParts DEF MemoryType, memory
<1> QED  BY <1>2, <1>3, BackendStep

\* The acknowledgement leaves the status of the row alone.
LEMMA CommitAcknowledgeStep ==
    ASSUME IInv, NEW q \in Requests, CommitAcknowledge(q)
    PROVE  IInv' /\ Faithful
<1> USE DEF IInv, CommitAcknowledge, Acknowledge
<1>1. UNCHANGED <<status, device, message, registered, memory>> /\ acked' = acked \cup {ack[q]}
  OBVIOUS
<1>2. Recorded' = Recorded
  BY <1>1 DEF Recorded
<1>3. RowsType'
  BY <1>1, <1>2 DEF RowsType, TypeOK
<1>4. OneOpen' /\ RowsTrue'
  BY <1>1 DEF OneOpen, RowsTrue, Open, memory
<1>5. MemoryType'
  BY <1>1, TypeParts DEF MemoryType, memory
<1>6. Faithful
  BY <1>1, <1>2, <1>4 DEF Faithful, OneOpen, Recorded
<1> QED  BY <1>1, <1>3, <1>4, <1>5, <1>6, BackendStep

\* The rows stay: nothing to show.
LEMMA KeptFaithful ==
    ASSUME IInv, UNCHANGED rows
    PROVE  Faithful
<1>1. \A k \in Keys : Open(k)' = Open(k)
  BY DEF Open, rows
<1>2. Recorded' = Recorded
  BY DEF Recorded, rows
<1> QED  BY <1>1, <1>2 DEF IInv, OneOpen, Faithful, Recorded, rows
-----------------------------------------------------------------------------
(* The theorems.                                                           *)

\* Nothing was activated and nothing is recorded at first.
THEOREM InitInvariant == Init => IInv
<1> SUFFICES ASSUME Init PROVE IInv
  OBVIOUS
<1>1. 1 \in Boots /\ 0 \in Counts
  <2>1. MaxCount \in Nat /\ MaxBoots \in Nat /\ MaxBoots # 0
    BY AlarmIngestionConstants
  <2> QED  BY <2>1 DEF Boots, Counts
<1>2. DeviceType /\ DeviceTrue
  BY <1>1 DEF Init, DeviceType, DeviceTrue, States, ACTIVE_ALARM_STATES
<1>3. MessageType /\ MessageTrue /\ MemoryType /\ RowsTrue
  BY DEF Init, MessageType, MessageTrue, MemoryType, RowsTrue, NotTaken
<1>4. RowsType /\ OneOpen
  BY DEF Init, RowsType, Recorded, OneOpen, Open
<1> QED  BY <1>2, <1>3, <1>4, TypeParts DEF IInv

\* Every step preserves the invariant and does to the rows what RowsFaithful allows.
THEOREM StepInvariant == IInv /\ [Next]_vars => IInv' /\ Faithful
<1> SUFFICES ASSUME IInv, [Next]_vars PROVE IInv' /\ Faithful
  OBVIOUS
<1>1. ASSUME NEW k \in Keys, RuleMoves(k) PROVE IInv' /\ Faithful
  BY <1>1, RuleMovesStep, KeptFaithful DEF RuleMoves, MovesTo, backend
<1>2. ASSUME NEW k \in Keys, RuleDisabled(k) PROVE IInv' /\ Faithful
  BY <1>2, RuleDisabledStep, KeptFaithful DEF RuleDisabled, backend
<1>3. CASE Reboot
  BY <1>3, RebootStep, KeptFaithful DEF Reboot, backend
<1>4. CASE BecomeReady
  BY <1>4, BecomeReadyStep, KeptFaithful DEF BecomeReady, backend
<1>5. CASE PublishState
  BY <1>5, PublishStateStep, KeptFaithful DEF PublishState, backend
<1>6. CASE StateLost \/ Claim \/ RestartBackend
  BY <1>6, OtherSteps, KeptFaithful DEF StateLost, Claim, RestartBackend, backend
<1>7. CASE PersistAlarmSnapshot
  BY <1>7, PersistStep
<1>8. ASSUME NEW q \in Requests, NEW s \in Sources, BeginAcknowledge(q, s)
      PROVE  IInv' /\ Faithful
  BY <1>8, BeginAcknowledgeStep, KeptFaithful DEF BeginAcknowledge
<1>9. ASSUME NEW q \in Requests, CommitAcknowledge(q) PROVE IInv' /\ Faithful
  BY <1>9, CommitAcknowledgeStep
<1>10. CASE UNCHANGED vars
  <2>1. UNCHANGED device /\ UNCHANGED backend /\ UNCHANGED message
    BY <1>10 DEF vars, backend
  <2>2. DeviceType' /\ DeviceTrue'
    BY <2>1 DEF IInv, DeviceType, TypeOK, DeviceTrue, device
  <2>3. IInv'
    BY <2>1, <2>2, DeviceStep DEF device
  <2> QED  BY <2>1, <2>3, KeptFaithful DEF backend
<1> QED
  BY <1>1, <1>2, <1>3, <1>4, <1>5, <1>6, <1>7, <1>8, <1>9, <1>10 DEF Next

THEOREM Inductive == Spec => []IInv
  BY InitInvariant, StepInvariant, PTL DEF Spec

\* Types hold for any set of rules and any bounds.
THEOREM TypeCorrect == Spec => []TypeOK
<1>1. IInv => TypeOK
  BY DEF IInv
<1> QED  BY <1>1, Inductive, PTL

\* Transitions are persisted once: one open occurrence per alarm, rows only for what the
\* device activated, and no row or acknowledgement that goes back.
THEOREM RowsCorrect == Spec => RowsFaithful
<1> DEFINE Step == /\ \A k \in Keys : Cardinality(Open(k)') <= 1
                   /\ \A s \in Recorded' \ Recorded : s \in happened
                   /\ \A s \in Recorded :
                        /\ status'[s] # "absent"
                        /\ status[s] = "cleared" => status'[s] = "cleared"
                        /\ s \in acked => s \in acked'
<1>1. ASSUME Faithful PROVE Step
  <2>1. ASSUME NEW k \in Keys PROVE Cardinality(Open(k)') <= 1
    <3>1. CASE Open(k)' = {}
      BY <3>1, FS_EmptySet
    <3>2. CASE Open(k)' # {}
      <4>1. PICK s : s \in Open(k)'
        BY <3>2
      <4>2. Open(k)' = {s}
        BY <1>1, <4>1 DEF Faithful
      <4>3. Cardinality({s}) = 1
        BY FS_Singleton
      <4> QED  BY <4>2, <4>3
    <3> QED  BY <3>1, <3>2
  <2> QED  BY <1>1, <2>1 DEF Faithful
<1>2. RowsFaithful <=> [][Step]_vars
  BY DEF RowsFaithful
<1> HIDE DEF Step
<1>3. IInv /\ [Next]_vars => [Step]_vars
  BY <1>1, StepInvariant
<1> QED  BY <1>2, <1>3, Inductive, PTL DEF Spec

\* The skip of repeats in _persist_alarm_snapshot loses no transition: over failed
\* transactions, restarts and reboots, a snapshot with the signature remembered
\* would open and close nothing, unless it is complete and the one before it was
\* not, or the device was not known then.
RepeatsSayNothingNew ==
    (message # None /\ signature = Signature(message) /\ taken.registered
        /\ (taken.complete \/ ~message.ready))
    => Activations(message) = {} /\ Cleared(message) = {}

\* The skip of _persist_alarm_snapshot loses no transition: the signature it compares
\* always agrees with the rows, over failed transactions, restarts and claims.
THEOREM RepeatsCorrect == Spec => []RepeatsSayNothingNew
<1>1. ASSUME IInv, message # None, signature = Signature(message), taken.registered,
             taken.complete \/ ~message.ready
      PROVE  Activations(message) = {} /\ Cleared(message) = {}
  <2> USE DEF IInv
  <2>1. signature # None /\ signature.items = message.items /\ signature.boot = message.boot
    <3>1. message \in Snapshots
      BY <1>1 DEF TypeOK
    <3>2. signature.items = message.items /\ signature.boot = message.boot
      BY <1>1 DEF Signature
    <3>3. Signature(message) \in [boot: Boots, items: Items]
      BY <3>1 DEF Signature, Snapshots
    <3> QED  BY <1>1, <3>2, <3>3, NoneIsNothing
  <2>2. \A k \in Shown(message) : Open(k) = {SourceOf(message, k)}
    BY <1>1, <2>1 DEF RowsTrue, ShownIn, Shown, Listed, SourceOf
  <2>3. \A k \in Listed(message) \ Shown(message) : Open(k) = {}
    BY <1>1, <2>1 DEF RowsTrue, ShownIn, Shown, Listed
  <2>4. message.ready => \A k \in Keys \ Listed(message) : Open(k) = {}
    BY <1>1, <2>1 DEF RowsTrue, ShownIn, Listed
  <2>5. \A k \in Keys : LatestOpen(k) = Open(k)
    BY <1>1, LatestIsOpen
  <2>6. Shown(message) \subseteq Keys /\ Listed(message) \subseteq Keys
    BY DEF Shown, Listed
  <2>7. Activations(message) = {}
    BY <2>2, <2>5, <2>6 DEF Activations
  <2>8. Superseded(message) = {}
    BY <2>2, <2>5, <2>6 DEF Superseded
  <2>9. BackToNormal(message) = {} /\ NoLongerListed(message) = {}
    BY <2>3, <2>4, <2>5, <2>6 DEF BackToNormal, NoLongerListed
  <2> QED  BY <2>7, <2>8, <2>9 DEF Cleared
<1>2. IInv => RepeatsSayNothingNew
  BY <1>1 DEF RepeatsSayNothingNew
<1> QED  BY <1>2, Inductive, PTL

\* The open occurrences are the alarms of the device when the last snapshot that was not
\* a repeat was complete, found the device row and is still what the device has.
UpToDate ==
    (taken.complete /\ taken.registered /\ signature # None
        /\ signature.boot = boot /\ signature.items = ItemsOf(Enabled))
    => OpenAlarms = DeviceAlarms

\* What Followed says of the states in which the last snapshot was taken.
THEOREM FollowedWhenTaken == Spec => []UpToDate
<1>1. ASSUME IInv, taken.complete, taken.registered, signature # None,
             signature.boot = boot, signature.items = ItemsOf(Enabled), NEW k \in Keys
      PROVE  Open(k) # {} <=> rule[k].state \in ACTIVE_ALARM_STATES
  <2> USE DEF IInv
  <2>1. Open(k) = ShownIn(ItemsOf(Enabled), boot, k)
    BY <1>1 DEF RowsTrue
  <2>2. CASE k \in Enabled
    <3>1. ItemsOf(Enabled)[k] = [state |-> rule[k].state, count |-> rule[k].count]
      BY <2>2 DEF ItemsOf
    <3>2. ItemsOf(Enabled)[k] \in [state: States, count: Counts]
      BY <1>1, <3>1 DEF TypeOK
    <3>3. ItemsOf(Enabled)[k] # None
      BY <3>2, NoneIsNothing
    <3>4. ItemsOf(Enabled)[k].state = rule[k].state
      BY <3>1
    <3> QED  BY <2>1, <3>3, <3>4 DEF ShownIn
  <2>3. CASE k \notin Enabled
    <3>1. ItemsOf(Enabled)[k] = None /\ rule[k].state = "normal"
      BY <1>1, <2>3 DEF ItemsOf, Enabled, DeviceTrue
    <3> QED  BY <2>1, <3>1 DEF ShownIn, ACTIVE_ALARM_STATES
  <2> QED  BY <2>2, <2>3
<1>2. IInv => UpToDate
  BY <1>1 DEF UpToDate, OpenAlarms, DeviceAlarms, ACTIVE_ALARM_STATES
<1> QED  BY <1>2, Inductive, PTL
=============================================================================
