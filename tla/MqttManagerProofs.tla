------------------------- MODULE MqttManagerProofs -------------------------
(***************************************************************************)
(* Proofs about the two halves of MqttManager (mqtt_client.py).            *)
(*                                                                         *)
(* CommandDispatch: the pending table holds the calls that are on their    *)
(* way and nothing else, the audit agrees with the device and with what    *)
(* the caller is told, and send_command keeps the promise of RemoteCall,   *)
(* for any number of calls, devices, losses and stray answers.             *)
(*                                                                         *)
(* MqttIngestion: no event is recorded that the device did not cause, the  *)
(* cache has the newest status that reached it, and the worker that stop() *)
(* ended leaves no message behind, for any size of the queue and any       *)
(* number of connections, changes and reports.                             *)
(***************************************************************************)
EXTENDS CommandDispatch, MqttIngestion, TLAPS

\* The places of a call before its command may have left.
Before == {"idle", "called", "online?", "building", "registered"}

\* A command leaves once, and one that was refused has not left.
SentOnce(r) ==
    /\ r \in wire => did[r] = None
    /\ pc[r] \in Before \/ outcome[r] \in Refused
            => r \notin wire /\ did[r] = None /\ audit[r] = <<>>

\* The entry of a call is there while the call is, it holds the response of its
\* device, and a thread that was woken finds a response or an error there.
EntryTrue(r) ==
    /\ pending[r] # None <=> pc[r] \in InFlight
    /\ pending[r] # None =>
        /\ pending[r].response # None => pending[r].response = did[r]
        /\ pending[r].error => strays > 0
        /\ pending[r].event => pending[r].response # None \/ pending[r].error
        /\ pc[r] = "woken" => pending[r].event
        /\ pc[r] = "reading" => pending[r].response # None

\* What a thread has read is what its device did, and it has an outcome only
\* when it leaves.
ReadTrue(r) ==
    /\ read[r] # None => read[r] = did[r]
    /\ pc[r] = "recording" => read[r] # None
    /\ pc[r] = "leaving" /\ outcome[r] = None => read[r] # None
    /\ outcome[r] # None => pc[r] \in {"leaving", "done"}

\* No result is recorded before it was read.
AuditSoFar(r) ==
    /\ pc[r] = "published" => audit[r] = <<>>
    /\ pc[r] \in {"waiting", "woken", "reading", "recording"}
            => audit[r] \in {<<>>, <<"dispatched">>}

CallInv(r) == AuditOf(r) /\ SentOnce(r) /\ EntryTrue(r) /\ ReadTrue(r) /\ AuditSoFar(r)

\* A sound answer of the addressed device is the answer to this very command.
AnswersTrue ==
    \A a \in answers :
        /\ did[a.id] # None
        /\ a.device = asked[a.id].device =>
             IF a.kind = "malformed" THEN strays > 0 ELSE a.kind = did[a.id]

IInv == TypeOK /\ (\A r \in Requests : CallInv(r)) /\ AnswersTrue
-----------------------------------------------------------------------------
(* Lemmas.                                                                 *)

\* The parts of TypeOK that steps prove one by one.
ThreadTypes ==
    /\ pc \in [Requests -> {"idle", "called", "online?", "building", "done"} \cup InFlight]
    /\ asked \in Mixes
    /\ read \in [Requests -> Valid \cup {None}]
    /\ outcome \in [Requests -> Outcomes \cup {None}]
DeviceTypes ==
    /\ wire \subseteq Requests /\ answers \subseteq Answers
    /\ did \in [Requests -> Valid \cup {None}]
    /\ strays \in 0 .. MaxStrays
LinkTypes ==
    /\ connected \in BOOLEAN /\ status \in [Devices -> Statuses \cup {None}]
    /\ drops \in 0 .. MaxDrops
PendingType == pending \in [Requests -> Entries \cup {None}]
AuditType == audit \in [Requests -> Seq({"dispatched", "ack", "nack"})]

LEMMA TypeParts ==
    TypeOK <=> ThreadTypes /\ DeviceTypes /\ LinkTypes /\ PendingType /\ AuditType
  BY DEF TypeOK, ThreadTypes, DeviceTypes, LinkTypes, PendingType, AuditType

LEMMA TypePartsNext ==
    TypeOK' <=> ThreadTypes' /\ DeviceTypes' /\ LinkTypes' /\ PendingType' /\ AuditType'
  BY DEF TypeOK, ThreadTypes, DeviceTypes, LinkTypes, PendingType, AuditType

\* The values of one call.
LEMMA CallTypes ==
    ASSUME TypeOK, NEW r \in Requests
    PROVE  /\ pc[r] \in {"idle", "called", "online?", "building", "done"} \cup InFlight
           /\ pending[r] \in Entries \cup {None}
           /\ read[r] \in Valid \cup {None} /\ did[r] \in Valid \cup {None}
           /\ outcome[r] \in Outcomes \cup {None}
           /\ audit[r] \in Seq({"dispatched", "ack", "nack"})
           /\ asked[r].device \in Devices
           /\ strays \in Nat
  BY DispatchConstants DEF TypeOK

\* A step of another call, or an answer more, changes nothing that is said of
\* this one.
LEMMA Frame ==
    ASSUME TypeOK, TypeOK', NEW q \in Requests, CallInv(q),
           pc'[q] = pc[q], pending'[q] = pending[q], read'[q] = read[q],
           outcome'[q] = outcome[q], did'[q] = did[q], audit'[q] = audit[q],
           q \in wire' => q \in wire, strays' >= strays
    PROVE  CallInv(q)'
<1>1. strays \in Nat /\ strays' \in Nat
  BY DispatchConstants DEF TypeOK
<1>2. AuditOf(q)'
  BY <1>1 DEF CallInv, AuditOf
<1>3. SentOnce(q)' /\ ReadTrue(q)' /\ AuditSoFar(q)'
  BY DEF CallInv, SentOnce, ReadTrue, AuditSoFar
<1>4. EntryTrue(q)'
  BY <1>1 DEF CallInv, EntryTrue
<1> QED  BY <1>2, <1>3, <1>4 DEF CallInv

\* The answers stay true when nothing that they are about changes.
LEMMA AnswersFrame ==
    ASSUME AnswersTrue, answers' \subseteq answers, UNCHANGED <<did, asked, strays>>
    PROVE  AnswersTrue'
  BY DEF AnswersTrue

\* A first result at the end of an audit without one.
LEMMA AuditEnd ==
    ASSUME NEW s \in {<<>>, <<"dispatched">>}, NEW x
    PROVE  /\ DOMAIN Append(s, x) = 1 .. Len(Append(s, x))
           /\ \A i \in DOMAIN Append(s, x) :
                \/ i = Len(Append(s, x)) /\ Append(s, x)[i] = x
                \/ Append(s, x)[i] = "dispatched"
<1>1. CASE s = <<>>
  BY <1>1
<1>2. CASE s = <<"dispatched">>
  BY <1>2
<1> QED  BY <1>1, <1>2
-----------------------------------------------------------------------------
(* The steps of the invariant.                                             *)

THEOREM InitInvariant == Init => IInv
<1> SUFFICES ASSUME Init PROVE IInv
  OBVIOUS
<1> USE DispatchConstants, NoneIsNothing
<1>1. ThreadTypes /\ DeviceTypes /\ PendingType
  BY DEF Init, ThreadTypes, DeviceTypes, PendingType, Answers
<1>2. LinkTypes
  <2>1. connected \in BOOLEAN
    BY DEF Init
  <2> QED  BY <2>1 DEF Init, LinkTypes
<1>3. AuditType
  BY DEF Init, AuditType
<1>4. ASSUME NEW r \in Requests PROVE CallInv(r)
  BY DEF Init, CallInv, AuditOf, SentOnce, EntryTrue, ReadTrue, AuditSoFar,
         Before, InFlight, Refused, Outcomes
<1>5. AnswersTrue
  BY DEF Init, AnswersTrue
<1> QED  BY <1>1, <1>2, <1>3, <1>4, <1>5, TypeParts DEF IInv

\* The connection is lost.
LEMMA Disconnecting ==
    ASSUME IInv, Disconnect
    PROVE  IInv'
<1> USE DispatchConstants DEF IInv, Disconnect
<1>1. UNCHANGED <<threads, pending, did, strays, audit>> /\ wire' \subseteq wire
        /\ answers' \subseteq answers
  BY DEF device
<1>2. TypeOK'
  <2>1. connected' \in BOOLEAN
    BY Zenon
  <2>2. status' \in [Devices -> Statuses \cup {None}] /\ drops' \in 0 .. MaxDrops
    BY DEF TypeOK
  <2>3. LinkTypes'
    BY <2>1, <2>2 DEF LinkTypes
  <2>4. ThreadTypes' /\ DeviceTypes' /\ PendingType' /\ AuditType'
    BY <1>1, TypeParts DEF ThreadTypes, DeviceTypes, PendingType, AuditType, threads
  <2> QED  BY <2>3, <2>4, TypePartsNext
<1>3. ASSUME NEW q \in Requests PROVE CallInv(q)'
  <2> HIDE DEF Disconnect
  <2> QED  BY <1>1, <1>2, Frame, CallTypes DEF threads
<1>4. AnswersTrue'
  BY <1>1, AnswersFrame DEF threads
<1> QED  BY <1>2, <1>3, <1>4

\* The connection is back.
LEMMA Connecting ==
    ASSUME IInv, Connect
    PROVE  IInv'
<1> USE DispatchConstants DEF IInv, Connect
<1>1. UNCHANGED <<threads, pending, did, strays, audit>> /\ wire' \subseteq wire
        /\ answers' \subseteq answers
  BY DEF device
<1>2. TypeOK'
  <2>1. connected' \in BOOLEAN
    BY Zenon
  <2>2. status' \in [Devices -> Statuses \cup {None}] /\ drops' \in 0 .. MaxDrops
    BY DEF TypeOK, Statuses
  <2>3. LinkTypes'
    BY <2>1, <2>2 DEF LinkTypes
  <2>4. ThreadTypes' /\ DeviceTypes' /\ PendingType' /\ AuditType'
    BY <1>1, TypeParts DEF ThreadTypes, DeviceTypes, PendingType, AuditType, threads
  <2> QED  BY <2>3, <2>4, TypePartsNext
<1>3. ASSUME NEW q \in Requests PROVE CallInv(q)'
  BY <1>1, <1>2, Frame, CallTypes DEF threads
<1>4. AnswersTrue'
  BY <1>1, AnswersFrame DEF threads
<1> QED  BY <1>2, <1>3, <1>4

\* A device goes offline.
LEMMA GoingOffline ==
    ASSUME IInv, NEW d \in Devices, GoesOffline(d)
    PROVE  IInv'
<1> USE DispatchConstants DEF IInv, GoesOffline
<1>1. UNCHANGED <<threads, pending, did, strays, audit>> /\ wire' \subseteq wire
        /\ answers' \subseteq answers
  BY DEF device
<1>2. TypeOK'
  <2>1. connected' \in BOOLEAN
    BY Zenon DEF TypeOK
  <2>2. status' \in [Devices -> Statuses \cup {None}] /\ drops' \in 0 .. MaxDrops
    BY DEF TypeOK, Statuses
  <2>3. LinkTypes'
    BY <2>1, <2>2 DEF LinkTypes
  <2>4. ThreadTypes' /\ DeviceTypes' /\ PendingType' /\ AuditType'
    BY <1>1, TypeParts DEF ThreadTypes, DeviceTypes, PendingType, AuditType, threads
  <2> QED  BY <2>3, <2>4, TypePartsNext
<1>3. ASSUME NEW q \in Requests PROVE CallInv(q)'
  BY <1>1, <1>2, Frame, CallTypes DEF threads
<1>4. AnswersTrue'
  BY <1>1, AnswersFrame DEF threads
<1> QED  BY <1>2, <1>3, <1>4

\* A step of the thread of one call leaves the other calls alone.
LEMMA ThreadStep ==
    ASSUME IInv, NEW r \in Requests,
           ThreadTypes', PendingType', AuditType',
           wire' \subseteq wire \cup {r},
           UNCHANGED <<connected, status, drops, asked, answers, did, strays>>,
           \A q \in Requests \ {r} :
                /\ pc'[q] = pc[q] /\ pending'[q] = pending[q] /\ read'[q] = read[q]
                /\ outcome'[q] = outcome[q] /\ audit'[q] = audit[q],
           CallInv(r)'
    PROVE  IInv'
<1>1. TypeOK'
  <2>1. DeviceTypes' /\ LinkTypes'
    BY TypeParts DEF IInv, DeviceTypes, LinkTypes
  <2> QED  BY <2>1, TypePartsNext
<1>2. ASSUME NEW q \in Requests PROVE CallInv(q)'
  <2>1. CASE q = r
    BY <2>1
  <2>2. CASE q # r
    BY <1>1, <2>2, Frame, CallTypes DEF IInv
  <2> QED  BY <2>1, <2>2
<1>3. AnswersTrue'
  BY AnswersFrame DEF IInv
<1> QED  BY <1>1, <1>2, <1>3 DEF IInv

\* The checks before send_command.
LEMMA AuthorizeStep ==
    ASSUME IInv, NEW r \in Requests, Authorize(r)
    PROVE  IInv'
<1> USE DispatchConstants, NoneIsNothing DEF IInv
<1>1. /\ UNCHANGED <<connected, status, drops, asked, answers, did, strays>>
      /\ wire' \subseteq wire \cup {r}
      /\ \A q \in Requests \ {r} :
            /\ pc'[q] = pc[q] /\ pending'[q] = pending[q] /\ read'[q] = read[q]
            /\ outcome'[q] = outcome[q] /\ audit'[q] = audit[q]
  BY DEF Authorize, TypeOK, Goto, Fail, link, device
<1>2. ThreadTypes' /\ PendingType' /\ AuditType'
  BY TypeParts DEF Authorize, ThreadTypes, PendingType, AuditType, Goto, Fail, link, device, InFlight, Outcomes, Refused
<1>3. CallInv(r)'
  <2>1. CallInv(r)
    OBVIOUS
  <2>2. AuditOf(r)'
    BY <2>1, CallTypes DEF CallInv, Authorize, TypeOK, Goto, Fail, link, device, AuditOf, SentOnce, AuditSoFar, Before, Refused, Outcomes
  <2>3. SentOnce(r)'
    BY <2>1, CallTypes DEF CallInv, Authorize, TypeOK, Goto, Fail, link, device, SentOnce, ReadTrue, Before, Refused, Outcomes
  <2>4. EntryTrue(r)'
    BY <2>1, CallTypes DEF CallInv, Authorize, TypeOK, Goto, Fail, link, device, EntryTrue, InFlight
  <2>5. ReadTrue(r)' /\ AuditSoFar(r)'
    BY <2>1, CallTypes DEF CallInv, Authorize, TypeOK, Goto, Fail, link, device, ReadTrue, AuditSoFar, EntryTrue, SentOnce, Before, Refused, Outcomes
  <2> QED  BY <2>2, <2>3, <2>4, <2>5 DEF CallInv
<1> QED  BY <1>1, <1>2, <1>3, ThreadStep

\* The connection is checked.
LEMMA CheckConnectedStep ==
    ASSUME IInv, NEW r \in Requests, CheckConnected(r)
    PROVE  IInv'
<1> USE DispatchConstants, NoneIsNothing DEF IInv
<1>1. /\ UNCHANGED <<connected, status, drops, asked, answers, did, strays>>
      /\ wire' \subseteq wire \cup {r}
      /\ \A q \in Requests \ {r} :
            /\ pc'[q] = pc[q] /\ pending'[q] = pending[q] /\ read'[q] = read[q]
            /\ outcome'[q] = outcome[q] /\ audit'[q] = audit[q]
  BY DEF CheckConnected, TypeOK, Goto, Fail, link, device
<1>2. ThreadTypes' /\ PendingType' /\ AuditType'
  BY TypeParts DEF CheckConnected, ThreadTypes, PendingType, AuditType, Goto, Fail, link, device, InFlight, Outcomes, Refused
<1>3. CallInv(r)'
  <2>1. CallInv(r)
    OBVIOUS
  <2>2. AuditOf(r)'
    BY <2>1, CallTypes DEF CallInv, CheckConnected, TypeOK, Goto, Fail, link, device, AuditOf, SentOnce, AuditSoFar, Before, Refused, Outcomes
  <2>3. SentOnce(r)'
    BY <2>1, CallTypes DEF CallInv, CheckConnected, TypeOK, Goto, Fail, link, device, SentOnce, ReadTrue, Before, Refused, Outcomes
  <2>4. EntryTrue(r)'
    BY <2>1, CallTypes DEF CallInv, CheckConnected, TypeOK, Goto, Fail, link, device, EntryTrue, InFlight
  <2>5. ReadTrue(r)' /\ AuditSoFar(r)'
    BY <2>1, CallTypes DEF CallInv, CheckConnected, TypeOK, Goto, Fail, link, device, ReadTrue, AuditSoFar, EntryTrue, SentOnce, Before, Refused, Outcomes
  <2> QED  BY <2>2, <2>3, <2>4, <2>5 DEF CallInv
<1> QED  BY <1>1, <1>2, <1>3, ThreadStep

\* The status of the device is checked.
LEMMA CheckOnlineStep ==
    ASSUME IInv, NEW r \in Requests, CheckOnline(r)
    PROVE  IInv'
<1> USE DispatchConstants, NoneIsNothing DEF IInv
<1>1. /\ UNCHANGED <<connected, status, drops, asked, answers, did, strays>>
      /\ wire' \subseteq wire \cup {r}
      /\ \A q \in Requests \ {r} :
            /\ pc'[q] = pc[q] /\ pending'[q] = pending[q] /\ read'[q] = read[q]
            /\ outcome'[q] = outcome[q] /\ audit'[q] = audit[q]
  BY DEF CheckOnline, TypeOK, Goto, Fail, link, device
<1>2. ThreadTypes' /\ PendingType' /\ AuditType'
  BY TypeParts DEF CheckOnline, ThreadTypes, PendingType, AuditType, Goto, Fail, link, device, InFlight, Outcomes, Refused
<1>3. CallInv(r)'
  <2>1. CallInv(r)
    OBVIOUS
  <2>2. AuditOf(r)'
    BY <2>1, CallTypes DEF CallInv, CheckOnline, TypeOK, Goto, Fail, link, device, AuditOf, SentOnce, AuditSoFar, Before, Refused, Outcomes
  <2>3. SentOnce(r)'
    BY <2>1, CallTypes DEF CallInv, CheckOnline, TypeOK, Goto, Fail, link, device, SentOnce, ReadTrue, Before, Refused, Outcomes
  <2>4. EntryTrue(r)'
    BY <2>1, CallTypes DEF CallInv, CheckOnline, TypeOK, Goto, Fail, link, device, EntryTrue, InFlight
  <2>5. ReadTrue(r)' /\ AuditSoFar(r)'
    BY <2>1, CallTypes DEF CallInv, CheckOnline, TypeOK, Goto, Fail, link, device, ReadTrue, AuditSoFar, EntryTrue, SentOnce, Before, Refused, Outcomes
  <2> QED  BY <2>2, <2>3, <2>4, <2>5 DEF CallInv
<1> QED  BY <1>1, <1>2, <1>3, ThreadStep

\* An entry is made, or the command cannot be signed.
LEMMA RegisterStep ==
    ASSUME IInv, NEW r \in Requests, Register(r)
    PROVE  IInv'
<1> USE DispatchConstants, NoneIsNothing DEF IInv
<1>1. /\ UNCHANGED <<connected, status, drops, asked, answers, did, strays>>
      /\ wire' \subseteq wire \cup {r}
      /\ \A q \in Requests \ {r} :
            /\ pc'[q] = pc[q] /\ pending'[q] = pending[q] /\ read'[q] = read[q]
            /\ outcome'[q] = outcome[q] /\ audit'[q] = audit[q]
  BY DEF Register, TypeOK, Goto, Fail, link, device
<1>2. ThreadTypes' /\ PendingType' /\ AuditType'
  <2>1. NewEntry \in Entries
    BY DEF NewEntry, Entries
  <2>2. ThreadTypes' /\ AuditType'
    BY TypeParts DEF Register, ThreadTypes, AuditType, Goto, Fail, link, device, InFlight, Outcomes, Refused
  <2>3. PendingType'
    BY <2>1, TypeParts DEF Register, PendingType
  <2> QED  BY <2>2, <2>3
<1>3. CallInv(r)'
  <2>1. CallInv(r)
    OBVIOUS
  <2>2. AuditOf(r)'
    BY <2>1, CallTypes DEF CallInv, Register, TypeOK, Goto, Fail, link, device, AuditOf, SentOnce, AuditSoFar, Before, Refused, Outcomes
  <2>3. SentOnce(r)'
    BY <2>1, CallTypes DEF CallInv, Register, TypeOK, Goto, Fail, link, device, SentOnce, ReadTrue, Before, Refused, Outcomes
  <2>4. EntryTrue(r)'
    <3>0. NewEntry \in Entries
      BY DEF NewEntry, Entries
    <3>1. NewEntry # None /\ NewEntry.response = None /\ ~NewEntry.error /\ ~NewEntry.event
      BY <3>0 DEF NewEntry
    <3>2. \/ pending'[r] = NewEntry /\ pc'[r] = "registered"
          \/ pending'[r] = None /\ pc'[r] = "done"
      BY <2>1, CallTypes DEF Register, CallInv, EntryTrue, InFlight, Goto, Fail, TypeOK
    <3> QED  BY <3>1, <3>2 DEF EntryTrue, InFlight
  <2>5. ReadTrue(r)' /\ AuditSoFar(r)'
    BY <2>1, CallTypes DEF CallInv, Register, TypeOK, Goto, Fail, link, device, ReadTrue, AuditSoFar, EntryTrue, SentOnce, Before, Refused, Outcomes
  <2> QED  BY <2>2, <2>3, <2>4, <2>5 DEF CallInv
<1> QED  BY <1>1, <1>2, <1>3, ThreadStep

\* The command leaves, or publish fails.
LEMMA PublishStep ==
    ASSUME IInv, NEW r \in Requests, Publish(r)
    PROVE  IInv'
<1> USE DispatchConstants, NoneIsNothing DEF IInv
<1>1. /\ UNCHANGED <<connected, status, drops, asked, answers, did, strays>>
      /\ wire' \subseteq wire \cup {r}
      /\ \A q \in Requests \ {r} :
            /\ pc'[q] = pc[q] /\ pending'[q] = pending[q] /\ read'[q] = read[q]
            /\ outcome'[q] = outcome[q] /\ audit'[q] = audit[q]
  BY DEF Publish, TypeOK, Goto, Fail, link
<1>2. ThreadTypes' /\ PendingType' /\ AuditType'
  BY TypeParts DEF Publish, ThreadTypes, PendingType, AuditType, Goto, Fail, link, InFlight, Outcomes, Refused
<1>3. CallInv(r)'
  <2>1. CallInv(r)
    OBVIOUS
  <2>2. AuditOf(r)'
    BY <2>1, CallTypes DEF CallInv, Publish, TypeOK, Goto, Fail, link, AuditOf, SentOnce, AuditSoFar, Before, Refused, Outcomes
  <2>3. SentOnce(r)'
    BY <2>1, CallTypes DEF CallInv, Publish, TypeOK, Goto, Fail, link, SentOnce, ReadTrue, Before, Refused, Outcomes
  <2>4. EntryTrue(r)'
    BY <2>1, CallTypes DEF CallInv, Publish, TypeOK, Goto, Fail, link, EntryTrue, InFlight
  <2>5. ReadTrue(r)' /\ AuditSoFar(r)'
    BY <2>1, CallTypes DEF CallInv, Publish, TypeOK, Goto, Fail, link, ReadTrue, AuditSoFar, EntryTrue, SentOnce, Before, Refused, Outcomes
  <2> QED  BY <2>2, <2>3, <2>4, <2>5 DEF CallInv
<1> QED  BY <1>1, <1>2, <1>3, ThreadStep

\* The dispatch of a critical command is recorded.
LEMMA RecordDispatchStep ==
    ASSUME IInv, NEW r \in Requests, RecordDispatch(r)
    PROVE  IInv'
<1> USE DispatchConstants, NoneIsNothing DEF IInv
<1>1. /\ UNCHANGED <<connected, status, drops, asked, answers, did, strays>>
      /\ wire' \subseteq wire \cup {r}
      /\ \A q \in Requests \ {r} :
            /\ pc'[q] = pc[q] /\ pending'[q] = pending[q] /\ read'[q] = read[q]
            /\ outcome'[q] = outcome[q] /\ audit'[q] = audit[q]
  BY DEF RecordDispatch, TypeOK, Goto, link, device, Recorded
<1>2. ThreadTypes' /\ PendingType' /\ AuditType'
  <2>1. audit[r] \in Seq({"dispatched", "ack", "nack"}) /\ "dispatched" \in {"dispatched", "ack", "nack"}
    BY CallTypes DEF RecordDispatch, AuditKind, Result
  <2>2. Append(audit[r], "dispatched") \in Seq({"dispatched", "ack", "nack"})
    BY <2>1
  <2>3. AuditType'
    <3>1. audit' \in {audit, [audit EXCEPT ![r] = Append(audit[r], "dispatched")]}
      BY DEF RecordDispatch, Recorded
    <3> QED  BY <2>2, <3>1, TypeParts DEF AuditType
  <2>4. ThreadTypes' /\ PendingType'
    BY TypeParts DEF RecordDispatch, ThreadTypes, PendingType, Goto, link, device, InFlight
  <2> QED  BY <2>3, <2>4
<1>3. CallInv(r)'
  <2>1. CallInv(r)
    OBVIOUS
  <2>2. AuditOf(r)'
    <3>1. audit[r] = <<>>
      BY <2>1 DEF CallInv, RecordDispatch, AuditSoFar
    <3>2. audit'[r] \in {<<>>, <<"dispatched">>}
      BY <3>1 DEF RecordDispatch, Recorded, TypeOK
    <3>3. outcome'[r] = None
      BY <2>1 DEF CallInv, ReadTrue, RecordDispatch
    <3>4. \A i \in DOMAIN audit'[r] : audit'[r][i] = "dispatched"
      BY <3>2
    <3> QED  BY <3>3, <3>4 DEF AuditOf, Outcomes
  <2>3. SentOnce(r)'
    BY <2>1, CallTypes DEF CallInv, RecordDispatch, TypeOK, Goto, link, device, Recorded, SentOnce, ReadTrue, Before, Refused, Outcomes
  <2>4. EntryTrue(r)'
    BY <2>1, CallTypes DEF CallInv, RecordDispatch, TypeOK, Goto, link, device, Recorded, EntryTrue, InFlight
  <2>5. ReadTrue(r)' /\ AuditSoFar(r)'
    BY <2>1, CallTypes DEF CallInv, RecordDispatch, TypeOK, Goto, link, device, Recorded, ReadTrue, AuditSoFar, EntryTrue, SentOnce, Before, Refused, Outcomes
  <2> QED  BY <2>2, <2>3, <2>4, <2>5 DEF CallInv
<1> QED  BY <1>1, <1>2, <1>3, ThreadStep

\* The wait ends by an answer.
LEMMA WakeUpStep ==
    ASSUME IInv, NEW r \in Requests, WakeUp(r)
    PROVE  IInv'
<1> USE DispatchConstants, NoneIsNothing DEF IInv
<1>1. /\ UNCHANGED <<connected, status, drops, asked, answers, did, strays>>
      /\ wire' \subseteq wire \cup {r}
      /\ \A q \in Requests \ {r} :
            /\ pc'[q] = pc[q] /\ pending'[q] = pending[q] /\ read'[q] = read[q]
            /\ outcome'[q] = outcome[q] /\ audit'[q] = audit[q]
  BY DEF WakeUp, TypeOK, Goto, link, device
<1>2. ThreadTypes' /\ PendingType' /\ AuditType'
  BY TypeParts DEF WakeUp, ThreadTypes, PendingType, AuditType, Goto, link, device, InFlight, Outcomes, Refused
<1>3. CallInv(r)'
  <2>1. CallInv(r)
    OBVIOUS
  <2>2. AuditOf(r)'
    BY <2>1, CallTypes DEF CallInv, WakeUp, TypeOK, Goto, link, device, AuditOf, SentOnce, AuditSoFar, Before, Refused, Outcomes
  <2>3. SentOnce(r)'
    BY <2>1, CallTypes DEF CallInv, WakeUp, TypeOK, Goto, link, device, SentOnce, ReadTrue, Before, Refused, Outcomes
  <2>4. EntryTrue(r)'
    BY <2>1, CallTypes DEF CallInv, WakeUp, TypeOK, Goto, link, device, EntryTrue, InFlight
  <2>5. ReadTrue(r)' /\ AuditSoFar(r)'
    BY <2>1, CallTypes DEF CallInv, WakeUp, TypeOK, Goto, link, device, ReadTrue, AuditSoFar, EntryTrue, SentOnce, Before, Refused, Outcomes
  <2> QED  BY <2>2, <2>3, <2>4, <2>5 DEF CallInv
<1> QED  BY <1>1, <1>2, <1>3, ThreadStep

\* The wait ends without one.
LEMMA TimeOutStep ==
    ASSUME IInv, NEW r \in Requests, TimeOut(r)
    PROVE  IInv'
<1> USE DispatchConstants, NoneIsNothing DEF IInv
<1>1. /\ UNCHANGED <<connected, status, drops, asked, answers, did, strays>>
      /\ wire' \subseteq wire \cup {r}
      /\ \A q \in Requests \ {r} :
            /\ pc'[q] = pc[q] /\ pending'[q] = pending[q] /\ read'[q] = read[q]
            /\ outcome'[q] = outcome[q] /\ audit'[q] = audit[q]
  BY DEF TimeOut, TypeOK, Goto, Fail, link, device
<1>2. ThreadTypes' /\ PendingType' /\ AuditType'
  BY TypeParts DEF TimeOut, ThreadTypes, PendingType, AuditType, Goto, Fail, link, device, InFlight, Outcomes, Refused
<1>3. CallInv(r)'
  <2>1. CallInv(r)
    OBVIOUS
  <2>2. AuditOf(r)'
    <3>1. audit[r] \in {<<>>, <<"dispatched">>} /\ audit' = audit /\ did' = did
      BY <2>1 DEF CallInv, TimeOut, AuditSoFar, Goto, Fail, link, device
    <3>2. outcome'[r] \in {None, "timeout"} \/ (outcome'[r] = "invalid" /\ (strays > 0 \/ did[r] = "other"))
      BY <2>1, CallTypes DEF CallInv, TimeOut, TypeOK, Goto, Fail, link, device, ReadTrue
    <3>3. outcome'[r] \notin Refused
      BY <3>2 DEF Refused, Outcomes
    <3>4. \A i \in DOMAIN audit[r] : audit[r][i] = "dispatched"
      BY <3>1
    <3>5. strays' = strays
      BY <1>1
    <3> QED  BY <3>1, <3>2, <3>3, <3>4, <3>5 DEF AuditOf, Outcomes, Refused
  <2>3. SentOnce(r)'
    BY <2>1, CallTypes DEF CallInv, TimeOut, TypeOK, Goto, Fail, link, device, SentOnce, ReadTrue, Before, Refused, Outcomes
  <2>4. EntryTrue(r)'
    BY <2>1, CallTypes DEF CallInv, TimeOut, TypeOK, Goto, Fail, link, device, EntryTrue, InFlight
  <2>5. ReadTrue(r)' /\ AuditSoFar(r)'
    BY <2>1, CallTypes DEF CallInv, TimeOut, TypeOK, Goto, Fail, link, device, ReadTrue, AuditSoFar, EntryTrue, SentOnce, Before, Refused, Outcomes
  <2> QED  BY <2>2, <2>3, <2>4, <2>5 DEF CallInv
<1> QED  BY <1>1, <1>2, <1>3, ThreadStep

\* The error of the entry is read.
LEMMA CheckContractStep ==
    ASSUME IInv, NEW r \in Requests, CheckContract(r)
    PROVE  IInv'
<1> USE DispatchConstants, NoneIsNothing DEF IInv
<1>1. /\ UNCHANGED <<connected, status, drops, asked, answers, did, strays>>
      /\ wire' \subseteq wire \cup {r}
      /\ \A q \in Requests \ {r} :
            /\ pc'[q] = pc[q] /\ pending'[q] = pending[q] /\ read'[q] = read[q]
            /\ outcome'[q] = outcome[q] /\ audit'[q] = audit[q]
  BY DEF CheckContract, TypeOK, Goto, Fail, link, device
<1>2. ThreadTypes' /\ PendingType' /\ AuditType'
  BY TypeParts DEF CheckContract, ThreadTypes, PendingType, AuditType, Goto, Fail, link, device, InFlight, Outcomes, Refused
<1>3. CallInv(r)'
  <2>1. CallInv(r)
    OBVIOUS
  <2>2. AuditOf(r)'
    <3>1. audit[r] \in {<<>>, <<"dispatched">>} /\ audit' = audit /\ did' = did
      BY <2>1 DEF CallInv, CheckContract, AuditSoFar, Goto, Fail, link, device
    <3>2. outcome'[r] \in {None, "timeout"} \/ (outcome'[r] = "invalid" /\ (strays > 0 \/ did[r] = "other"))
      BY <2>1, CallTypes DEF CallInv, CheckContract, TypeOK, Goto, Fail, link, device, EntryTrue, ReadTrue, InFlight
    <3>3. outcome'[r] \notin Refused
      BY <3>2 DEF Refused, Outcomes
    <3>4. \A i \in DOMAIN audit[r] : audit[r][i] = "dispatched"
      BY <3>1
    <3>5. strays' = strays
      BY <1>1
    <3> QED  BY <3>1, <3>2, <3>3, <3>4, <3>5 DEF AuditOf, Outcomes, Refused
  <2>3. SentOnce(r)'
    BY <2>1, CallTypes DEF CallInv, CheckContract, TypeOK, Goto, Fail, link, device, SentOnce, ReadTrue, Before, Refused, Outcomes
  <2>4. EntryTrue(r)'
    BY <2>1, CallTypes DEF CallInv, CheckContract, TypeOK, Goto, Fail, link, device, EntryTrue, InFlight
  <2>5. ReadTrue(r)' /\ AuditSoFar(r)'
    BY <2>1, CallTypes DEF CallInv, CheckContract, TypeOK, Goto, Fail, link, device, ReadTrue, AuditSoFar, EntryTrue, SentOnce, Before, Refused, Outcomes
  <2> QED  BY <2>2, <2>3, <2>4, <2>5 DEF CallInv
<1> QED  BY <1>1, <1>2, <1>3, ThreadStep

\* The response of the entry is read.
LEMMA ReadResponseStep ==
    ASSUME IInv, NEW r \in Requests, ReadResponse(r)
    PROVE  IInv'
<1> USE DispatchConstants, NoneIsNothing DEF IInv
<1>1. /\ UNCHANGED <<connected, status, drops, asked, answers, did, strays>>
      /\ wire' \subseteq wire \cup {r}
      /\ \A q \in Requests \ {r} :
            /\ pc'[q] = pc[q] /\ pending'[q] = pending[q] /\ read'[q] = read[q]
            /\ outcome'[q] = outcome[q] /\ audit'[q] = audit[q]
  BY DEF ReadResponse, TypeOK, Goto, Fail, link, device
<1>2. ThreadTypes' /\ PendingType' /\ AuditType'
  <2>1. pending[r] # None => pending[r].response \in Valid \cup {None}
    BY CallTypes DEF Entries
  <2>2. pending[r] # None
    BY CallTypes DEF CallInv, EntryTrue, InFlight, ReadResponse
  <2>3. read \in [Requests -> Valid \cup {None}]
    BY TypeParts DEF ThreadTypes
  <2>4. read' \in {read, [read EXCEPT ![r] = pending[r].response]}
    BY DEF ReadResponse
  <2>5. read' \in [Requests -> Valid \cup {None}]
    BY <2>1, <2>2, <2>3, <2>4
  <2> QED
    BY <2>5, TypeParts DEF ReadResponse, ThreadTypes, PendingType, AuditType, Goto, Fail, link, device, InFlight, Outcomes, Refused
<1>3. CallInv(r)'
  <2>1. CallInv(r)
    OBVIOUS
  <2>2. AuditOf(r)'
    <3>1. audit[r] \in {<<>>, <<"dispatched">>} /\ audit' = audit /\ did' = did
      BY <2>1 DEF CallInv, ReadResponse, AuditSoFar, Goto, Fail, link, device
    <3>2. outcome'[r] \in {None, "timeout"} \/ (outcome'[r] = "invalid" /\ (strays > 0 \/ did[r] = "other"))
      BY <2>1, CallTypes DEF CallInv, ReadResponse, TypeOK, Goto, Fail, link, device, EntryTrue, ReadTrue, InFlight
    <3>3. outcome'[r] \notin Refused
      BY <3>2 DEF Refused, Outcomes
    <3>4. \A i \in DOMAIN audit[r] : audit[r][i] = "dispatched"
      BY <3>1
    <3>5. strays' = strays
      BY <1>1
    <3> QED  BY <3>1, <3>2, <3>3, <3>4, <3>5 DEF AuditOf, Outcomes, Refused
  <2>3. SentOnce(r)'
    BY <2>1, CallTypes DEF CallInv, ReadResponse, TypeOK, Goto, Fail, link, device, SentOnce, ReadTrue, Before, Refused, Outcomes
  <2>4. EntryTrue(r)'
    BY <2>1, CallTypes DEF CallInv, ReadResponse, TypeOK, Goto, Fail, link, device, EntryTrue, InFlight
  <2>5. ReadTrue(r)' /\ AuditSoFar(r)'
    BY <2>1, CallTypes DEF CallInv, ReadResponse, TypeOK, Goto, Fail, link, device, ReadTrue, AuditSoFar, EntryTrue, SentOnce, Before, Refused, Outcomes
  <2> QED  BY <2>2, <2>3, <2>4, <2>5 DEF CallInv
<1> QED  BY <1>1, <1>2, <1>3, ThreadStep

\* The result is recorded.
LEMMA RecordResultStep ==
    ASSUME IInv, NEW r \in Requests, RecordResult(r)
    PROVE  IInv'
<1> USE DispatchConstants, NoneIsNothing DEF IInv
<1>1. /\ UNCHANGED <<connected, status, drops, asked, answers, did, strays>>
      /\ wire' \subseteq wire \cup {r}
      /\ \A q \in Requests \ {r} :
            /\ pc'[q] = pc[q] /\ pending'[q] = pending[q] /\ read'[q] = read[q]
            /\ outcome'[q] = outcome[q] /\ audit'[q] = audit[q]
  BY DEF RecordResult, TypeOK, Goto, link, device, Recorded, AuditKind, Result
<1>2. ThreadTypes' /\ PendingType' /\ AuditType'
  <2>1. audit[r] \in Seq({"dispatched", "ack", "nack"}) /\ AuditKind(r) \in {"dispatched", "ack", "nack"}
    BY CallTypes DEF RecordResult, AuditKind, Result
  <2>2. Append(audit[r], AuditKind(r)) \in Seq({"dispatched", "ack", "nack"})
    BY <2>1
  <2>3. AuditType'
    <3>1. audit' \in {audit, [audit EXCEPT ![r] = Append(audit[r], AuditKind(r))]}
      BY DEF RecordResult, Recorded
    <3> QED  BY <2>2, <3>1, TypeParts DEF AuditType
  <2>4. ThreadTypes' /\ PendingType'
    BY TypeParts DEF RecordResult, ThreadTypes, PendingType, Goto, link, device, InFlight
  <2> QED  BY <2>3, <2>4
<1>3. CallInv(r)'
  <2>1. CallInv(r)
    OBVIOUS
  <2>2. AuditOf(r)'
    <3>1. audit[r] \in {<<>>, <<"dispatched">>} /\ outcome'[r] = None
      BY <2>1 DEF CallInv, RecordResult, AuditSoFar, ReadTrue
    <3>2. read[r] # None /\ read[r] = did[r] /\ did' = did
      BY <2>1 DEF CallInv, RecordResult, ReadTrue, device
    <3>3. audit'[r] \in {audit[r], Append(audit[r], Result(did[r]))}
      BY <3>2 DEF RecordResult, Recorded, AuditKind, TypeOK
    <3>4. CASE audit'[r] = audit[r]
      <4>1. \A i \in DOMAIN audit'[r] : audit'[r][i] = "dispatched"
        BY <3>1, <3>4
      <4> QED  BY <3>1, <4>1 DEF AuditOf, Outcomes
    <3>5. CASE audit'[r] = Append(audit[r], Result(did[r]))
      <4>1. \A i \in DOMAIN audit'[r] : audit'[r][i] # "dispatched"
                => i = Len(audit'[r]) /\ audit'[r][i] = Result(did[r])
        BY <3>1, <3>5, AuditEnd
      <4> QED  BY <3>1, <3>2, <4>1 DEF AuditOf, Outcomes
    <3> QED  BY <3>3, <3>4, <3>5
  <2>3. SentOnce(r)'
    BY <2>1, CallTypes DEF CallInv, RecordResult, TypeOK, Goto, link, device, Recorded, AuditKind, Result, SentOnce, ReadTrue, Before, Refused, Outcomes
  <2>4. EntryTrue(r)'
    BY <2>1, CallTypes DEF CallInv, RecordResult, TypeOK, Goto, link, device, Recorded, AuditKind, Result, EntryTrue, InFlight
  <2>5. ReadTrue(r)' /\ AuditSoFar(r)'
    BY <2>1, CallTypes DEF CallInv, RecordResult, TypeOK, Goto, link, device, Recorded, AuditKind, Result, ReadTrue, AuditSoFar, EntryTrue, SentOnce, Before, Refused, Outcomes
  <2> QED  BY <2>2, <2>3, <2>4, <2>5 DEF CallInv
<1> QED  BY <1>1, <1>2, <1>3, ThreadStep

\* The call ends and takes its entry with it.
LEMMA LeaveStep ==
    ASSUME IInv, NEW r \in Requests, Leave(r)
    PROVE  IInv'
<1> USE DispatchConstants, NoneIsNothing DEF IInv
<1>1. /\ UNCHANGED <<connected, status, drops, asked, answers, did, strays>>
      /\ wire' \subseteq wire \cup {r}
      /\ \A q \in Requests \ {r} :
            /\ pc'[q] = pc[q] /\ pending'[q] = pending[q] /\ read'[q] = read[q]
            /\ outcome'[q] = outcome[q] /\ audit'[q] = audit[q]
  BY DEF Leave, TypeOK, Goto, link, device, ToldOf, Result
<1>2. ThreadTypes' /\ PendingType' /\ AuditType'
  BY TypeParts DEF Leave, ThreadTypes, PendingType, AuditType, Goto, link, device, ToldOf, Result, InFlight, Outcomes, Refused
<1>3. CallInv(r)'
  <2>1. CallInv(r)
    OBVIOUS
  <2>2. AuditOf(r)'
    <3>1. audit' = audit /\ did' = did /\ strays' = strays
      BY <1>1 DEF Leave
    <3>2. CASE outcome[r] # None
      <4>1. outcome'[r] = outcome[r]
        BY <3>2 DEF Leave, TypeOK
      <4> QED  BY <2>1, <3>1, <4>1 DEF CallInv, AuditOf
    <3>3. CASE outcome[r] = None
      <4>1. read[r] # None /\ read[r] = did[r]
        BY <2>1, <3>3 DEF CallInv, ReadTrue, Leave
      <4>2. \/ outcome'[r] = "invalid" /\ did[r] = "other"
            \/ outcome'[r] = Result(did[r])
        BY <3>3, <4>1 DEF Leave, ToldOf, TypeOK
      <4>3. Result(did[r]) \notin Refused \cup {"invalid"}
        BY DEF Result, Refused
      <4> QED  BY <2>1, <3>1, <3>3, <4>1, <4>2, <4>3 DEF CallInv, AuditOf, Refused
    <3> QED  BY <3>2, <3>3
  <2>3. SentOnce(r)'
    BY <2>1, CallTypes DEF CallInv, Leave, TypeOK, Goto, link, device, ToldOf, Result, SentOnce, ReadTrue, Before, Refused, Outcomes
  <2>4. EntryTrue(r)'
    BY <2>1, CallTypes DEF CallInv, Leave, TypeOK, Goto, link, device, ToldOf, Result, EntryTrue, InFlight
  <2>5. ReadTrue(r)' /\ AuditSoFar(r)'
    BY <2>1, CallTypes DEF CallInv, Leave, TypeOK, Goto, link, device, ToldOf, Result, ReadTrue, AuditSoFar, EntryTrue, SentOnce, Before, Refused, Outcomes
  <2> QED  BY <2>2, <2>3, <2>4, <2>5 DEF CallInv
<1> QED  BY <1>1, <1>2, <1>3, ThreadStep

\* The device takes a command off the wire, for the first time.
LEMMA ExecuteStep ==
    ASSUME IInv, NEW r \in Requests, Execute(r)
    PROVE  IInv'
<1> USE DispatchConstants, NoneIsNothing DEF IInv
<1>1. PICK k \in Valid :
        /\ did' = [did EXCEPT ![r] = k]
        /\ answers' \in {answers, answers \cup {Answer(asked[r].device, r, k)}}
  BY DEF Execute
<1>2. /\ r \in wire /\ wire' = wire \ {r} /\ did[r] = None
      /\ UNCHANGED <<connected, status, drops, pc, asked, read, outcome, pending, strays, audit>>
  BY DEF Execute, CallInv, SentOnce, link, threads
<1>3. TypeOK'
  <2>1. Answer(asked[r].device, r, k) \in Answers
    BY CallTypes DEF Answer, Answers, Kinds
  <2>2. DeviceTypes'
    BY <1>1, <1>2, <2>1, TypeParts DEF DeviceTypes
  <2>3. ThreadTypes' /\ LinkTypes' /\ PendingType' /\ AuditType'
    BY <1>2, TypeParts DEF ThreadTypes, LinkTypes, PendingType, AuditType
  <2> QED  BY <2>2, <2>3, TypePartsNext
<1>4. did'[r] = k /\ k # None /\ \A q \in Requests \ {r} : did'[q] = did[q]
  BY <1>1 DEF TypeOK
<1>5. ASSUME NEW q \in Requests PROVE CallInv(q)'
  <2>1. CASE q # r
    BY <1>2, <1>3, <1>4, <2>1, Frame, CallTypes
  <2>2. CASE q = r
    <3>1. CallInv(r)
      OBVIOUS
    <3>2. read[r] = None /\ (pending[r] # None => pending[r].response = None)
      BY <1>2, <3>1 DEF CallInv, ReadTrue, EntryTrue
    <3>3. \A i \in DOMAIN audit[r] : audit[r][i] = "dispatched"
      BY <1>2, <3>1 DEF CallInv, AuditOf
    <3>4. outcome[r] \notin Refused /\ pc[r] \notin Before
      BY <1>2, <3>1 DEF CallInv, SentOnce
    <3>5. outcome[r] = "invalid" => strays > 0
      BY <1>2, <3>1 DEF CallInv, AuditOf, Outcomes, Valid
    <3>6. AuditOf(r)'
      BY <1>2, <3>3, <3>4, <3>5 DEF AuditOf
    <3>7. SentOnce(r)'
      BY <1>2, <3>4 DEF SentOnce
    <3>8. EntryTrue(r)' /\ ReadTrue(r)' /\ AuditSoFar(r)'
      BY <1>2, <3>1, <3>2 DEF CallInv, EntryTrue, ReadTrue, AuditSoFar
    <3> QED  BY <2>2, <3>6, <3>7, <3>8 DEF CallInv
  <2> QED  BY <2>1, <2>2
<1>6. AnswersTrue'
  <2> SUFFICES ASSUME NEW a \in answers'
               PROVE  /\ did'[a.id] # None
                      /\ a.device = asked'[a.id].device =>
                           IF a.kind = "malformed" THEN strays' > 0 ELSE a.kind = did'[a.id]
    BY DEF AnswersTrue
  <2>1. CASE a \in answers
    <3>1. did[a.id] # None /\ a.id \in Requests
      BY <2>1 DEF AnswersTrue, TypeOK, Answers
    <3>2. a.id # r
      BY <1>2, <3>1
    <3> QED  BY <1>2, <1>4, <2>1, <3>1, <3>2 DEF AnswersTrue
  <2>2. CASE a = Answer(asked[r].device, r, k)
    <3>1. a.id = r /\ a.kind = k /\ k # "malformed"
      BY <2>2 DEF Answer, Valid
    <3> QED  BY <1>4, <3>1
  <2> QED  BY <1>1, <2>1, <2>2
<1> QED  BY <1>3, <1>5, <1>6

\* An answer too many, of this device or of another one.
LEMMA StrayStep ==
    ASSUME IInv, NEW d \in Devices, NEW r \in Requests, Stray(d, r)
    PROVE  IInv'
<1> USE DispatchConstants, NoneIsNothing DEF IInv
<1>1. PICK k \in Kinds :
        /\ k \in IF d = asked[r].device THEN {did[r], "malformed"} ELSE {"ack", "nack"}
        /\ answers' = answers \cup {Answer(d, r, k)}
  BY DEF Stray
<1>2. /\ did[r] # None /\ strays < MaxStrays /\ strays' = strays + 1
      /\ UNCHANGED <<connected, status, drops, pc, asked, read, outcome, pending, wire, did, audit>>
  BY DEF Stray, link, threads
<1>3. strays \in Nat /\ strays' \in 0 .. MaxStrays /\ strays' > 0 /\ strays' >= strays
  BY <1>2 DEF TypeOK
<1>4. TypeOK'
  <2>1. Answer(d, r, k) \in Answers
    BY DEF Answer, Answers
  <2>2. DeviceTypes'
    BY <1>1, <1>2, <1>3, <2>1, TypeParts DEF DeviceTypes
  <2>3. ThreadTypes' /\ LinkTypes' /\ PendingType' /\ AuditType'
    BY <1>2, TypeParts DEF ThreadTypes, LinkTypes, PendingType, AuditType
  <2> QED  BY <2>2, <2>3, TypePartsNext
<1>5. ASSUME NEW q \in Requests PROVE CallInv(q)'
  BY <1>2, <1>3, <1>4, Frame, CallTypes
<1>6. AnswersTrue'
  <2> SUFFICES ASSUME NEW a \in answers'
               PROVE  /\ did[a.id] # None
                      /\ a.device = asked[a.id].device =>
                           IF a.kind = "malformed" THEN strays' > 0 ELSE a.kind = did[a.id]
    BY <1>2 DEF AnswersTrue
  <2>1. CASE a \in answers
    BY <1>3, <2>1 DEF AnswersTrue
  <2>2. CASE a = Answer(d, r, k)
    <3>1. a.id = r /\ a.kind = k /\ a.device = d
      BY <2>2 DEF Answer
    <3> QED  BY <1>1, <1>2, <1>3, <3>1
  <2> QED  BY <1>1, <2>1, <2>2
<1> QED  BY <1>4, <1>5, <1>6

\* The network thread writes an awaited answer into its entry.
LEMMA DeliverStep ==
    ASSUME IInv, NEW a \in answers, Deliver(a)
    PROVE  IInv'
<1> USE DispatchConstants, NoneIsNothing DEF IInv
<1>1. UNCHANGED <<connected, status, drops, pc, asked, read, outcome, wire, did, strays, audit>>
  BY DEF Deliver, link, threads, device
<1>2. a.id \in Requests /\ a.kind \in Kinds /\ a \in Answers
  BY DEF TypeOK, Answers
<1> DEFINE new == Written(pending[a.id], a.kind)
<1>3. pending[a.id] # None =>
        /\ new \in Entries /\ new # None
        /\ new.event
        /\ new.response = IF a.kind = "malformed" THEN pending[a.id].response ELSE a.kind
        /\ new.error <=> pending[a.id].error \/ a.kind = "malformed"
  <2> SUFFICES ASSUME pending[a.id] # None
               PROVE  /\ new \in Entries
                      /\ new.event
                      /\ new.response = IF a.kind = "malformed" THEN pending[a.id].response
                                        ELSE a.kind
                      /\ new.error <=> pending[a.id].error \/ a.kind = "malformed"
    OBVIOUS
  <2>1. pending[a.id] \in Entries
    BY <1>2, CallTypes
  <2> QED  BY <1>2, <2>1 DEF Written, Entries, Kinds
<1>4. pending' = IF Awaited(a) THEN [pending EXCEPT ![a.id] = new] ELSE pending
  BY DEF Deliver
<1>5. TypeOK'
  <2>1. PendingType'
    BY <1>3, <1>4, TypeParts DEF PendingType, Awaited
  <2>2. answers' \subseteq Answers
    BY DEF Deliver, TypeOK
  <2>3. ThreadTypes' /\ DeviceTypes' /\ LinkTypes' /\ AuditType'
    BY <1>1, <2>2, TypeParts DEF ThreadTypes, DeviceTypes, LinkTypes, AuditType
  <2> QED  BY <2>1, <2>3, TypePartsNext
<1>6. ASSUME NEW q \in Requests PROVE CallInv(q)'
  <2>0. CallInv(q)
    OBVIOUS
  <2>1. CASE pending'[q] = pending[q]
    BY <1>1, <1>5, <2>1, Frame, CallTypes
  <2>2. CASE pending'[q] # pending[q]
    <3>1. q = a.id /\ Awaited(a) /\ pending'[q] = new
      BY <1>4, <2>2 DEF TypeOK
    <3>2. /\ a.kind = "malformed" => strays > 0
          /\ a.kind # "malformed" => a.kind = did[q] /\ a.kind # None
      BY <1>2, <3>1 DEF AnswersTrue, Awaited, Kinds
    <3>3. EntryTrue(q)'
      BY <1>1, <1>3, <2>0, <3>1, <3>2 DEF CallInv, EntryTrue, Awaited
    <3>4. AuditOf(q)' /\ SentOnce(q)' /\ ReadTrue(q)' /\ AuditSoFar(q)'
      BY <1>1, <2>0 DEF CallInv, AuditOf, SentOnce, ReadTrue, AuditSoFar
    <3> QED  BY <3>3, <3>4 DEF CallInv
  <2> QED  BY <2>1, <2>2
<1>7. AnswersTrue'
  BY <1>1, AnswersFrame DEF Deliver
<1> QED  BY <1>5, <1>6, <1>7
-----------------------------------------------------------------------------
(* The theorems.                                                           *)

THEOREM StepInvariant == IInv /\ [Next]_vars => IInv'
<1> SUFFICES ASSUME IInv, [Next]_vars PROVE IInv'
  OBVIOUS
<1>1. CASE Disconnect
  BY <1>1, Disconnecting
<1>2. CASE Connect
  BY <1>2, Connecting
<1>3. ASSUME NEW d \in Devices, GoesOffline(d) PROVE IInv'
  BY <1>3, GoingOffline
<1>4. ASSUME NEW r \in Requests, Authorize(r) \/ Thread(r) PROVE IInv'
  BY <1>4, AuthorizeStep, CheckConnectedStep, CheckOnlineStep, RegisterStep, PublishStep,
     RecordDispatchStep, WakeUpStep, TimeOutStep, CheckContractStep, ReadResponseStep,
     RecordResultStep, LeaveStep DEF Thread
<1>5. ASSUME NEW r \in Requests, Execute(r) PROVE IInv'
  BY <1>5, ExecuteStep
<1>6. ASSUME NEW r \in Requests, NEW d \in Devices, Stray(d, r) PROVE IInv'
  BY <1>6, StrayStep
<1>7. ASSUME NEW a \in answers, Deliver(a) PROVE IInv'
  BY <1>7, DeliverStep
<1>8. CASE UNCHANGED vars
  <2>1. UNCHANGED <<connected, status, drops, pc, asked, read, outcome, pending, wire,
                    did, strays, answers, audit>>
    BY <1>8 DEF vars, link, threads, device
  <2>2. TypeOK'
    BY <2>1 DEF IInv, TypeOK
  <2>3. \A q \in Requests : CallInv(q)'
    BY <2>1, <2>2, Frame, CallTypes DEF IInv
  <2> QED  BY <2>1, <2>2, <2>3, AnswersFrame DEF IInv
<1> QED  BY <1>1, <1>2, <1>3, <1>4, <1>5, <1>6, <1>7, <1>8 DEF Next

\* The invariant of the dispatch: what the table, the threads, the answers on the
\* way and the audit say of each call agrees with its device.
THEOREM Inductive == Spec => []IInv
<1>1. Init => IInv
  BY InitInvariant
<1>2. IInv /\ [Next]_vars => IInv'
  BY StepInvariant
<1> QED  BY <1>1, <1>2, PTL DEF Spec

\* Every variable keeps its type.
THEOREM TypeCorrect == Spec => []TypeOK
<1>1. IInv => TypeOK
  BY DEF IInv
<1> QED  BY <1>1, Inductive, PTL

\* The audit of every command agrees with its device and its caller.
THEOREM AuditCorrect == Spec => []AuditAgrees
<1>1. IInv => AuditAgrees
  BY DEF IInv, CallInv, AuditAgrees
<1> QED  BY <1>1, Inductive, PTL

\* The pending table holds exactly the calls that are on their way: no way out of
\* send_command forgets an entry.
THEOREM TableCorrect == Spec => []TableIsCalls
<1>1. IInv => TableIsCalls
  BY DEF IInv, CallInv, EntryTrue, TableIsCalls
<1> QED  BY <1>1, Inductive, PTL
-----------------------------------------------------------------------------
(* The promise of RemoteCall.                                              *)

\* A caller hears a result, a refusal, or nothing it can rely on.
LEMMA TellStep ==
    ASSUME IInv, IInv', NEW r \in Requests, NEW o \in Outcomes,
           did' = did, outcome[r] = None, outcome' = [outcome EXCEPT ![r] = o],
           o \in {"ack", "nack"} => did[r] # None /\ o = Result(did[r])
    PROVE  Remote!Next
<1> USE NoneIsNothing
<1>1. outcome'[r] = o /\ Heard(o) # None /\ Heard(None) = None
  BY DEF IInv, TypeOK, Heard, Outcomes
<1>2. Told' = [Told EXCEPT ![r] = Heard(o)] /\ Told[r] = None
  BY <1>1 DEF IInv, TypeOK, Told
<1>3. Given' = Given
  BY DEF Given
<1>4. CASE o \in Refused
  <2>1. did[r] = None
    BY <1>1, <1>4 DEF IInv, CallInv, SentOnce
  <2>2. Remote!TellRefused(r)
    BY <1>2, <1>3, <1>4, <2>1 DEF Remote!TellRefused, Given, Heard, Outcomes
  <2> QED  BY <2>2 DEF Remote!Next
<1>5. CASE o \in {"ack", "nack"}
  <2>1. Given[r] = o /\ Heard(o) = o
    BY <1>5 DEF Given, Heard, Refused, Outcomes
  <2>2. Remote!TellResult(r)
    BY <1>2, <1>3, <1>5, <2>1 DEF Remote!TellResult, Outcomes
  <2> QED  BY <2>2 DEF Remote!Next
<1>6. CASE o \in {"timeout", "invalid"}
  <2>1. Heard(o) = "unknown"
    BY <1>6 DEF Heard, Refused, Outcomes
  <2>2. Remote!TellUnknown(r)
    BY <1>2, <1>3, <2>1 DEF Remote!TellUnknown
  <2> QED  BY <2>2 DEF Remote!Next
<1> QED  BY <1>4, <1>5, <1>6 DEF Outcomes

\* The execution of a command is the execution of the abstract one.
LEMMA ExecuteRefines ==
    ASSUME IInv, NEW r \in Requests, Execute(r)
    PROVE  Remote!Next
<1> USE NoneIsNothing
<1>1. PICK k \in Valid : did' = [did EXCEPT ![r] = k]
  BY DEF Execute
<1>2. did[r] = None /\ outcome[r] \notin Refused /\ outcome' = outcome
  BY DEF Execute, threads, IInv, CallInv, SentOnce
<1>3. Result(k) \in {"ack", "nack"} /\ k # None
  BY DEF Result
<1>4. Given[r] = None /\ Given' = [Given EXCEPT ![r] = Result(k)]
  BY <1>1, <1>2, <1>3 DEF Given, IInv, TypeOK
<1>5. Told' = Told /\ Told[r] # "refused"
  BY <1>2 DEF Told, Heard, Outcomes
<1>6. Remote!Execute(r)
  BY <1>3, <1>4, <1>5 DEF Remote!Execute, Remote!Results
<1> QED  BY <1>6 DEF Remote!Next

\* A step of the thread tells its caller something, or nothing.
LEMMA ThreadRefines ==
    ASSUME IInv, IInv', NEW r \in Requests, Authorize(r) \/ Thread(r)
    PROVE  Remote!Next \/ UNCHANGED <<Given, Told>>
<1> USE NoneIsNothing
<1>1. did' = did
  BY DEF Authorize, Thread, CheckConnected, CheckOnline, Register, Publish, RecordDispatch,
         WakeUp, TimeOut, CheckContract, ReadResponse, RecordResult, Leave, device
<1>2. CASE outcome' = outcome
  BY <1>1, <1>2 DEF Given, Told
<1>3. ASSUME NEW o \in Refused \cup {"timeout", "invalid"}, NEW p, Fail(r, o, p),
             pc[r] \notin {"leaving", "done"}
      PROVE  Remote!Next
  <2>1. outcome[r] = None
    BY <1>3 DEF IInv, CallInv, ReadTrue
  <2> QED  BY <1>1, <1>3, <2>1, TellStep DEF Fail, Outcomes, Refused
<1>4. CASE Authorize(r)
  BY <1>2, <1>3, <1>4 DEF Authorize, Refused
<1>5. CASE CheckConnected(r) \/ CheckOnline(r) \/ Register(r) \/ Publish(r)
  BY <1>2, <1>3, <1>5 DEF CheckConnected, CheckOnline, Register, Publish, Refused
<1>6. CASE TimeOut(r) \/ CheckContract(r) \/ ReadResponse(r)
  BY <1>2, <1>3, <1>6 DEF TimeOut, CheckContract, ReadResponse
<1>7. CASE RecordDispatch(r) \/ WakeUp(r) \/ RecordResult(r)
  BY <1>2, <1>7 DEF RecordDispatch, WakeUp, RecordResult
<1>8. CASE Leave(r) /\ outcome[r] = None
  <2>1. read[r] # None /\ read[r] = did[r]
    BY <1>8 DEF Leave, IInv, CallInv, ReadTrue
  <2>2. outcome' = [outcome EXCEPT ![r] = ToldOf(r)]
    BY <1>8 DEF Leave
  <2>3. ToldOf(r) \in {"invalid", Result(did[r])} /\ Result(did[r]) \in {"ack", "nack"}
    BY <2>1 DEF ToldOf, Result
  <2> QED  BY <1>1, <1>8, <2>1, <2>2, <2>3, TellStep DEF Outcomes
<1>9. CASE Leave(r) /\ outcome[r] # None
  BY <1>2, <1>9 DEF Leave
<1> QED  BY <1>4, <1>5, <1>6, <1>7, <1>8, <1>9 DEF Thread

\* send_command keeps its promise, RemoteCall.
THEOREM Refinement == Spec => PromiseKept
<1>1. Init => Remote!Init
  BY NoneIsNothing DEF Init, Remote!Init, Given, Told, Heard
<1>2. IInv /\ IInv' /\ [Next]_vars => [Remote!Next]_<<Given, Told>>
  <2> SUFFICES ASSUME IInv, IInv', [Next]_vars
               PROVE  Remote!Next \/ UNCHANGED <<Given, Told>>
    OBVIOUS
  <2>1. CASE UNCHANGED <<did, outcome>>
    BY <2>1 DEF Given, Told
  <2>2. CASE Disconnect \/ Connect \/ UNCHANGED vars
    BY <2>1, <2>2 DEF Disconnect, Connect, vars, threads, device
  <2>3. ASSUME NEW d \in Devices, GoesOffline(d) PROVE UNCHANGED <<did, outcome>>
    BY <2>3 DEF GoesOffline, threads, device
  <2>4. ASSUME NEW r \in Requests, Authorize(r) \/ Thread(r)
        PROVE  Remote!Next \/ UNCHANGED <<Given, Told>>
    BY <2>4, ThreadRefines
  <2>5. ASSUME NEW r \in Requests, Execute(r) PROVE Remote!Next
    BY <2>5, ExecuteRefines
  <2>6. ASSUME NEW r \in Requests, NEW d \in Devices, Stray(d, r)
        PROVE  UNCHANGED <<did, outcome>>
    BY <2>6 DEF Stray, threads
  <2>7. ASSUME NEW a \in answers, Deliver(a) PROVE UNCHANGED <<did, outcome>>
    BY <2>7 DEF Deliver, threads, device
  <2> QED  BY <2>1, <2>2, <2>3, <2>4, <2>5, <2>6, <2>7 DEF Next
<1> QED  BY <1>1, <1>2, Inductive, PTL DEF Spec, PromiseKept, Remote!Spec
-----------------------------------------------------------------------------
(* The ingestion: its invariant.                                           *)

\* What the worker is doing is about a message that it has taken.
WorkerTrue ==
    /\ worker.pc = "handling" => worker.about \in Statuses
    /\ worker.pc = "recording" => worker.about \in EventKinds

\* The network thread has ended before the worker is told, and nothing is queued
\* behind the None that ends it.
StopTrue ==
    /\ stopping # "no" => ~connected /\ inbox = <<>> /\ receiving = None
    /\ ~accepting => stopping # "no"
    /\ receiving # "stop" /\ \A i \in 1 .. Len(inbox) : inbox[i] # "stop"
    /\ \A i \in 1 .. Len(queue) : queue[i] = "stop" => i = Len(queue) /\ stopping = "poisoned"
    /\ worker.pc = "ended" => queue = <<>> /\ stopping = "poisoned"
    /\ stopping = "poisoned" /\ worker.pc # "ended"
            => queue # <<>> /\ queue[Len(queue)] = "stop"

\* No status is on its way in s, or v is the last one.
Plain(s) == \A i \in 1 .. Len(s) : s[i] \notin Statuses
LastStatus(s, v) ==
    \A i \in 1 .. Len(s) :
        s[i] \in Statuses => s[i] = v \/ \E j \in i + 1 .. Len(s) : s[j] \in Statuses

\* The newest status between broker and cache is the device's, unless the queue had
\* no room for it.
NewestTrue ==
    connected =>
        /\ LastStatus(inbox, retained)
        /\ Plain(inbox) =>
             IF receiving \in Statuses THEN receiving = retained
             ELSE ~missed =>
                    /\ LastStatus(queue, retained)
                    /\ Plain(queue) =>
                         IF worker.pc = "handling" THEN worker.about = retained
                         ELSE cached = retained

\* The age of a status is the number of changes since; it tells which status it is
\* when r is the device's, and how many of these changes were to k.
StatusOf(age, r) == IF age % 2 = 0 THEN r ELSE Other(r)
Turns(k, age, r) == IF k = r THEN (age + 1) \div 2 ELSE age \div 2

\* An event that is about to be recorded.
Due(k) == IF worker.pc = "recording" /\ worker.about = k THEN 1 ELSE 0

\* Ages for the messages in s, oldest first, between two bounds.
Aged(s, a, top, bottom, r) ==
    /\ \A i \in 1 .. Len(s) :
         /\ bottom <= a[i] /\ a[i] <= top
         /\ s[i] \in Statuses => s[i] = StatusOf(a[i], r)
    /\ \A i, j \in 1 .. Len(s) : i < j => a[j] <= a[i]

HasAges(s, top, bottom, r) == \E a \in [1 .. Len(s) -> Nat] : Aged(s, a, top, bottom, r)

\* The statuses on their way are samples of the device's, in the order of its changes.
AgesTrue(last, task, received) ==
    /\ received <= task /\ task <= last
    /\ HasAges(queue, task, received, retained)
    /\ HasAges(inbox, received, 0, retained)
    /\ receiving \in Statuses => receiving = StatusOf(received, retained)
    /\ worker.pc = "handling" => worker.about = StatusOf(task, retained)
    /\ cached # None => cached = StatusOf(last, retained)
    /\ \A k \in Statuses : events[k] + Due(k) + Turns(k, last, retained) <= changes[k]

StatusesAged == \E last, task, received \in Nat : AgesTrue(last, task, received)

\* The same of an outage: the outages that were reported since.
One(m) == IF m = "outage" THEN 1 ELSE 0

Counted(s, a, top, bottom) ==
    /\ \A i \in 1 .. Len(s) : bottom <= a[i] /\ a[i] + One(s[i]) <= top
    /\ \A i, j \in 1 .. Len(s) : i < j => a[j] + One(s[j]) <= a[i]

HasCounts(s, top, bottom) == \E a \in [1 .. Len(s) -> Nat] : Counted(s, a, top, bottom)

CountsTrue(taken, received) ==
    /\ received + One(receiving) <= taken
    /\ HasCounts(queue, taken, received + One(receiving))
    /\ HasCounts(inbox, received, 0)
    /\ events["outage"] + Due("outage") + taken <= changes["outage"]

OutagesCounted == \E taken, received \in Nat : CountsTrue(taken, received)

StatusInv ==
    /\ IngestionTypeOK /\ WorkerTrue /\ StopTrue /\ NewestTrue
    /\ StatusesAged /\ OutagesCounted
-----------------------------------------------------------------------------
(* Lemmas about statuses and their ages.                                   *)

\* Either of the two statuses is the other one of the other.
LEMMA OtherStatus ==
    ASSUME NEW s \in Statuses
    PROVE  /\ Other(s) \in Statuses /\ Other(s) # s
           /\ \A t \in Statuses : t = s \/ t = Other(s)
<1>1. \E t \in Statuses : t # s
  BY DEF Statuses
<1>2. Other(s) \in Statuses /\ Other(s) # s
  BY <1>1 DEF Other
<1> QED  BY <1>2 DEF Statuses

\* A status that is one change older is the same one, seen from the new status.
LEMMA StatusOlder ==
    ASSUME NEW r \in Statuses, NEW n \in Nat
    PROVE  StatusOf(n + 1, Other(r)) = StatusOf(n, r) /\ StatusOf(n, r) \in Statuses
<1>1. Other(Other(r)) = r
  BY OtherStatus
<1>2. (n + 1) % 2 = 0 <=> n % 2 # 0
  OBVIOUS
<1> QED  BY <1>1, <1>2, OtherStatus DEF StatusOf

\* One more change is one more turn to the new status, and none to the old one.
LEMMA TurnsOlder ==
    ASSUME NEW r \in Statuses, NEW k \in Statuses, NEW n \in Nat
    PROVE  Turns(k, n + 1, Other(r)) = Turns(k, n, r) + (IF k = Other(r) THEN 1 ELSE 0)
<1>1. n + 2 = (n + 1) + 1 /\ (n + 2) \div 2 = n \div 2 + 1
  OBVIOUS
<1>2. k = r \/ k = Other(r)
  BY OtherStatus
<1>3. CASE k = r
  BY <1>3, OtherStatus DEF Turns
<1>4. CASE k = Other(r)
  BY <1>1, <1>4, OtherStatus DEF Turns
<1> QED  BY <1>2, <1>3, <1>4

\* A number of turns is a number.
LEMMA TurnsNat ==
    \A r, k \in Statuses, n \in Nat : Turns(k, n, r) \in Nat
<1>1. \A n \in Nat : n \div 2 \in Nat /\ (n + 1) \div 2 \in Nat
  OBVIOUS
<1> QED  BY <1>1 DEF Turns

\* When the cache goes on to a younger status, what is recorded for it and the turns
\* that are left are no more than the turns there were.
LEMMA TurnsYounger ==
    ASSUME NEW r \in Statuses, NEW k \in Statuses, NEW c \in Nat, NEW t \in Nat, t <= c
    PROVE  /\ Turns(k, t, r) \in Nat /\ Turns(k, c, r) \in Nat
           /\ Turns(k, t, r) <= Turns(k, c, r)
           /\ StatusOf(t, r) = k /\ StatusOf(c, r) # k
                => Turns(k, t, r) + 1 <= Turns(k, c, r)
<1>1. t \div 2 \in Nat /\ c \div 2 \in Nat /\ (t + 1) \div 2 \in Nat /\ (c + 1) \div 2 \in Nat
      /\ t \div 2 <= c \div 2 /\ (t + 1) \div 2 <= (c + 1) \div 2
  OBVIOUS
<1>2. CASE k = r
  <2>1. Other(r) # k
    BY <1>2, OtherStatus
  <2>2. StatusOf(t, r) = k /\ StatusOf(c, r) # k => t % 2 = 0 /\ c % 2 # 0
    BY <1>2, <2>1 DEF StatusOf
  <2>3. t % 2 = 0 /\ c % 2 # 0 => (t + 1) \div 2 + 1 <= (c + 1) \div 2
    OBVIOUS
  <2> QED  BY <1>1, <1>2, <2>2, <2>3 DEF Turns
<1>3. CASE k # r
  <2>1. k = Other(r)
    BY <1>3, OtherStatus
  <2>2. StatusOf(t, r) = k /\ StatusOf(c, r) # k => t % 2 # 0 /\ c % 2 = 0
    BY <1>3, <2>1 DEF StatusOf
  <2>3. t % 2 # 0 /\ c % 2 = 0 => t \div 2 + 1 <= c \div 2
    OBVIOUS
  <2> QED  BY <1>1, <1>3, <2>2, <2>3 DEF Turns
<1> QED  BY <1>2, <1>3
-----------------------------------------------------------------------------
(* Lemmas about sequences of messages.                                     *)

\* The messages of a queue that has one more.
LEMMA AppendAt ==
    ASSUME NEW s \in Seq(Messages), NEW m \in Messages
    PROVE  /\ Append(s, m) \in Seq(Messages) /\ Len(Append(s, m)) = Len(s) + 1
           /\ Len(s) \in Nat
           /\ \A i \in 1 .. Len(s) : Append(s, m)[i] = s[i]
           /\ Append(s, m)[Len(s) + 1] = m
  OBVIOUS

\* The messages behind the oldest one.
LEMMA TailAt ==
    ASSUME NEW s \in Seq(Messages), s # <<>>
    PROVE  /\ Tail(s) \in Seq(Messages) /\ Len(Tail(s)) = Len(s) - 1
           /\ Len(s) \in Nat \ {0} /\ Head(s) = s[1] /\ s[1] \in Messages
           /\ \A i \in 1 .. Len(s) - 1 : Tail(s)[i] = s[i + 1]
  OBVIOUS

\* A queue without messages.
LEMMA Empty ==
    /\ <<>> \in Seq(Messages) /\ Len(<<>>) = 0
    /\ \A s \in Seq(Messages) : s = <<>> <=> Len(s) = 0
  OBVIOUS

\* Without messages there is nothing to date or to count.
LEMMA NoAges ==
    ASSUME NEW top, NEW bottom, NEW r
    PROVE  HasAges(<<>>, top, bottom, r) /\ HasCounts(<<>>, top, bottom)
<1>1. Len(<<>>) = 0 /\ [i \in 1 .. 0 |-> 0] \in [1 .. 0 -> Nat]
  OBVIOUS
<1>2. \A i \in 1 .. 0 : FALSE
  OBVIOUS
<1> QED  BY <1>1, <1>2 DEF HasAges, Aged, HasCounts, Counted

\* Ages above a bound are above any lower one.
LEMMA AgesBetween ==
    ASSUME NEW s \in Seq(Messages), NEW r,
           NEW top \in Nat, NEW bottom \in Nat, NEW low \in Nat, low <= bottom,
           HasAges(s, top, bottom, r)
    PROVE  HasAges(s, top, low, r)
<1>1. PICK a \in [1 .. Len(s) -> Nat] : Aged(s, a, top, bottom, r)
  BY DEF HasAges
<1>2. \A i \in 1 .. Len(s) : a[i] \in Nat
  OBVIOUS
<1>3. Aged(s, a, top, low, r)
  BY <1>1, <1>2 DEF Aged
<1> QED  BY <1>3 DEF HasAges

\* The same of the counts.
LEMMA CountsBetween ==
    ASSUME NEW s \in Seq(Messages),
           NEW top \in Nat, NEW bottom \in Nat, NEW low \in Nat, low <= bottom,
           HasCounts(s, top, bottom)
    PROVE  HasCounts(s, top, low)
<1>1. PICK a \in [1 .. Len(s) -> Nat] : Counted(s, a, top, bottom)
  BY DEF HasCounts
<1>2. \A i \in 1 .. Len(s) : a[i] \in Nat
  OBVIOUS
<1>3. Counted(s, a, top, low)
  BY <1>1, <1>2 DEF Counted
<1> QED  BY <1>3 DEF HasCounts

\* A message that is appended is the youngest.
LEMMA AgesAppend ==
    ASSUME NEW s \in Seq(Messages), NEW m \in Messages, NEW r,
           NEW top \in Nat, NEW bottom \in Nat, NEW n \in Nat, n <= bottom, n <= top,
           HasAges(s, top, bottom, r), m \in Statuses => m = StatusOf(n, r)
    PROVE  HasAges(Append(s, m), top, n, r)
<1>1. PICK a \in [1 .. Len(s) -> Nat] : Aged(s, a, top, bottom, r)
  BY DEF HasAges
<1> DEFINE t == Append(s, m)
           b == [i \in 1 .. Len(s) + 1 |-> IF i = Len(s) + 1 THEN n ELSE a[i]]
<1>2. Len(t) = Len(s) + 1 /\ Len(s) \in Nat /\ t[Len(s) + 1] = m
      /\ \A i \in 1 .. Len(s) : t[i] = s[i]
  BY AppendAt
<1>3. /\ b[Len(s) + 1] = n
      /\ \A i \in 1 .. Len(s) : b[i] = a[i] /\ a[i] \in Nat
      /\ \A i \in 1 .. Len(s) + 1 : i = Len(s) + 1 \/ i \in 1 .. Len(s)
  <2>1. \A i \in 1 .. Len(s) + 1 : i = Len(s) + 1 \/ i \in 1 .. Len(s)
    BY <1>2
  <2>2. \A i \in 1 .. Len(s) : i \in 1 .. Len(s) + 1 /\ i # Len(s) + 1
    BY <1>2
  <2> QED  BY <1>2, <2>1, <2>2
<1>4. b \in [1 .. Len(t) -> Nat]
  BY <1>2, <1>3
<1> HIDE DEF t, b
<1>5. ASSUME NEW i \in 1 .. Len(t)
      PROVE  /\ n <= b[i] /\ b[i] <= top
             /\ t[i] \in Statuses => t[i] = StatusOf(b[i], r)
  BY <1>1, <1>2, <1>3 DEF Aged
<1>6. ASSUME NEW i \in 1 .. Len(t), NEW j \in 1 .. Len(t), i < j PROVE b[j] <= b[i]
  <2>1. i \in 1 .. Len(s)
    BY <1>2, <1>6
  <2> QED  BY <1>1, <1>2, <1>3, <1>6, <2>1 DEF Aged
<1>7. Aged(t, b, top, n, r)
  BY <1>5, <1>6 DEF Aged
<1> QED  BY <1>4, <1>7 DEF HasAges, t

\* Behind the oldest message all the others are as young or younger.
LEMMA AgesTail ==
    ASSUME NEW s \in Seq(Messages), s # <<>>, NEW r, NEW top \in Nat, NEW bottom \in Nat,
           HasAges(s, top, bottom, r)
    PROVE  \E n \in Nat : /\ bottom <= n /\ n <= top
                          /\ HasAges(Tail(s), n, bottom, r)
                          /\ Head(s) \in Statuses => Head(s) = StatusOf(n, r)
<1>1. PICK a \in [1 .. Len(s) -> Nat] : Aged(s, a, top, bottom, r)
  BY DEF HasAges
<1> DEFINE t == Tail(s)
           b == [i \in 1 .. Len(s) - 1 |-> a[i + 1]]
<1>2. /\ Len(t) = Len(s) - 1 /\ Len(s) \in Nat \ {0} /\ Head(s) = s[1]
      /\ \A i \in 1 .. Len(s) - 1 : t[i] = s[i + 1]
  BY TailAt
<1>3. \A i \in 1 .. Len(s) - 1 : b[i] = a[i + 1] /\ i + 1 \in 1 .. Len(s)
  BY <1>2
<1>4. b \in [1 .. Len(t) -> Nat] /\ 1 \in 1 .. Len(s) /\ a[1] \in Nat
  BY <1>2, <1>3
<1> HIDE DEF t, b
<1>5. ASSUME NEW i \in 1 .. Len(t)
      PROVE  /\ bottom <= b[i] /\ b[i] <= a[1]
             /\ t[i] \in Statuses => t[i] = StatusOf(b[i], r)
  <2>1. 1 < i + 1 /\ i \in 1 .. Len(s) - 1 /\ i + 1 \in 1 .. Len(s)
    BY <1>2
  <2> QED  BY <1>1, <1>2, <1>3, <1>4, <2>1 DEF Aged
<1>6. ASSUME NEW i \in 1 .. Len(t), NEW j \in 1 .. Len(t), i < j PROVE b[j] <= b[i]
  <2>1. i + 1 \in 1 .. Len(s) /\ j + 1 \in 1 .. Len(s) /\ i + 1 < j + 1
    BY <1>2, <1>6
  <2> QED  BY <1>1, <1>2, <1>3, <2>1 DEF Aged
<1>7. Aged(t, b, a[1], bottom, r)
  BY <1>5, <1>6 DEF Aged
<1>8. HasAges(Tail(s), a[1], bottom, r)
  BY <1>4, <1>7 DEF HasAges, t
<1>9. bottom <= a[1] /\ a[1] <= top /\ (Head(s) \in Statuses => Head(s) = StatusOf(a[1], r))
  BY <1>1, <1>2, <1>4 DEF Aged
<1> QED  BY <1>4, <1>8, <1>9

\* A change of the device makes every status on its way one change older.
LEMMA AgesOlder ==
    ASSUME NEW s \in Seq(Messages), NEW r \in Statuses,
           NEW top \in Nat, NEW bottom \in Nat,
           HasAges(s, top, bottom, r)
    PROVE  HasAges(s, top + 1, bottom + 1, Other(r))
<1>1. PICK a \in [1 .. Len(s) -> Nat] : Aged(s, a, top, bottom, r)
  BY DEF HasAges
<1> DEFINE b == [i \in 1 .. Len(s) |-> a[i] + 1]
<1>2. \A i \in 1 .. Len(s) : b[i] = a[i] + 1 /\ a[i] \in Nat
  OBVIOUS
<1>3. b \in [1 .. Len(s) -> Nat]
  BY <1>2
<1> HIDE DEF b
<1>4. ASSUME NEW i \in 1 .. Len(s)
      PROVE  /\ bottom + 1 <= b[i] /\ b[i] <= top + 1
             /\ s[i] \in Statuses => s[i] = StatusOf(b[i], Other(r))
  <2>1. StatusOf(b[i], Other(r)) = StatusOf(a[i], r)
    BY <1>2, StatusOlder
  <2> QED  BY <1>1, <1>2, <2>1 DEF Aged
<1>5. ASSUME NEW i \in 1 .. Len(s), NEW j \in 1 .. Len(s), i < j PROVE b[j] <= b[i]
  BY <1>1, <1>2, <1>5 DEF Aged
<1>6. Aged(s, b, top + 1, bottom + 1, Other(r))
  BY <1>4, <1>5 DEF Aged
<1> QED  BY <1>3, <1>6 DEF HasAges

\* An outage counts once and any other message does not.
LEMMA OneType == \A m : One(m) \in {0, 1}
  BY DEF One

\* A message that is appended is counted before all the others.
LEMMA CountsAppend ==
    ASSUME NEW s \in Seq(Messages), NEW m \in Messages,
           NEW top \in Nat, NEW bottom \in Nat, NEW n \in Nat,
           n + One(m) <= bottom, n + One(m) <= top, HasCounts(s, top, bottom)
    PROVE  HasCounts(Append(s, m), top, n)
<1>1. PICK a \in [1 .. Len(s) -> Nat] : Counted(s, a, top, bottom)
  BY DEF HasCounts
<1> DEFINE t == Append(s, m)
           b == [i \in 1 .. Len(s) + 1 |-> IF i = Len(s) + 1 THEN n ELSE a[i]]
<1>2. Len(t) = Len(s) + 1 /\ Len(s) \in Nat /\ t[Len(s) + 1] = m
      /\ \A i \in 1 .. Len(s) : t[i] = s[i]
  BY AppendAt
<1>3. /\ b[Len(s) + 1] = n
      /\ \A i \in 1 .. Len(s) : b[i] = a[i] /\ a[i] \in Nat
      /\ \A i \in 1 .. Len(s) + 1 : i = Len(s) + 1 \/ i \in 1 .. Len(s)
  <2>1. \A i \in 1 .. Len(s) + 1 : i = Len(s) + 1 \/ i \in 1 .. Len(s)
    BY <1>2
  <2>2. \A i \in 1 .. Len(s) : i \in 1 .. Len(s) + 1 /\ i # Len(s) + 1
    BY <1>2
  <2> QED  BY <1>2, <2>1, <2>2
<1>4. b \in [1 .. Len(t) -> Nat]
  BY <1>2, <1>3
<1> HIDE DEF t, b
<1>5. ASSUME NEW i \in 1 .. Len(t) PROVE n <= b[i] /\ b[i] + One(t[i]) <= top
  BY <1>1, <1>2, <1>3, OneType DEF Counted
<1>6. ASSUME NEW i \in 1 .. Len(t), NEW j \in 1 .. Len(t), i < j
      PROVE  b[j] + One(t[j]) <= b[i]
  <2>1. i \in 1 .. Len(s)
    BY <1>2, <1>6
  <2> QED  BY <1>1, <1>2, <1>3, <1>6, <2>1, OneType DEF Counted
<1>7. Counted(t, b, top, n)
  BY <1>5, <1>6 DEF Counted
<1> QED  BY <1>4, <1>7 DEF HasCounts, t

\* Behind the oldest message the others have counted less.
LEMMA CountsTail ==
    ASSUME NEW s \in Seq(Messages), s # <<>>, NEW top \in Nat, NEW bottom \in Nat,
           HasCounts(s, top, bottom)
    PROVE  \E n \in Nat : /\ bottom <= n /\ n + One(Head(s)) <= top
                          /\ HasCounts(Tail(s), n, bottom)
<1>1. PICK a \in [1 .. Len(s) -> Nat] : Counted(s, a, top, bottom)
  BY DEF HasCounts
<1> DEFINE t == Tail(s)
           b == [i \in 1 .. Len(s) - 1 |-> a[i + 1]]
<1>2. /\ Len(t) = Len(s) - 1 /\ Len(s) \in Nat \ {0} /\ Head(s) = s[1]
      /\ \A i \in 1 .. Len(s) - 1 : t[i] = s[i + 1]
  BY TailAt
<1>3. \A i \in 1 .. Len(s) - 1 : b[i] = a[i + 1] /\ i + 1 \in 1 .. Len(s)
  BY <1>2
<1>4. b \in [1 .. Len(t) -> Nat] /\ 1 \in 1 .. Len(s) /\ a[1] \in Nat
  BY <1>2, <1>3
<1> HIDE DEF t, b
<1>5. ASSUME NEW i \in 1 .. Len(t) PROVE bottom <= b[i] /\ b[i] + One(t[i]) <= a[1]
  <2>1. 1 < i + 1 /\ i \in 1 .. Len(s) - 1 /\ i + 1 \in 1 .. Len(s)
    BY <1>2
  <2> QED  BY <1>1, <1>2, <1>3, <1>4, <2>1 DEF Counted
<1>6. ASSUME NEW i \in 1 .. Len(t), NEW j \in 1 .. Len(t), i < j
      PROVE  b[j] + One(t[j]) <= b[i]
  <2>1. /\ i + 1 \in 1 .. Len(s) /\ j + 1 \in 1 .. Len(s) /\ i + 1 < j + 1
        /\ i \in 1 .. Len(s) - 1 /\ j \in 1 .. Len(s) - 1
    BY <1>2, <1>6
  <2> QED  BY <1>1, <1>2, <1>3, <2>1 DEF Counted
<1>7. Counted(t, b, a[1], bottom)
  BY <1>5, <1>6 DEF Counted
<1>8. HasCounts(Tail(s), a[1], bottom)
  BY <1>4, <1>7 DEF HasCounts, t
<1>9. bottom <= a[1] /\ a[1] + One(Head(s)) <= top
  BY <1>1, <1>2, <1>4 DEF Counted
<1> QED  BY <1>4, <1>8, <1>9

\* One more outage is counted behind every message on its way.
LEMMA CountsMore ==
    ASSUME NEW s \in Seq(Messages), NEW top \in Nat, NEW bottom \in Nat,
           HasCounts(s, top, bottom)
    PROVE  HasCounts(s, top + 1, bottom + 1)
<1>1. PICK a \in [1 .. Len(s) -> Nat] : Counted(s, a, top, bottom)
  BY DEF HasCounts
<1> DEFINE b == [i \in 1 .. Len(s) |-> a[i] + 1]
<1>2. \A i \in 1 .. Len(s) : b[i] = a[i] + 1 /\ a[i] \in Nat
  OBVIOUS
<1>3. b \in [1 .. Len(s) -> Nat]
  BY <1>2
<1> HIDE DEF b
<1>4. \A i \in 1 .. Len(s) : bottom + 1 <= b[i] /\ b[i] + One(s[i]) <= top + 1
  BY <1>1, <1>2, OneType DEF Counted
<1>5. \A i, j \in 1 .. Len(s) : i < j => b[j] + One(s[j]) <= b[i]
  BY <1>1, <1>2, OneType DEF Counted
<1>6. Counted(s, b, top + 1, bottom + 1)
  BY <1>4, <1>5 DEF Counted
<1> QED  BY <1>3, <1>6 DEF HasCounts

\* The last status after a message is appended.
LEMMA LastAppend ==
    ASSUME NEW s \in Seq(Messages), NEW m \in Messages, NEW v
    PROVE  /\ Plain(Append(s, m)) <=> Plain(s) /\ m \notin Statuses
           /\ (IF m \in Statuses THEN m = v ELSE LastStatus(s, v))
                => LastStatus(Append(s, m), v)
<1> DEFINE t == Append(s, m)
<1>1. /\ Len(t) = Len(s) + 1 /\ Len(s) \in Nat /\ t[Len(s) + 1] = m
      /\ \A i \in 1 .. Len(s) : t[i] = s[i]
  BY AppendAt
<1> HIDE DEF t
<1>2. \A i \in 1 .. Len(t) : i = Len(s) + 1 \/ i \in 1 .. Len(s)
  BY <1>1
<1>3. Plain(t) <=> Plain(s) /\ m \notin Statuses
  BY <1>1, <1>2 DEF Plain
<1>4. ASSUME m \in Statuses, m = v, NEW i \in 1 .. Len(t), t[i] \in Statuses
      PROVE  t[i] = v \/ \E j \in i + 1 .. Len(t) : t[j] \in Statuses
  <2>1. CASE i # Len(s) + 1
    <3>1. Len(s) + 1 \in i + 1 .. Len(t)
      BY <1>1, <1>2, <2>1
    <3> QED  BY <1>1, <1>4, <3>1
  <2>2. CASE i = Len(s) + 1
    BY <1>1, <1>4, <2>2
  <2> QED  BY <1>4, <2>1, <2>2
<1>5. ASSUME m \notin Statuses, LastStatus(s, v), NEW i \in 1 .. Len(t), t[i] \in Statuses
      PROVE  t[i] = v \/ \E j \in i + 1 .. Len(t) : t[j] \in Statuses
  <2>1. i \in 1 .. Len(s) /\ s[i] = t[i]
    BY <1>1, <1>2, <1>5
  <2>2. s[i] = v \/ \E j \in i + 1 .. Len(s) : s[j] \in Statuses
    BY <1>5, <2>1 DEF LastStatus
  <2>3. \A j \in i + 1 .. Len(s) : j \in i + 1 .. Len(t) /\ t[j] = s[j]
    BY <1>1, <2>1
  <2> QED  BY <2>1, <2>2, <2>3
<1>6. (IF m \in Statuses THEN m = v ELSE LastStatus(s, v)) => LastStatus(t, v)
  BY <1>4, <1>5 DEF LastStatus
<1> QED  BY <1>3, <1>6 DEF t

\* The last status after the oldest message is taken.
LEMMA LastTail ==
    ASSUME NEW s \in Seq(Messages), s # <<>>, NEW v
    PROVE  /\ Plain(s) <=> Plain(Tail(s)) /\ Head(s) \notin Statuses
           /\ LastStatus(s, v) => LastStatus(Tail(s), v)
           /\ LastStatus(s, v) /\ Plain(Tail(s)) /\ Head(s) \in Statuses => Head(s) = v
<1> DEFINE t == Tail(s)
<1>1. /\ Len(t) = Len(s) - 1 /\ Len(s) \in Nat \ {0} /\ Head(s) = s[1]
      /\ \A i \in 1 .. Len(s) - 1 : t[i] = s[i + 1]
  BY TailAt
<1> HIDE DEF t
<1>2. /\ \A i \in 1 .. Len(t) : i + 1 \in 1 .. Len(s) /\ t[i] = s[i + 1]
      /\ \A i \in 1 .. Len(s) : i = 1 \/ (i - 1 \in 1 .. Len(t) /\ s[i] = t[i - 1])
  BY <1>1
<1>3. 1 \in 1 .. Len(s)
  BY <1>1
<1>4. Plain(s) <=> Plain(t) /\ Head(s) \notin Statuses
  BY <1>1, <1>2, <1>3 DEF Plain
<1>5. ASSUME LastStatus(s, v), NEW i \in 1 .. Len(t), t[i] \in Statuses
      PROVE  t[i] = v \/ \E j \in i + 1 .. Len(t) : t[j] \in Statuses
  <2>1. CASE s[i + 1] = v
    BY <1>2, <2>1
  <2>2. CASE \E j \in i + 2 .. Len(s) : s[j] \in Statuses
    <3>1. PICK j \in i + 2 .. Len(s) : s[j] \in Statuses
      BY <2>2
    <3>2. j - 1 \in i + 1 .. Len(t) /\ t[j - 1] = s[j]
      BY <1>1, <1>2
    <3> QED  BY <3>1, <3>2
  <2>3. (i + 1) + 1 = i + 2
    OBVIOUS
  <2> QED  BY <1>2, <1>5, <2>1, <2>2, <2>3 DEF LastStatus
<1>6. ASSUME LastStatus(s, v), Plain(t), s[1] \in Statuses PROVE s[1] = v
  <2>1. ~\E j \in 2 .. Len(s) : s[j] \in Statuses
    BY <1>1, <1>2, <1>6 DEF Plain
  <2> QED  BY <1>3, <1>6, <2>1 DEF LastStatus
<1>7. LastStatus(s, v) => LastStatus(t, v)
  BY <1>5 DEF LastStatus
<1> QED  BY <1>1, <1>4, <1>6, <1>7 DEF t

\* The retained message of a new connection.
LEMMA OneStatus ==
    ASSUME NEW v \in Statuses
    PROVE  /\ <<v>> \in Seq(Messages) /\ Len(<<v>>) = 1 /\ <<v>>[1] = v
           /\ LastStatus(<<v>>, v) /\ ~Plain(<<v>>)
           /\ HasAges(<<v>>, 0, 0, v) /\ HasCounts(<<v>>, 0, 0)
<1> DEFINE s == <<v>>
           a == [i \in 1 .. 1 |-> 0]
<1>1. s \in Seq(Messages) /\ Len(s) = 1 /\ s[1] = v
  BY DEF Messages, EventKinds
<1>2. a \in [1 .. 1 -> Nat] /\ \A i \in 1 .. 1 : i = 1 /\ a[i] = 0
  OBVIOUS
<1>3. 1 \in 1 .. 1 /\ 0 % 2 = 0 /\ v # "outage" /\ \A i, j \in 1 .. 1 : ~(i < j)
  BY DEF Statuses
<1> HIDE DEF s, a
<1>4. LastStatus(s, v) /\ ~Plain(s)
  BY <1>1, <1>2, <1>3 DEF LastStatus, Plain
<1>5. Aged(s, a, 0, 0, v) /\ Counted(s, a, 0, 0)
  BY <1>1, <1>2, <1>3 DEF Aged, Counted, StatusOf, One
<1> QED  BY <1>1, <1>2, <1>4, <1>5 DEF HasAges, HasCounts, s
-----------------------------------------------------------------------------
(* The steps.                                                              *)

\* The kinds of messages are told apart.
LEMMA KindsOf ==
    /\ Statuses \subseteq EventKinds /\ EventKinds \subseteq Messages
    /\ "outage" \in EventKinds /\ "outage" \notin Statuses
    /\ \A k \in EventKinds : k \in Statuses \/ k = "outage"
    /\ {"state", "stop"} \subseteq Messages /\ {"state", "stop"} \cap EventKinds = {}
  BY DEF Statuses, EventKinds, Messages

\* IngestionConstants; NULL is no message.
LEMMA SizeTypes ==
    /\ QUEUE_SIZE \in Nat \ {0}
    /\ MaxConnections \in Nat /\ MaxChanges \in Nat /\ MaxReports \in Nat
    /\ None \notin Messages
  BY IngestionConstants DEF Messages, EventKinds, Statuses

\* What the worker does with each message.
LEMMA TaskOf ==
    ASSUME NEW m \in Messages
    PROVE  /\ m = "stop" => TaskFor(m) = [NoTask EXCEPT !.pc = "ended"]
           /\ m = "state" => TaskFor(m) = NoTask
           /\ m = "outage" => TaskFor(m) = [pc |-> "recording", about |-> m]
           /\ m \in Statuses => TaskFor(m) = [pc |-> "handling", about |-> m]
           /\ TaskFor(m) \in [pc: {"idle", "handling", "recording", "ended"},
                              about: EventKinds \cup {None}]
<1>1. m \in {"online", "offline", "outage", "state", "stop"}
  BY DEF Messages, EventKinds, Statuses
<1>2. CASE m = "stop"
  BY <1>2 DEF TaskFor, NoTask, Statuses
<1>3. CASE m = "state"
  BY <1>3 DEF TaskFor, NoTask, Statuses
<1>4. CASE m = "outage"
  BY <1>4, KindsOf DEF TaskFor, Statuses
<1>5. CASE m \in {"online", "offline"}
  <2>1. TaskFor(m) = [pc |-> "handling", about |-> m]
    BY <1>5 DEF TaskFor, Statuses
  <2> QED  BY <1>5, <2>1, KindsOf DEF Statuses
<1> QED  BY <1>1, <1>2, <1>3, <1>4, <1>5 DEF Statuses

\* Every variable keeps its type, and the worker is about a message it can handle.
LEMMA TypeStep ==
    ASSUME IngestionTypeOK, WorkerTrue, [IngestionNext]_ingestion
    PROVE  IngestionTypeOK' /\ WorkerTrue'
<1> USE SizeTypes DEF IngestionTypeOK, WorkerTrue, broker, network
<1>1. CASE StatusChanges
  <2>1. /\ Other(retained) \in Statuses /\ Other(retained) \in Messages
        /\ Other(retained) \in EventKinds
    BY OtherStatus, KindsOf
  <2>2. inbox' \in Seq(Messages)
    BY <1>1, <2>1, AppendAt DEF StatusChanges
  <2>3. changes' \in [EventKinds -> Nat]
    BY <1>1, <2>1 DEF StatusChanges
  <2> QED  BY <1>1, <2>1, <2>2, <2>3 DEF StatusChanges
<1>2. ASSUME NEW m \in {"state", "outage"}, Report(m) PROVE IngestionTypeOK' /\ WorkerTrue'
  <2>1. inbox' \in Seq(Messages)
    BY <1>2, KindsOf, AppendAt DEF Report
  <2>2. changes' \in [EventKinds -> Nat]
    <3>1. CASE m = "outage"
      BY <1>2, <3>1, KindsOf DEF Report
    <3>2. CASE m # "outage"
      BY <1>2, <3>2 DEF Report
    <3> QED  BY <3>1, <3>2
  <2>3. reports' \in 0 .. MaxReports
    BY <1>2 DEF Report
  <2> QED  BY <1>2, <2>1, <2>2, <2>3 DEF Report
<1>3. CASE OnConnect
  <2>1. inbox' \in Seq(Messages)
    BY <1>3, OneStatus DEF OnConnect
  <2>2. connection' \in 0 .. MaxConnections
    BY <1>3 DEF OnConnect
  <2> QED  BY <1>3, <2>1, <2>2 DEF OnConnect
<1>4. CASE OnDisconnect
  <2>1. inbox' \in Seq(Messages)
    BY <1>4, Empty DEF OnDisconnect
  <2> QED  BY <1>4, <2>1 DEF OnDisconnect
<1>5. CASE Receive
  <2>1. inbox' \in Seq(Messages) /\ Head(inbox) \in Messages
    BY <1>5, TailAt DEF Receive
  <2> QED  BY <1>5, <2>1 DEF Receive
<1>6. CASE Enqueue
  <2>1. receiving \in Messages
    BY <1>6 DEF Enqueue
  <2>2. queue' \in Seq(Messages) /\ Len(queue') <= QUEUE_SIZE
    BY <1>6, <2>1, AppendAt DEF Enqueue, HasRoom
  <2>3. missed' \in BOOLEAN
    BY <1>6 DEF Enqueue, HasRoom
  <2> QED  BY <1>6, <2>2, <2>3 DEF Enqueue
<1>7. CASE Take
  <2>1. queue' \in Seq(Messages) /\ Len(queue') <= QUEUE_SIZE /\ Head(queue) \in Messages
    BY <1>7, TailAt DEF Take
  <2> DEFINE m == Head(queue)
  <2>2. worker' = TaskFor(m) /\ m \in Messages
    BY <1>7, <2>1 DEF Take
  <2> HIDE DEF m
  <2>3. /\ TaskFor(m).pc = "handling" => TaskFor(m).about \in Statuses
        /\ TaskFor(m).pc = "recording" => TaskFor(m).about \in EventKinds
    <3>1. m \in Statuses \cup {"outage", "state", "stop"}
      BY <2>2 DEF Messages, EventKinds
    <3>2. CASE m \in Statuses
      BY <2>2, <3>2, TaskOf
    <3>3. CASE m = "outage"
      BY <2>2, <3>3, TaskOf, KindsOf
    <3>4. CASE m \in {"state", "stop"}
      BY <2>2, <3>4, TaskOf DEF NoTask
    <3> QED  BY <3>1, <3>2, <3>3, <3>4
  <2>4. TaskFor(m) \in [pc: {"idle", "handling", "recording", "ended"},
                       about: EventKinds \cup {None}]
    BY <2>2, TaskOf
  <2> QED  BY <1>7, <2>1, <2>2, <2>3, <2>4 DEF Take
<1>8. CASE UpdateStatus
  BY <1>8, KindsOf DEF UpdateStatus, NewStatus, NoTask
<1>9. CASE RecordEvent
  <2>1. events' \in [EventKinds -> Nat]
    <3>1. events[worker.about] + 1 \in Nat
      BY <1>9 DEF RecordEvent
    <3> QED  BY <1>9, <3>1 DEF RecordEvent
  <2> QED  BY <1>9, <2>1 DEF RecordEvent, NoTask
<1>10. CASE StopNetwork
  <2>1. inbox' \in Seq(Messages)
    BY <1>10, Empty DEF StopNetwork
  <2> QED  BY <1>10, <2>1 DEF StopNetwork
<1>11. CASE RefuseMessages
  BY <1>11 DEF RefuseMessages
<1>12. CASE Poison
  <2>1. queue' \in Seq(Messages) /\ Len(queue') <= QUEUE_SIZE
    BY <1>12, KindsOf, AppendAt DEF Poison, HasRoom
  <2> QED  BY <1>12, <2>1 DEF Poison
<1>13. CASE PoisonTimesOut
  BY <1>13 DEF PoisonTimesOut
<1>14. CASE UNCHANGED ingestion
  BY <1>14 DEF ingestion
<1> QED  BY <1>1, <1>2, <1>3, <1>4, <1>5, <1>6, <1>7, <1>8, <1>9, <1>10, <1>11, <1>12,
            <1>13, <1>14 DEF IngestionNext

\* stop() and the threads it ends.
LEMMA StopStep ==
    ASSUME IngestionTypeOK, StopTrue, [IngestionNext]_ingestion
    PROVE  StopTrue'
<1> USE DEF broker, network
<1>0. /\ "stop" \notin Statuses /\ None # "stop" /\ inbox \in Seq(Messages)
      /\ queue \in Seq(Messages) /\ Len(queue) \in Nat /\ retained \in Statuses
  BY SizeTypes DEF Statuses, IngestionTypeOK, Messages
<1>1. ASSUME StatusChanges \/ \E m \in {"state", "outage"} : Report(m) PROVE StopTrue'
  <2>1. PICK m \in Messages : m # "stop" /\ inbox' \in {inbox, Append(inbox, m)}
    BY <1>0, <1>1, OtherStatus, KindsOf DEF StatusChanges, Report
  <2>2. inbox' # inbox => connected
    BY <1>1 DEF StatusChanges, Report
  <2>3. \A i \in 1 .. Len(inbox') : inbox'[i] # "stop"
    BY <1>0, <2>1, AppendAt DEF StopTrue
  <2>4. stopping # "no" => inbox' = <<>>
    BY <2>2 DEF StopTrue
  <2> QED  BY <1>1, <2>3, <2>4 DEF StatusChanges, Report, StopTrue
<1>2. CASE OnConnect
  <2>1. \A i \in 1 .. Len(<<retained>>) : <<retained>>[i] # "stop"
    BY <1>0, OneStatus
  <2> QED  BY <1>2, <2>1 DEF OnConnect, StopTrue
<1>3. CASE OnDisconnect \/ StopNetwork
  BY <1>3 DEF OnDisconnect, StopNetwork, StopTrue
<1>4. CASE Receive
  <2>1. /\ Head(inbox) # "stop" /\ \A i \in 1 .. Len(Tail(inbox)) : Tail(inbox)[i] # "stop"
        /\ stopping = "no"
    <3>1. \A i \in 1 .. Len(Tail(inbox)) : i \in 1 .. Len(inbox) - 1 /\ i + 1 \in 1 .. Len(inbox)
      BY <1>0, <1>4, TailAt DEF Receive
    <3> QED  BY <1>0, <1>4, <3>1, TailAt DEF Receive, StopTrue
  <2> QED  BY <1>0, <1>4, <2>1 DEF Receive, StopTrue
<1>5. CASE Enqueue
  <2>1. receiving \in Messages /\ receiving # "stop" /\ stopping = "no"
    BY <1>5 DEF Enqueue, StopTrue, IngestionTypeOK
  <2>2. \A i \in 1 .. Len(queue) : queue[i] # "stop"
    BY <2>1 DEF StopTrue
  <2>3. \A i \in 1 .. Len(queue') : queue'[i] # "stop"
    <3>1. CASE queue' = queue
      BY <2>2, <3>1
    <3>2. CASE queue' = Append(queue, receiving)
      <4>1. \A i \in 1 .. Len(queue') : i \in 1 .. Len(queue) \/ i = Len(queue) + 1
        BY <1>0, <2>1, <3>2, AppendAt
      <4> QED  BY <1>0, <2>1, <2>2, <3>2, <4>1, AppendAt
    <3> QED  BY <1>5, <3>1, <3>2 DEF Enqueue
  <2>4. worker.pc # "ended"
    BY <2>1 DEF StopTrue
  <2> QED  BY <1>0, <1>5, <2>1, <2>3, <2>4 DEF Enqueue, StopTrue
<1>6. CASE Take
  <2>1. worker.pc = "idle" /\ queue # <<>> /\ queue' = Tail(queue) /\ Head(queue) \in Messages
    BY <1>0, <1>6, TailAt DEF Take
  <2>2. /\ Len(queue') = Len(queue) - 1 /\ Len(queue) \in Nat \ {0} /\ Head(queue) = queue[1]
        /\ \A i \in 1 .. Len(queue') : queue'[i] = queue[i + 1] /\ i + 1 \in 1 .. Len(queue)
    BY <1>0, <2>1, TailAt
  <2>9. queue' = <<>> <=> Len(queue) = 1
    <3>1. queue' \in Seq(Messages)
      BY <1>0, <2>1, TailAt
    <3>2. queue' = <<>> <=> Len(queue') = 0
      BY <3>1, Empty
    <3> QED  BY <2>2, <3>2
  <2>3. \A i \in 1 .. Len(queue') : queue'[i] = "stop" => i = Len(queue') /\ stopping = "poisoned"
    BY <2>2 DEF StopTrue
  <2>4. CASE Head(queue) = "stop"
    <3>1. queue' = <<>> /\ stopping = "poisoned" /\ worker'.pc = "ended"
      BY <1>6, <2>1, <2>2, <2>4, <2>9, TaskOf DEF StopTrue, Take, NoTask
    <3> QED  BY <1>6, <2>3, <3>1 DEF Take, StopTrue
  <2>5. CASE Head(queue) # "stop"
    <3>1. worker'.pc # "ended"
      BY <1>6, <2>1, <2>5, TaskOf DEF Take, NoTask, Messages, EventKinds
    <3>2. ASSUME stopping = "poisoned" PROVE queue' # <<>> /\ queue'[Len(queue')] = "stop"
      <4>1. queue[Len(queue)] = "stop"
        BY <2>1, <3>2 DEF StopTrue
      <4>2. Len(queue) # 1 /\ Len(queue') \in 1 .. Len(queue')
        BY <2>2, <2>5, <4>1
      <4>3. queue'[Len(queue')] = queue[Len(queue)]
        BY <2>2, <4>2
      <4> QED  BY <2>9, <4>1, <4>2, <4>3
    <3> QED  BY <1>6, <2>3, <3>1, <3>2 DEF Take, StopTrue
  <2> QED  BY <2>4, <2>5
<1>7. CASE UpdateStatus
  BY <1>7 DEF UpdateStatus, StopTrue, NoTask, IngestionTypeOK
<1>8. CASE RecordEvent
  BY <1>8 DEF RecordEvent, StopTrue, NoTask
<1>9. CASE RefuseMessages \/ PoisonTimesOut
  BY <1>9 DEF RefuseMessages, PoisonTimesOut, StopTrue
<1>10. CASE Poison
  <2>1. /\ \A i \in 1 .. Len(queue) : queue[i] # "stop"
        /\ worker.pc # "ended"
    BY <1>10 DEF Poison, StopTrue
  <2>2. /\ queue' = Append(queue, "stop") /\ Len(queue') = Len(queue) + 1
        /\ queue'[Len(queue) + 1] = "stop" /\ queue' # <<>>
        /\ \A i \in 1 .. Len(queue) : queue'[i] = queue[i]
        /\ \A i \in 1 .. Len(queue') : i \in 1 .. Len(queue) \/ i = Len(queue')
    BY <1>0, <1>10, KindsOf, AppendAt DEF Poison
  <2> QED  BY <1>10, <2>1, <2>2 DEF Poison, StopTrue
<1>11. CASE UNCHANGED ingestion
  BY <1>11 DEF ingestion, StopTrue
<1> QED  BY <1>1, <1>2, <1>3, <1>4, <1>5, <1>6, <1>7, <1>8, <1>9, <1>10, <1>11 DEF IngestionNext

\* The newest status, on its way from the device to the cache.
LEMMA NewestStep ==
    ASSUME IngestionTypeOK, WorkerTrue, StopTrue, NewestTrue, [IngestionNext]_ingestion
    PROVE  NewestTrue'
<1> USE DEF broker, network
<1>0. /\ inbox \in Seq(Messages) /\ queue \in Seq(Messages) /\ retained \in Statuses
      /\ None \notin Statuses /\ Statuses \subseteq Messages
  BY KindsOf, SizeTypes DEF IngestionTypeOK
<1>1. CASE StatusChanges
  <2>1. Other(retained) \in Statuses
    BY <1>0, OtherStatus
  <2>2. connected => LastStatus(inbox', retained') /\ ~Plain(inbox')
    BY <1>0, <1>1, <2>1, LastAppend DEF StatusChanges
  <2> QED  BY <1>1, <2>2 DEF StatusChanges, NewestTrue
<1>2. ASSUME NEW m \in {"state", "outage"}, Report(m) PROVE NewestTrue'
  <2>1. m \in Messages /\ m \notin Statuses
    BY KindsOf
  <2>2. /\ inbox' = Append(inbox, m)
        /\ UNCHANGED <<retained, connected, receiving, queue, worker, cached, missed>>
    BY <1>2 DEF Report
  <2>3. /\ Plain(inbox') <=> Plain(inbox)
        /\ LastStatus(inbox, retained) => LastStatus(inbox', retained)
    BY <1>0, <2>1, <2>2, LastAppend
  <2> QED  BY <2>2, <2>3 DEF NewestTrue
<1>3. CASE OnConnect
  BY <1>0, <1>3, OneStatus DEF OnConnect, NewestTrue
<1>4. CASE OnDisconnect \/ StopNetwork
  BY <1>4 DEF OnDisconnect, StopNetwork, NewestTrue
<1>5. CASE Receive
  <2>1. SUFFICES ASSUME connected PROVE NewestTrue'
    BY <1>5 DEF Receive, NewestTrue
  <2>2. accepting
    BY <2>1 DEF StopTrue, IngestionTypeOK
  <2>3. /\ inbox # <<>> /\ inbox' = Tail(inbox) /\ receiving = None /\ receiving' = Head(inbox)
        /\ UNCHANGED <<retained, connected, queue, worker, cached, missed>>
    BY <1>5, <2>2 DEF Receive
  <2>4. /\ Plain(inbox) <=> Plain(inbox') /\ Head(inbox) \notin Statuses
        /\ LastStatus(inbox', retained)
        /\ Plain(inbox') /\ Head(inbox) \in Statuses => Head(inbox) = retained
    BY <1>0, <2>1, <2>3, LastTail DEF NewestTrue
  <2> QED  BY <1>0, <2>1, <2>3, <2>4 DEF NewestTrue
<1>6. CASE Enqueue
  <2>1. SUFFICES ASSUME connected PROVE NewestTrue'
    BY <1>6 DEF Enqueue, NewestTrue
  <2>2. receiving \in Messages /\ receiving' = None
        /\ UNCHANGED <<retained, connected, inbox, worker, cached>>
    BY <1>6 DEF Enqueue, IngestionTypeOK
  <2>3. CASE HasRoom
    <3>1. queue' = Append(queue, receiving) /\ (receiving \in Statuses \/ missed' = missed)
      BY <1>6, <2>3 DEF Enqueue
    <3>2. CASE receiving \in Statuses
      <4>1. Plain(inbox) => LastStatus(queue', retained)
        BY <1>0, <2>1, <2>2, <3>1, <3>2, LastAppend DEF NewestTrue
      <4>2. ~Plain(queue')
        BY <1>0, <2>2, <3>1, <3>2, LastAppend
      <4> QED  BY <1>0, <2>1, <2>2, <4>1, <4>2 DEF NewestTrue
    <3>3. CASE receiving \notin Statuses
      <4>1. /\ Plain(queue') <=> Plain(queue)
            /\ LastStatus(queue, retained) => LastStatus(queue', retained)
        BY <1>0, <2>2, <3>1, <3>3, LastAppend
      <4> QED  BY <1>0, <2>1, <2>2, <3>1, <3>3, <4>1 DEF NewestTrue
    <3> QED  BY <3>2, <3>3
  <2>4. CASE ~HasRoom
    <3>1. queue' = queue /\ missed' = IF receiving \in Statuses THEN TRUE ELSE missed
      BY <1>6, <2>4 DEF Enqueue
    <3> QED  BY <1>0, <2>1, <2>2, <3>1 DEF NewestTrue
  <2> QED  BY <2>3, <2>4
<1>7. CASE Take
  <2>1. /\ worker.pc = "idle" /\ queue # <<>> /\ queue' = Tail(queue)
        /\ worker' = TaskFor(Head(queue)) /\ Head(queue) \in Messages
        /\ UNCHANGED <<retained, connected, inbox, receiving, cached, missed>>
    BY <1>0, <1>7, TailAt DEF Take
  <2>2. /\ Plain(queue) <=> Plain(queue') /\ Head(queue) \notin Statuses
        /\ LastStatus(queue, retained) => LastStatus(queue', retained)
        /\ LastStatus(queue, retained) /\ Plain(queue') /\ Head(queue) \in Statuses
                => Head(queue) = retained
    BY <1>0, <2>1, LastTail
  <2>3. CASE Head(queue) \in Statuses
    <3>1. worker'.pc = "handling" /\ worker'.about = Head(queue)
      BY <2>1, <2>3, TaskOf
    <3> QED  BY <2>1, <2>2, <2>3, <3>1 DEF NewestTrue
  <2>4. CASE Head(queue) \notin Statuses
    <3>1. worker'.pc # "handling"
      BY <2>1, <2>4, TaskOf DEF NoTask, Messages, EventKinds
    <3> QED  BY <2>1, <2>2, <2>4, <3>1 DEF NewestTrue
  <2> QED  BY <2>3, <2>4
<1>8. CASE UpdateStatus
  <2>1. /\ worker.pc = "handling" /\ cached' = worker.about /\ worker'.pc # "handling"
        /\ UNCHANGED <<retained, connected, inbox, receiving, queue, missed>>
    BY <1>8 DEF UpdateStatus, NewStatus, NoTask, IngestionTypeOK
  <2> QED  BY <2>1 DEF NewestTrue
<1>9. CASE RecordEvent
  <2>1. /\ worker.pc # "handling" /\ worker'.pc # "handling"
        /\ UNCHANGED <<retained, connected, inbox, receiving, queue, cached, missed>>
    BY <1>9 DEF RecordEvent, NoTask
  <2> QED  BY <2>1 DEF NewestTrue
<1>10. CASE RefuseMessages \/ PoisonTimesOut \/ Poison
  <2>1. /\ ~connected /\ UNCHANGED connected
    BY <1>10 DEF RefuseMessages, PoisonTimesOut, Poison, StopTrue
  <2> QED  BY <2>1 DEF NewestTrue
<1>11. CASE UNCHANGED ingestion
  BY <1>11 DEF ingestion, NewestTrue
<1> QED  BY <1>1, <1>2, <1>3, <1>4, <1>5, <1>6, <1>7, <1>8, <1>9, <1>10, <1>11 DEF IngestionNext

\* The events about statuses are changes of the device.
LEMMA AgesStep ==
    ASSUME IngestionTypeOK, WorkerTrue, StatusesAged, [IngestionNext]_ingestion
    PROVE  StatusesAged'
<1> USE DEF broker, network
<1>0. /\ inbox \in Seq(Messages) /\ queue \in Seq(Messages) /\ retained \in Statuses
      /\ None \notin Statuses /\ receiving \in Messages \cup {None}
      /\ cached \in Statuses \cup {None}
      /\ events \in [EventKinds -> Nat] /\ changes \in [EventKinds -> Nat]
      /\ Statuses \subseteq EventKinds
      /\ worker \in [pc: {"idle", "handling", "recording", "ended"}, about: EventKinds \cup {None}]
  BY KindsOf, SizeTypes DEF IngestionTypeOK
<1>1. PICK last \in Nat, task \in Nat, received \in Nat : AgesTrue(last, task, received)
  BY DEF StatusesAged
<1>2. /\ received <= task /\ task <= last
      /\ HasAges(queue, task, received, retained)
      /\ HasAges(inbox, received, 0, retained)
      /\ receiving \in Statuses => receiving = StatusOf(received, retained)
      /\ worker.pc = "handling" => worker.about = StatusOf(task, retained)
      /\ cached # None => cached = StatusOf(last, retained)
      /\ \A k \in Statuses : events[k] + Due(k) + Turns(k, last, retained) <= changes[k]
  BY <1>1 DEF AgesTrue
<1>3. \A k \in Statuses : /\ events[k] \in Nat /\ changes[k] \in Nat /\ Due(k) \in {0, 1}
                          /\ Turns(k, last, retained) \in Nat
  BY <1>0, TurnsNat DEF Due
<1>4. CASE StatusChanges
  <2> DEFINE r == Other(retained)
  <2>1. r \in Statuses /\ r \in Messages /\ r # retained
    BY <1>0, OtherStatus, KindsOf
  <2>2. /\ retained' = r /\ changes' = [changes EXCEPT ![r] = @ + 1]
        /\ inbox' \in {inbox, Append(inbox, r)}
        /\ UNCHANGED <<queue, receiving, worker, cached, events>>
    BY <1>4 DEF StatusChanges
  <2> HIDE DEF r
  <2>3. \A n \in Nat : StatusOf(n + 1, r) = StatusOf(n, retained)
    BY <1>0, StatusOlder DEF r
  <2>9. StatusOf(0, r) = r
    BY DEF StatusOf
  <2>4. HasAges(queue', task + 1, received + 1, r)
    BY <1>0, <1>2, <2>2, AgesOlder DEF r
  <2>5. HasAges(inbox, received + 1, 0 + 1, r)
    BY <1>0, <1>2, AgesOlder DEF r
  <2>6. HasAges(inbox', received + 1, 0, r)
    <3>1. HasAges(Append(inbox, r), received + 1, 0, r)
      BY <1>0, <2>1, <2>5, <2>9, AgesAppend
    <3>2. HasAges(inbox, received + 1, 0, r)
      BY <1>0, <2>5, AgesBetween
    <3> QED  BY <2>2, <3>1, <3>2
  <2>7. ASSUME NEW k \in Statuses
        PROVE  events'[k] + Due(k)' + Turns(k, last + 1, r) <= changes'[k]
    <3>1. Turns(k, last + 1, r) = Turns(k, last, retained) + (IF k = r THEN 1 ELSE 0)
      BY <1>0, TurnsOlder DEF r
    <3>2. Due(k)' = Due(k) /\ events'[k] = events[k]
      BY <2>2 DEF Due
    <3>3. changes'[k] = changes[k] + (IF k = r THEN 1 ELSE 0)
      BY <1>0, <1>3, <2>1, <2>2
    <3> QED  BY <1>2, <1>3, <3>1, <3>2, <3>3
  <2>10. /\ receiving' \in Statuses => receiving' = StatusOf(received + 1, r)
         /\ worker'.pc = "handling" => worker'.about = StatusOf(task + 1, r)
         /\ cached' # None => cached' = StatusOf(last + 1, r)
    BY <1>2, <2>2, <2>3
  <2>11. received + 1 <= task + 1 /\ task + 1 <= last + 1
    BY <1>2
  <2>8. AgesTrue(last + 1, task + 1, received + 1)'
    BY <2>2, <2>4, <2>6, <2>7, <2>10, <2>11 DEF AgesTrue
  <2> QED  BY <2>8 DEF StatusesAged
<1>5. ASSUME NEW m \in {"state", "outage"}, Report(m) PROVE StatusesAged'
  <2>1. /\ inbox' = Append(inbox, m) /\ \A k \in Statuses : changes'[k] = changes[k]
        /\ UNCHANGED <<retained, queue, receiving, worker, cached, events>>
    BY <1>0, <1>5, KindsOf DEF Report
  <2>2. HasAges(inbox', received, 0, retained)
    BY <1>0, <1>2, <2>1, AgesAppend, KindsOf
  <2>3. AgesTrue(last, task, received)'
    BY <1>2, <2>1, <2>2 DEF AgesTrue, Due
  <2> QED  BY <2>3 DEF StatusesAged
<1>6. CASE OnConnect
  <2>1. /\ inbox' = <<retained>> /\ cached' = None
        /\ UNCHANGED <<retained, queue, receiving, worker, events, changes>>
    BY <1>6 DEF OnConnect
  <2>2. HasAges(<<retained>>, received, 0, retained)
    <3>1. PICK a \in [1 .. Len(<<retained>>) -> Nat] : Aged(<<retained>>, a, 0, 0, retained)
      BY <1>0, OneStatus DEF HasAges
    <3>2. Aged(<<retained>>, a, received, 0, retained)
      BY <3>1 DEF Aged
    <3> QED  BY <3>2 DEF HasAges
  <2>3. AgesTrue(last, task, received)'
    BY <1>2, <2>1, <2>2 DEF AgesTrue, Due
  <2> QED  BY <2>3 DEF StatusesAged
<1>7. CASE OnDisconnect \/ StopNetwork
  <2>1. /\ inbox' = <<>> /\ cached' = None
        /\ UNCHANGED <<retained, queue, receiving, worker, events, changes>>
    BY <1>7 DEF OnDisconnect, StopNetwork
  <2>2. AgesTrue(last, task, received)'
    BY <1>2, <2>1, NoAges DEF AgesTrue, Due
  <2> QED  BY <2>2 DEF StatusesAged
<1>8. CASE Receive
  <2>1. /\ inbox # <<>> /\ inbox' = Tail(inbox) /\ receiving' \in {Head(inbox), None}
        /\ UNCHANGED <<retained, queue, worker, cached, events, changes>>
    BY <1>8 DEF Receive
  <2>2. PICK n \in Nat : /\ 0 <= n /\ n <= received
                         /\ HasAges(Tail(inbox), n, 0, retained)
                         /\ Head(inbox) \in Statuses => Head(inbox) = StatusOf(n, retained)
    BY <1>0, <1>2, <2>1, AgesTail
  <2>3. HasAges(queue, task, n, retained)
    BY <1>0, <1>2, <2>2, AgesBetween
  <2>4. AgesTrue(last, task, n)'
    BY <1>0, <1>2, <2>1, <2>2, <2>3 DEF AgesTrue, Due
  <2> QED  BY <2>4 DEF StatusesAged
<1>9. CASE Enqueue
  <2>1. /\ receiving \in Messages /\ receiving' = None
        /\ queue' \in {queue, Append(queue, receiving)}
        /\ UNCHANGED <<retained, inbox, worker, cached, events, changes>>
    BY <1>0, <1>9 DEF Enqueue
  <2>2. HasAges(queue', task, received, retained)
    <3>1. HasAges(Append(queue, receiving), task, received, retained)
      BY <1>0, <1>2, <2>1, AgesAppend
    <3> QED  BY <1>2, <2>1, <3>1
  <2>3. AgesTrue(last, task, received)'
    BY <1>0, <1>2, <2>1, <2>2 DEF AgesTrue, Due
  <2> QED  BY <2>3 DEF StatusesAged
<1>10. CASE Take
  <2>1. /\ worker.pc = "idle" /\ queue # <<>> /\ queue' = Tail(queue)
        /\ Head(queue) \in Messages
        /\ worker' = TaskFor(Head(queue))
        /\ UNCHANGED <<retained, inbox, receiving, cached, events, changes>>
    BY <1>0, <1>10, TailAt DEF Take
  <2>2. PICK n \in Nat : /\ received <= n /\ n <= task
                         /\ HasAges(Tail(queue), n, received, retained)
                         /\ Head(queue) \in Statuses => Head(queue) = StatusOf(n, retained)
    BY <1>0, <1>2, <2>1, AgesTail
  <2>3. /\ worker'.pc = "handling" => worker'.about = StatusOf(n, retained)
        /\ \A k \in Statuses : Due(k)' = 0
    <3>1. CASE Head(queue) \in Statuses
      BY <2>1, <2>2, <3>1, TaskOf DEF Due
    <3>2. CASE Head(queue) = "outage"
      BY <2>1, <3>2, TaskOf, KindsOf DEF Due
    <3>3. CASE Head(queue) \in {"state", "stop"}
      BY <2>1, <3>3, TaskOf DEF Due, NoTask
    <3> QED  BY <2>1, <3>1, <3>2, <3>3 DEF Messages, EventKinds
  <2>4. \A k \in Statuses : Due(k) = 0
    BY <2>1 DEF Due
  <2>5. n <= last
    BY <1>2, <2>2
  <2>6. AgesTrue(last, n, received)'
    BY <1>2, <2>1, <2>2, <2>3, <2>4, <2>5 DEF AgesTrue
  <2> QED  BY <2>6 DEF StatusesAged
<1>11. CASE UpdateStatus
  <2>1. /\ worker.pc = "handling" /\ worker.about \in Statuses /\ cached' = worker.about
        /\ worker' = IF cached # None /\ cached # worker.about
                     THEN [worker EXCEPT !.pc = "recording"] ELSE NoTask
        /\ UNCHANGED <<retained, inbox, receiving, queue, events, changes>>
    BY <1>11 DEF UpdateStatus, NewStatus, IsEvent, WorkerTrue
  <2>2. worker'.pc # "handling" /\ \A k \in Statuses : Due(k) = 0
    BY <1>0, <2>1 DEF NoTask, Due
  <2>3. ASSUME NEW k \in Statuses
        PROVE  events[k] + Due(k)' + Turns(k, task, retained) <= changes[k]
    <3>1. /\ Turns(k, task, retained) \in Nat
          /\ Turns(k, task, retained) <= Turns(k, last, retained)
          /\ StatusOf(task, retained) = k /\ StatusOf(last, retained) # k
                => Turns(k, task, retained) + 1 <= Turns(k, last, retained)
      BY <1>0, <1>2, TurnsYounger
    <3>2. CASE cached # None /\ cached # worker.about /\ worker.about = k
      <4>1. Due(k)' \in {0, 1}
        BY DEF Due
      <4> QED  BY <1>2, <1>3, <2>1, <2>2, <3>1, <3>2, <4>1
    <3>3. CASE ~(cached # None /\ cached # worker.about /\ worker.about = k)
      <4>1. Due(k)' = 0
        BY <1>0, <2>1, <3>3 DEF Due, NoTask
      <4> QED  BY <1>2, <1>3, <2>2, <3>1, <4>1
    <3> QED  BY <3>2, <3>3
  <2>4. AgesTrue(task, task, received)'
    BY <1>2, <2>1, <2>2, <2>3 DEF AgesTrue
  <2> QED  BY <2>4 DEF StatusesAged
<1>12. CASE RecordEvent
  <2>1. /\ worker.pc = "recording" /\ worker.about \in EventKinds /\ worker' = NoTask
        /\ events' \in {events, [events EXCEPT ![worker.about] = @ + 1]}
        /\ UNCHANGED <<retained, inbox, receiving, queue, cached, changes>>
    BY <1>12 DEF RecordEvent, WorkerTrue
  <2>6. events' \in [EventKinds -> Nat]
    <3>1. events[worker.about] + 1 \in Nat
      BY <1>0, <2>1
    <3>2. [events EXCEPT ![worker.about] = @ + 1] \in [EventKinds -> Nat]
      BY <1>0, <3>1
    <3> QED  BY <1>0, <2>1, <3>2
  <2>2. ASSUME NEW k \in Statuses PROVE events'[k] + Due(k)' <= events[k] + Due(k)
    <3>1. Due(k)' = 0 /\ Due(k) = IF worker.about = k THEN 1 ELSE 0
      BY <2>1 DEF Due, NoTask
    <3>2. events'[k] <= events[k] + IF worker.about = k THEN 1 ELSE 0
      BY <1>0, <1>3, <2>1
    <3>3. events'[k] \in Nat
      BY <1>0, <1>3, <2>1, <2>6
    <3> QED  BY <1>3, <3>1, <3>2, <3>3
  <2>3. \A k \in Statuses : events'[k] \in Nat /\ Due(k)' \in {0, 1}
    BY <1>0, <2>6 DEF Due
  <2>4. \A k \in Statuses : events'[k] + Due(k)' + Turns(k, last, retained) <= changes[k]
    BY <1>2, <1>3, <2>2, <2>3
  <2>5. AgesTrue(last, task, received)'
    BY <1>2, <2>1, <2>4 DEF AgesTrue, NoTask
  <2> QED  BY <2>5 DEF StatusesAged
<1>13. CASE Poison
  <2>1. /\ queue' = Append(queue, "stop")
        /\ UNCHANGED <<retained, inbox, receiving, worker, cached, events, changes>>
    BY <1>13 DEF Poison
  <2>2. HasAges(queue', task, received, retained)
    BY <1>0, <1>2, <2>1, AgesAppend, KindsOf
  <2>3. AgesTrue(last, task, received)'
    BY <1>2, <2>1, <2>2 DEF AgesTrue, Due
  <2> QED  BY <2>3 DEF StatusesAged
<1>14. CASE RefuseMessages \/ PoisonTimesOut \/ UNCHANGED ingestion
  <2>1. UNCHANGED <<retained, inbox, receiving, queue, worker, cached, events, changes>>
    BY <1>14 DEF RefuseMessages, PoisonTimesOut, ingestion
  <2>2. AgesTrue(last, task, received)'
    BY <1>2, <2>1 DEF AgesTrue, Due
  <2> QED  BY <2>2 DEF StatusesAged
<1> QED  BY <1>4, <1>5, <1>6, <1>7, <1>8, <1>9, <1>10, <1>11, <1>12, <1>13, <1>14 DEF IngestionNext

\* The events about outages are outages of the device.
LEMMA CountsStep ==
    ASSUME IngestionTypeOK, WorkerTrue, OutagesCounted, [IngestionNext]_ingestion
    PROVE  OutagesCounted'
<1> USE DEF broker, network
<1>0. /\ inbox \in Seq(Messages) /\ queue \in Seq(Messages) /\ retained \in Statuses
      /\ receiving \in Messages \cup {None} /\ One(None) = 0 /\ "outage" \in EventKinds
      /\ events["outage"] \in Nat /\ changes["outage"] \in Nat
      /\ Due("outage") \in {0, 1} /\ One(receiving) \in {0, 1}
  BY KindsOf, OneType, SizeTypes DEF IngestionTypeOK, One, Due
<1>1. PICK taken \in Nat, received \in Nat : CountsTrue(taken, received)
  BY DEF OutagesCounted
<1>2. /\ received + One(receiving) <= taken
      /\ HasCounts(queue, taken, received + One(receiving))
      /\ HasCounts(inbox, received, 0)
      /\ events["outage"] + Due("outage") + taken <= changes["outage"]
  BY <1>1 DEF CountsTrue
<1>3. ASSUME NEW m \in Messages, m # "outage", inbox' \in {inbox, Append(inbox, m)},
             UNCHANGED <<queue, receiving, worker, events>>, changes'["outage"] = changes["outage"]
      PROVE  OutagesCounted'
  <2>1. One(m) = 0
    BY <1>3 DEF One
  <2>2. HasCounts(inbox', received, 0)
    <3>1. 0 + One(m) <= 0 /\ 0 + One(m) <= received
      BY <2>1
    <3>2. HasCounts(Append(inbox, m), received, 0)
      BY <1>0, <1>2, <3>1, CountsAppend
    <3> QED  BY <1>2, <1>3, <3>2
  <2>3. CountsTrue(taken, received)'
    BY <1>2, <1>3, <2>2 DEF CountsTrue, Due
  <2> QED  BY <2>3 DEF OutagesCounted
<1>4. CASE StatusChanges
  <2>1. /\ Other(retained) \in Statuses /\ Other(retained) \in Messages
        /\ Other(retained) # "outage"
    BY <1>0, OtherStatus, KindsOf
  <2>2. changes'["outage"] = changes["outage"]
    BY <1>0, <1>4, <2>1 DEF StatusChanges, IngestionTypeOK
  <2> QED  BY <1>3, <1>4, <2>1, <2>2 DEF StatusChanges
<1>5. CASE Report("state")
  BY <1>3, <1>5, KindsOf DEF Report
<1>6. CASE Report("outage")
  <2>1. /\ inbox' = Append(inbox, "outage") /\ changes'["outage"] = changes["outage"] + 1
        /\ UNCHANGED <<queue, receiving, worker, events>>
    BY <1>0, <1>6 DEF Report, IngestionTypeOK
  <2>2. received + One(receiving) \in Nat /\ One("outage") = 1
    BY <1>0 DEF One
  <2>3. HasCounts(queue, taken + 1, (received + One(receiving)) + 1)
    BY <1>0, <1>2, <2>2, CountsMore
  <2>4. HasCounts(inbox, received + 1, 0 + 1)
    BY <1>0, <1>2, CountsMore
  <2>5. HasCounts(inbox', received + 1, 0)
    BY <1>0, <2>1, <2>2, <2>4, CountsAppend, KindsOf
  <2>6. (received + One(receiving)) + 1 = (received + 1) + One(receiving)
    BY <1>0
  <2>7. HasCounts(queue', taken + 1, (received + 1) + One(receiving'))
    BY <2>1, <2>3, <2>6
  <2>8. CountsTrue(taken + 1, received + 1)'
    BY <1>0, <1>2, <2>1, <2>5, <2>7 DEF CountsTrue, Due
  <2> QED  BY <2>8 DEF OutagesCounted
<1>7. CASE OnConnect
  <2>1. inbox' = <<retained>> /\ UNCHANGED <<queue, receiving, worker, events, changes>>
    BY <1>7 DEF OnConnect
  <2>2. HasCounts(<<retained>>, received, 0)
    <3>1. PICK a \in [1 .. Len(<<retained>>) -> Nat] : Counted(<<retained>>, a, 0, 0)
      BY <1>0, OneStatus DEF HasCounts
    <3>2. Counted(<<retained>>, a, received, 0)
      BY <3>1, OneType DEF Counted
    <3> QED  BY <3>2 DEF HasCounts
  <2>3. CountsTrue(taken, received)'
    BY <1>2, <2>1, <2>2 DEF CountsTrue, Due
  <2> QED  BY <2>3 DEF OutagesCounted
<1>8. CASE OnDisconnect \/ StopNetwork
  <2>1. inbox' = <<>> /\ UNCHANGED <<queue, receiving, worker, events, changes>>
    BY <1>8 DEF OnDisconnect, StopNetwork
  <2>2. CountsTrue(taken, received)'
    BY <1>2, <2>1, NoAges DEF CountsTrue, Due
  <2> QED  BY <2>2 DEF OutagesCounted
<1>9. CASE Receive
  <2>1. /\ inbox # <<>> /\ inbox' = Tail(inbox) /\ receiving' \in {Head(inbox), None}
        /\ UNCHANGED <<queue, worker, events, changes>>
    BY <1>9 DEF Receive
  <2>2. PICK n \in Nat : n + One(Head(inbox)) <= received /\ HasCounts(Tail(inbox), n, 0)
    BY <1>0, <1>2, <2>1, CountsTail
  <2>3. /\ One(receiving') \in {0, 1} /\ One(Head(inbox)) \in {0, 1}
        /\ One(receiving') <= One(Head(inbox))
    BY <1>0, <2>1, OneType
  <2>4. n + One(receiving') \in Nat /\ n + One(receiving') <= received + One(receiving)
    BY <1>0, <2>2, <2>3
  <2>5. HasCounts(queue, taken, n + One(receiving'))
    <3>1. received + One(receiving) \in Nat
      BY <1>0
    <3> QED  BY <1>0, <1>2, <2>4, <3>1, CountsBetween
  <2>6. n + One(receiving') <= taken
    BY <1>0, <1>2, <2>4
  <2>7. CountsTrue(taken, n)'
    BY <1>2, <2>1, <2>2, <2>5, <2>6 DEF CountsTrue, Due
  <2> QED  BY <2>7 DEF OutagesCounted
<1>10. CASE Enqueue
  <2>1. /\ receiving \in Messages /\ receiving' = None
        /\ queue' \in {queue, Append(queue, receiving)}
        /\ UNCHANGED <<inbox, worker, events, changes>>
    BY <1>0, <1>10 DEF Enqueue
  <2>2. HasCounts(Append(queue, receiving), taken, received)
    BY <1>0, <1>2, <2>1, CountsAppend
  <2>3. HasCounts(queue, taken, received)
    <3>1. received + One(receiving) \in Nat /\ received <= received + One(receiving)
      BY <1>0
    <3> QED  BY <1>0, <1>2, <3>1, CountsBetween
  <2>4. HasCounts(queue', taken, received + 0) /\ received + 0 <= taken
    <3>1. received + 0 = received /\ received <= taken
      BY <1>0, <1>2
    <3> QED  BY <2>1, <2>2, <2>3, <3>1
  <2>5. CountsTrue(taken, received)'
    BY <1>0, <1>2, <2>1, <2>4 DEF CountsTrue, Due
  <2> QED  BY <2>5 DEF OutagesCounted
<1>11. CASE Take
  <2>1. /\ worker.pc = "idle" /\ queue # <<>> /\ queue' = Tail(queue)
        /\ Head(queue) \in Messages
        /\ worker' = TaskFor(Head(queue)) /\ UNCHANGED <<inbox, receiving, events, changes>>
    BY <1>0, <1>11, TailAt DEF Take
  <2>2. PICK n \in Nat : /\ received + One(receiving) <= n /\ n + One(Head(queue)) <= taken
                         /\ HasCounts(Tail(queue), n, received + One(receiving))
    BY <1>0, <1>2, <2>1, CountsTail
  <2>3. Due("outage") = 0 /\ Due("outage")' = One(Head(queue))
    <3>1. CASE Head(queue) \in Statuses
      BY <2>1, <3>1, TaskOf, KindsOf DEF Due, One
    <3>2. CASE Head(queue) = "outage"
      BY <2>1, <3>2, TaskOf DEF Due, One
    <3>3. CASE Head(queue) \in {"state", "stop"}
      BY <2>1, <3>3, TaskOf DEF Due, One, NoTask
    <3> QED  BY <2>1, <3>1, <3>2, <3>3 DEF Messages, EventKinds
  <2>4. events["outage"] + One(Head(queue)) + n <= changes["outage"]
    BY <1>0, <1>2, <2>2, <2>3, OneType
  <2>5. CountsTrue(n, received)'
    BY <1>2, <2>1, <2>2, <2>3, <2>4 DEF CountsTrue
  <2> QED  BY <2>5 DEF OutagesCounted
<1>12. CASE UpdateStatus
  <2>1. /\ worker.pc = "handling" /\ worker.about \in Statuses
        /\ worker' \in {NoTask, [worker EXCEPT !.pc = "recording"]}
        /\ UNCHANGED <<inbox, receiving, queue, events, changes>>
    BY <1>12 DEF UpdateStatus, WorkerTrue
  <2>2. worker'.pc = "recording" => worker'.about # "outage"
    <3>1. worker' = [worker EXCEPT !.pc = "recording"] => worker'.about = worker.about
      BY DEF IngestionTypeOK
    <3> QED  BY <2>1, <3>1, KindsOf DEF NoTask
  <2>3. Due("outage") = 0 /\ Due("outage")' = 0
    BY <2>1, <2>2 DEF Due
  <2>4. CountsTrue(taken, received)'
    BY <1>2, <2>1, <2>3 DEF CountsTrue
  <2> QED  BY <2>4 DEF OutagesCounted
<1>13. CASE RecordEvent
  <2>1. /\ worker.pc = "recording" /\ worker.about \in EventKinds /\ worker' = NoTask
        /\ events' \in {events, [events EXCEPT ![worker.about] = @ + 1]}
        /\ UNCHANGED <<inbox, receiving, queue, changes>>
    BY <1>13 DEF RecordEvent, WorkerTrue
  <2>2. Due("outage")' = 0 /\ Due("outage") = IF worker.about = "outage" THEN 1 ELSE 0
    BY <2>1 DEF Due, NoTask
  <2>3. /\ events'["outage"] \in Nat
        /\ events'["outage"] <= events["outage"] + IF worker.about = "outage" THEN 1 ELSE 0
    BY <1>0, <2>1 DEF IngestionTypeOK
  <2>4. events'["outage"] + 0 + taken <= changes["outage"]
    BY <1>0, <1>2, <2>2, <2>3
  <2>5. CountsTrue(taken, received)'
    BY <1>2, <2>1, <2>2, <2>4 DEF CountsTrue
  <2> QED  BY <2>5 DEF OutagesCounted
<1>14. CASE Poison
  <2>1. queue' = Append(queue, "stop") /\ UNCHANGED <<inbox, receiving, worker, events, changes>>
    BY <1>14 DEF Poison
  <2>2. One("stop") = 0
    BY DEF One
  <2>3. HasCounts(queue', taken, received + One(receiving))
    <3> DEFINE n == received + One(receiving)
    <3>1. n \in Nat /\ n + One("stop") = n
      BY <1>0, <2>2
    <3> HIDE DEF n
    <3>2. n <= taken /\ HasCounts(queue, taken, n)
      BY <1>2 DEF n
    <3>3. n <= n /\ "stop" \in Messages
      BY <3>1, KindsOf
    <3>4. HasCounts(Append(queue, "stop"), taken, n)
      BY <1>0, <3>1, <3>2, <3>3, CountsAppend
    <3> QED  BY <2>1, <3>4 DEF n
  <2>4. CountsTrue(taken, received)'
    BY <1>2, <2>1, <2>3 DEF CountsTrue, Due
  <2> QED  BY <2>4 DEF OutagesCounted
<1>15. CASE RefuseMessages \/ PoisonTimesOut \/ UNCHANGED ingestion
  <2>1. UNCHANGED <<inbox, receiving, queue, worker, events, changes>>
    BY <1>15 DEF RefuseMessages, PoisonTimesOut, ingestion
  <2>2. CountsTrue(taken, received)'
    BY <1>2, <2>1 DEF CountsTrue, Due
  <2> QED  BY <2>2 DEF OutagesCounted
<1> QED  BY <1>4, <1>5, <1>6, <1>7, <1>8, <1>9, <1>10, <1>11, <1>12, <1>13, <1>14, <1>15 DEF IngestionNext
-----------------------------------------------------------------------------
(* The theorems about the ingestion.                                       *)

\* The invariant of connection, queue, worker and cache is inductive.
THEOREM StatusInvariant == IngestionSpec => []StatusInv
<1>1. IngestionInit => StatusInv
  <2> SUFFICES ASSUME IngestionInit PROVE StatusInv
    OBVIOUS
  <2> USE SizeTypes DEF IngestionInit
  <2>1. IngestionTypeOK /\ WorkerTrue
    <3>1. Len(queue) <= QUEUE_SIZE /\ 0 \in 0 .. MaxConnections /\ 0 \in 0 .. MaxReports
      BY Empty
    <3>2. worker \in [pc: {"idle", "handling", "recording", "ended"}, about: EventKinds \cup {None}]
      BY DEF NoTask
    <3>3. events \in [EventKinds -> Nat] /\ changes \in [EventKinds -> Nat]
      OBVIOUS
    <3> QED  BY <3>1, <3>2, <3>3, Empty DEF IngestionTypeOK, WorkerTrue, NoTask
  <2>2. StopTrue /\ NewestTrue
    BY Empty DEF StopTrue, NewestTrue, NoTask, Messages
  <2>3. AgesTrue(0, 0, 0)
    <3>1. \A k \in Statuses : /\ Turns(k, 0, retained) = 0 /\ Due(k) = 0
                              /\ events[k] = 0 /\ changes[k] = 0
      BY KindsOf DEF Turns, Due, NoTask
    <3>2. receiving \notin Statuses
      BY KindsOf, SizeTypes
    <3> QED  BY <3>1, <3>2, NoAges DEF AgesTrue, NoTask
  <2>4. CountsTrue(0, 0)
    <3>1. Due("outage") = 0 /\ One(receiving) = 0 /\ events["outage"] = 0 /\ changes["outage"] = 0
      BY KindsOf DEF Due, One, NoTask
    <3> QED  BY <3>1, NoAges DEF CountsTrue
  <2> QED  BY <2>1, <2>2, <2>3, <2>4 DEF StatusInv, StatusesAged, OutagesCounted
<1>2. StatusInv /\ [IngestionNext]_ingestion => StatusInv'
  BY TypeStep, StopStep, NewestStep, AgesStep, CountsStep DEF StatusInv
<1> QED  BY <1>1, <1>2, PTL DEF IngestionSpec

\* TypeOK: broker, connection, queue, worker and cache keep their shape.
THEOREM StatusTypeCorrect == IngestionSpec => []IngestionTypeOK
<1>1. StatusInv => IngestionTypeOK
  BY DEF StatusInv
<1> QED  BY <1>1, StatusInvariant, PTL

\* EventsAreChanges: no device_online, device_offline or network_outage event without
\* a change or an outage of the device, in spite of retained messages, reconnections and
\* messages of an earlier connection that are still queued.
THEOREM EventsCorrect == IngestionSpec => []EventsAreChanges
<1>1. StatusInv => EventsAreChanges
  <2> SUFFICES ASSUME StatusInv, NEW k \in EventKinds PROVE events[k] <= changes[k]
    BY DEF EventsAreChanges
  <2>1. events[k] \in Nat /\ changes[k] \in Nat /\ Due(k) \in {0, 1}
    BY DEF StatusInv, IngestionTypeOK, Due
  <2>2. CASE k \in Statuses
    <3>1. PICK last \in Nat, task \in Nat, received \in Nat : AgesTrue(last, task, received)
      BY DEF StatusInv, StatusesAged
    <3>2. Turns(k, last, retained) \in Nat
      BY <2>2, TurnsNat DEF StatusInv, IngestionTypeOK
    <3> QED  BY <2>1, <2>2, <3>1, <3>2 DEF AgesTrue
  <2>3. CASE k = "outage"
    BY <2>1, <2>3 DEF StatusInv, OutagesCounted, CountsTrue
  <2> QED  BY <2>2, <2>3, KindsOf
<1> QED  BY <1>1, StatusInvariant, PTL

\* When no status is on its way, the cache has the status of the device, unless the
\* queue had no room for it.
CacheTrue ==
    (/\ connected /\ ~missed
     /\ Plain(inbox) /\ receiving \notin Statuses /\ Plain(queue)
     /\ worker.pc # "handling")
        => cached = retained

\* _device_statuses ends up with the status of the device: what StatusRebuilt says of
\* the states in which every message was handled.
THEOREM CacheCorrect == IngestionSpec => []CacheTrue
<1>1. StatusInv => CacheTrue
  BY DEF StatusInv, NewestTrue, CacheTrue
<1> QED  BY <1>1, StatusInvariant, PTL

\* The thread that has ended leaves no message behind.
NothingLeft ==
    worker.pc = "ended" => queue = <<>> /\ inbox = <<>> /\ receiving = None /\ ~connected

\* _stop_ingestion_worker: what WorkerEnds says of the state in which the worker ended.
THEOREM StopCorrect == IngestionSpec => []NothingLeft
<1>1. StatusInv => NothingLeft
  BY DEF StatusInv, StopTrue, NothingLeft
<1> QED  BY <1>1, StatusInvariant, PTL
=============================================================================
