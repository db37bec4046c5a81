-------------------------- MODULE CommandDispatch ---------------------------
(***************************************************************************)
(* Commands to the devices: MqttManager.send_command and its callers, the  *)
(* table _pending_responses they share with the network thread, and the    *)
(* command events of the audit.  Every call runs in a thread of its own    *)
(* (a request or a recovery service); the network thread delivers answers  *)
(* by their request_id.  The wire may lose a command or an answer (QoS 0). *)
(* A device may answer late, twice, malformed, or with a request_id that   *)
(* is not its own: the code checks the contract and the topic.             *)
(***************************************************************************)
EXTENDS MqttManager

CONSTANTS
    Requests,       \* calls of send_command, by their request_id
    Devices,        \* devices, by their mqtt_device_id
    Mixes,          \* the calls made together: device and command of each
    MaxDrops,       \* model bound: losses of a connection
    MaxStrays       \* model bound: answers beyond the first of each command

ASSUME DispatchConstants ==
    /\ MaxDrops \in Nat /\ MaxStrays \in Nat
    /\ Mixes \subseteq [Requests -> [device: Devices,
            command: {"ping", "get_config", "get_history", "restart"}]]

VARIABLES
    status,         \* _device_statuses
    pc,             \* how far each call has come
    asked,          \* the device and the command each call is about
    pending,        \* _pending_responses: one entry per request_id, or None
    read,           \* the response the thread has read from its entry
    outcome,        \* how the call ends
    wire,           \* commands on their way, by request_id
    answers,        \* answers on their way
    did,            \* history: the result of the device that executed it
    audit,          \* command events recorded for each call
    drops, strays   \* for the bounds

link    == <<connected, status, drops>>
threads == <<pc, asked, read, outcome>>
device  == <<wire, did, strays>>
vars    == <<link, threads, pending, device, answers, audit>>

\* COMMAND_POLICIES, one command of each kind.
Policy ==
    [ping        |-> [action |-> "diagnostic",  critical |-> FALSE,
                      protected |-> FALSE, confirm |-> FALSE],
     get_config  |-> [action |-> "diagnostic",  critical |-> FALSE,
                      protected |-> TRUE,  confirm |-> FALSE],
     get_history |-> [action |-> "diagnostic",  critical |-> FALSE,
                      protected |-> TRUE,  confirm |-> FALSE],
     restart     |-> [action |-> "maintenance", critical |-> TRUE,
                      protected |-> TRUE,  confirm |-> TRUE]]

Commands == DOMAIN Policy

\* "other" is an ack whose data is not what the command asks for.
Valid   == {"ack", "other", "nack"}
Kinds   == Valid \cup {"malformed"}
Result(k) == IF k = "nack" THEN "nack" ELSE "ack"
Answers == [device: Devices, id: Requests, kind: Kinds]

\* The entry a call leaves in the table.
Entries   == [event: BOOLEAN, response: Valid \cup {None}, error: BOOLEAN]
NewEntry  == [event |-> FALSE, response |-> None, error |-> FALSE]

\* What a call ends with: the refusals, no usable answer, and the results.
Refused  == {"forbidden", "unconnected", "unavailable", "unsigned", "unpublished"}
Outcomes == Refused \cup {"timeout", "invalid", "ack", "nack"}

\* NULL is none of the values it stands beside.
ASSUME NoneIsNothing ==
    None \notin Devices \cup Statuses \cup Valid \cup Entries \cup Outcomes
                \cup {"refused", "unknown"}

InFlight == {"registered", "published", "waiting", "woken", "reading",
             "recording", "leaving"}

TypeOK ==
    /\ connected \in BOOLEAN /\ status \in [Devices -> Statuses \cup {None}]
    /\ pc \in [Requests -> {"idle", "called", "online?", "building", "done"} \cup InFlight]
    /\ asked \in Mixes
    /\ pending \in [Requests -> Entries \cup {None}]
    /\ read \in [Requests -> Valid \cup {None}]
    /\ outcome \in [Requests -> Outcomes \cup {None}]
    /\ wire \subseteq Requests /\ answers \subseteq Answers
    /\ did \in [Requests -> Valid \cup {None}]
    /\ audit \in [Requests -> Seq({"dispatched", "ack", "nack"})]
    /\ drops \in 0 .. MaxDrops /\ strays \in 0 .. MaxStrays

Init ==
    /\ connected = FALSE /\ status = [d \in Devices |-> None]
    /\ pc = [r \in Requests |-> "idle"]
    /\ asked \in Mixes
    /\ pending = [r \in Requests |-> None]
    /\ read = [r \in Requests |-> None]
    /\ outcome = [r \in Requests |-> None]
    /\ wire = {} /\ answers = {}
    /\ did = [r \in Requests |-> None]
    /\ audit = [r \in Requests |-> <<>>]
    /\ drops = 0 /\ strays = 0
-----------------------------------------------------------------------------
(* Connection and status, as the network thread and the worker set them.   *)

\* _on_disconnect: the statuses are forgotten, the pending table is not.  Answers on
\* their way are lost, and commands that have not reached the broker.
Disconnect ==
    /\ connected /\ drops < MaxDrops
    /\ connected' = FALSE /\ drops' = drops + 1
    /\ status' = [d \in Devices |-> None]
    /\ wire' \in SUBSET wire /\ answers' = {}
    /\ UNCHANGED <<threads, pending, did, strays, audit>>

\* _on_connect, and the retained statuses that follow.
Connect ==
    /\ ~connected
    /\ connected' = TRUE
    /\ status' = [d \in Devices |-> "online"]
    /\ UNCHANGED <<drops, threads, pending, device, answers, audit>>

\* The last will of a device arrives; the broker keeps what was sent to it.
GoesOffline(d) ==
    /\ status[d] = "online" /\ drops < MaxDrops
    /\ status' = [status EXCEPT ![d] = "offline"]
    /\ drops' = drops + 1
    /\ UNCHANGED <<connected, threads, pending, device, answers, audit>>
-----------------------------------------------------------------------------
(* The calling thread.                                                     *)

Goto(r, place) == pc' = [pc EXCEPT ![r] = place]

Fail(r, why, place) ==
    /\ outcome' = [outcome EXCEPT ![r] = why]
    /\ Goto(r, place)

\* The roles of device_authorization and the allowlist of the services.
RoleAllows(role, c) ==
    CASE role = "owner"   -> TRUE
      [] role = "service" -> c = "get_history"
      [] OTHER            -> FALSE

Permitted(role, c, confirmed) ==
    /\ RoleAllows(role, c)
    /\ Policy[c].confirm => role # "service" /\ confirmed

\* _send_owner_command, or a service, up to send_command: the caller's role and
\* the confirmation decide; a member may send no command at all.
Authorize(r) ==
    /\ pc[r] = "idle"
    /\ \E confirmed \in BOOLEAN, role \in {"owner", "member", "stranger", "service"} :
        IF Permitted(role, asked[r].command, confirmed)
        THEN Goto(r, "called") /\ UNCHANGED outcome
        ELSE Fail(r, "forbidden", "done")
    /\ UNCHANGED <<link, asked, pending, read, device, answers, audit>>

CheckConnected(r) ==
    /\ pc[r] = "called"
    /\ IF connected THEN Goto(r, "online?") /\ UNCHANGED outcome
       ELSE Fail(r, "unconnected", "done")
    /\ UNCHANGED <<link, asked, read, pending, device, answers, audit>>

\* get_device_status: unknown is not online.
CheckOnline(r) ==
    /\ pc[r] = "online?"
    /\ IF status[asked[r].device] = "online"
       THEN Goto(r, "building") /\ UNCHANGED outcome
       ELSE Fail(r, "unavailable", "done")
    /\ UNCHANGED <<link, asked, read, pending, device, answers, audit>>

\* build_authorized_command_payload: without the key of the device nothing is
\* registered and nothing is sent; a command of low risk needs no key.
Register(r) ==
    /\ pc[r] = "building"
    /\ \/ /\ pending' = [pending EXCEPT ![r] = NewEntry]
          /\ Goto(r, "registered") /\ UNCHANGED outcome
       \/ /\ Policy[asked[r].command].protected
          /\ Fail(r, "unsigned", "done") /\ UNCHANGED pending
    /\ UNCHANGED <<link, asked, read, device, answers, audit>>

\* Mutant of Publish: rc is looked at after the message has left.
PublishAnyway(r) ==
    /\ pc[r] = "registered"
    /\ connected
    /\ wire' = wire \cup {r}
    /\ \/ Goto(r, "published") /\ UNCHANGED outcome
       \/ Fail(r, "unpublished", "leaving")
    /\ UNCHANGED <<link, asked, read, pending, did, strays, answers, audit>>

\* client.publish with QoS 0: an error of publish means that nothing was sent.
Publish(r) ==
    /\ pc[r] = "registered"
    /\ \/ /\ connected
          /\ wire' = wire \cup {r}
          /\ Goto(r, "published") /\ UNCHANGED outcome
       \/ /\ Fail(r, "unpublished", "leaving") /\ UNCHANGED wire
    /\ UNCHANGED <<link, asked, read, pending, did, strays, answers, audit>>

\* _persist_device_event swallows an error of the database.
Recorded(r, event) ==
    audit' \in {audit, [audit EXCEPT ![r] = Append(@, event)]}

\* A critical command leaves a trace of its own before the wait.
RecordDispatch(r) ==
    /\ pc[r] = "published"
    /\ IF Policy[asked[r].command].critical THEN Recorded(r, "dispatched")
       ELSE UNCHANGED audit
    /\ Goto(r, "waiting")
    /\ UNCHANGED <<link, asked, read, outcome, pending, device, answers>>

\* event.wait(timeout).
WakeUp(r) ==
    /\ pc[r] = "waiting" /\ pending[r].event
    /\ Goto(r, "woken")
    /\ UNCHANGED <<link, asked, read, outcome, pending, device, answers, audit>>

\* Mutant of TimeOut: no timeout once the broker is gone.
TimeOutConnected(r) ==
    /\ connected
    /\ pc[r] = "waiting" /\ ~pending[r].event
    /\ Fail(r, "timeout", "leaving")
    /\ UNCHANGED <<link, asked, read, pending, device, answers, audit>>

TimeOut(r) ==
    /\ pc[r] = "waiting" /\ ~pending[r].event
    /\ Fail(r, "timeout", "leaving")
    /\ UNCHANGED <<link, asked, read, pending, device, answers, audit>>

\* contract_error is read without the lock; the network thread may still write.
CheckContract(r) ==
    /\ pc[r] = "woken"
    /\ IF pending[r].error THEN Fail(r, "invalid", "leaving")
       ELSE Goto(r, "reading") /\ UNCHANGED outcome
    /\ UNCHANGED <<link, asked, read, pending, device, answers, audit>>

\* pending["response"] and its checks.
ReadResponse(r) ==
    /\ pc[r] = "reading"
    /\ IF pending[r].response = None
       THEN Fail(r, "invalid", "leaving") /\ UNCHANGED read
       ELSE /\ read' = [read EXCEPT ![r] = pending[r].response]
            /\ Goto(r, "recording") /\ UNCHANGED outcome
    /\ UNCHANGED <<link, asked, pending, device, answers, audit>>

\* Mutant of AuditKind: the answer itself, and not its result.
AuditRaw(r) == read[r]

AuditKind(r) == Result(read[r])

RecordResult(r) ==
    /\ pc[r] = "recording"
    /\ Recorded(r, AuditKind(r))
    /\ Goto(r, "leaving")
    /\ UNCHANGED <<link, asked, read, outcome, pending, device, answers>>

\* What the caller is told of an answer; get_config checks the data as well.
ToldOf(r) ==
    IF asked[r].command = "get_config" /\ read[r] = "other" THEN "invalid"
    ELSE Result(read[r])

\* Mutant of Leave: the entry is removed only when the call succeeds.
LeaveOnSuccess(r) ==
    /\ pc[r] = "leaving"
    /\ IF outcome[r] = None
       THEN /\ outcome' = [outcome EXCEPT ![r] = ToldOf(r)]
            /\ pending' = [pending EXCEPT ![r] = None]
       ELSE UNCHANGED <<outcome, pending>>
    /\ Goto(r, "done")
    /\ UNCHANGED <<link, asked, read, device, answers, audit>>

\* The finally of send_command, and the answer of the route.
Leave(r) ==
    /\ pc[r] = "leaving"
    /\ pending' = [pending EXCEPT ![r] = None]
    /\ outcome' = IF outcome[r] = None THEN [outcome EXCEPT ![r] = ToldOf(r)]
                  ELSE outcome
    /\ read' = [read EXCEPT ![r] = None]
    /\ Goto(r, "done")
    /\ UNCHANGED <<link, asked, device, answers, audit>>
-----------------------------------------------------------------------------
(* The device and the wire, external to the code.                          *)

Answer(d, r, k) == [device |-> d, id |-> r, kind |-> k]

\* The device takes the command off the wire, executes or refuses it, and
\* answers, or not.  Nobody receives an answer while the connection is lost.
Execute(r) ==
    /\ r \in wire
    /\ wire' = wire \ {r}
    /\ \E k \in Valid :
        /\ k = "other" => asked[r].command = "get_config"
        /\ did' = [did EXCEPT ![r] = k]
        /\ \/ UNCHANGED answers
           \/ connected /\ answers' = answers \cup {Answer(asked[r].device, r, k)}
    /\ UNCHANGED <<link, threads, pending, strays, audit>>

\* A second answer of the same device, the same again or malformed, or an
\* answer of another device with this request_id.
Stray(d, r) ==
    /\ strays < MaxStrays /\ did[r] # None /\ connected
    /\ \E k \in Kinds :
        /\ k \in IF d = asked[r].device THEN {did[r], "malformed"} ELSE {"ack", "nack"}
        /\ answers' = answers \cup {Answer(d, r, k)}
    /\ strays' = strays + 1
    /\ UNCHANGED <<link, threads, pending, wire, did, audit>>
-----------------------------------------------------------------------------
(* The network thread.                                                     *)

\* Mutant of Awaited: the topic of the answer is not compared.
AwaitedAnywhere(a) == pending[a.id] # None

Awaited(a) == pending[a.id] # None /\ a.device = asked[a.id].device

\* validate_response_payload decides; a malformed answer leaves the response of
\* an earlier one in its entry, and a valid one leaves the error.
Written(entry, kind) ==
    IF kind = "malformed" THEN [entry EXCEPT !.event = TRUE, !.error = TRUE]
    ELSE [entry EXCEPT !.event = TRUE, !.response = kind]

\* The /response branch of _on_message, under _pending_lock: an answer nobody
\* waits for, or on another topic, is dropped.
Deliver(a) ==
    /\ a \in answers
    /\ answers' = answers \ {a}
    /\ pending' = IF Awaited(a)
                  THEN [pending EXCEPT ![a.id] = Written(@, a.kind)] ELSE pending
    /\ UNCHANGED <<link, threads, device, audit>>
-----------------------------------------------------------------------------
Thread(r) ==
    \/ CheckConnected(r) \/ CheckOnline(r) \/ Register(r) \/ Publish(r)
    \/ RecordDispatch(r) \/ WakeUp(r) \/ TimeOut(r) \/ CheckContract(r)
    \/ ReadResponse(r) \/ RecordResult(r) \/ Leave(r)

Next ==
    \/ Disconnect
    \/ Connect
    \/ \E d \in Devices : GoesOffline(d)
    \/ \E r \in Requests :
        \/ Authorize(r)
        \/ Thread(r)
        \/ Execute(r)
        \/ \E d \in Devices : Stray(d, r)
    \/ \E a \in answers : Deliver(a)

\* Every thread runs, and a wait ends by its timeout at the latest; nobody
\* must call, and neither the wire nor the device owes an answer.
Spec == Init /\ [][Next]_vars /\ \A r \in Requests : WF_vars(Thread(r))
-----------------------------------------------------------------------------
(* Correctness.                                                            *)

\* The promise to the caller, RemoteCall: at most one execution, a result only
\* when the addressed device gave it to this very command, and "refused" only
\* of a command that never runs (503, 409, 403: it may be sent again).
Given == [r \in Requests |-> IF did[r] = None THEN None ELSE Result(did[r])]

Heard(o) ==
    IF o = None THEN None
    ELSE IF o \in Refused THEN "refused"
    ELSE IF o \in {"ack", "nack"} THEN o ELSE "unknown"

Told == [r \in Requests |-> Heard(outcome[r])]

Remote == INSTANCE RemoteCall WITH Calls <- Requests, did <- Given, told <- Told

PromiseKept == Remote!Spec

\* The audit of a command: the dispatch of a critical command comes before its
\* result, there is one result, it is the one the device gave, and a caller is
\* told no other; a refused call leaves no trace of a dispatch.  "Invalid" is never
\* said of a sound answer alone: then the device did send something else than the
\* answer to the command.
AuditOf(r) ==
    /\ \A i \in DOMAIN audit[r] : audit[r][i] # "dispatched" =>
        /\ i = Len(audit[r])
        /\ did[r] # None /\ audit[r][i] = Result(did[r])
        /\ outcome[r] \in {None, audit[r][i], "invalid"}
    /\ outcome[r] \in Refused => audit[r] = <<>>
    /\ outcome[r] = "invalid" => strays > 0 \/ did[r] = "other"

\* Audit and caller agree with the device on every command (AuditOf).
AuditAgrees == \A r \in Requests : AuditOf(r)

\* No entry outlives its call, on any of its ways out, and a waiting thread
\* has its entry.
TableIsCalls == \A r \in Requests : pending[r] # None <=> pc[r] \in InFlight

\* Every call ends, also when the command, the answer or the connection is lost.
CallsEnd == \A r \in Requests : pc[r] = "called" ~> pc[r] = "done"
=============================================================================
