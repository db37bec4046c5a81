--------------------------- MODULE MqttIngestion ---------------------------
(***************************************************************************)
(* How the status of one device reaches MqttManager: the broker and its    *)
(* retained status message, the network thread that enqueues what it       *)
(* receives, the bounded queue, the ingestion worker that keeps            *)
(* _device_statuses and records the events device_online, device_offline   *)
(* and network_outage, the loss and recovery of the broker connection, and *)
(* stop().                                                                 *)
(*                                                                         *)
(* The network thread clears the statuses when the connection changes; the *)
(* worker runs on its own and may be in the middle of an older message.    *)
(***************************************************************************)
EXTENDS MqttManager

CONSTANTS
    QUEUE_SIZE,     \* MQTT_INGESTION_QUEUE_SIZE
    MaxConnections, MaxChanges, MaxReports      \* model bounds

ASSUME IngestionConstants ==
    /\ QUEUE_SIZE \in Nat \ {0}
    /\ MaxConnections \in Nat /\ MaxChanges \in Nat /\ MaxReports \in Nat
    /\ None \notin {"online", "offline", "outage", "state", "stop"}

VARIABLES
    retained,       \* the device's retained status at the broker
    connection,     \* connections made so far
    inbox,          \* messages on their way from the broker, oldest first
    receiving,      \* message the network thread is about to enqueue
    queue,          \* _ingestion_queue
    accepting,      \* _ingestion_accepting
    worker,         \* what the ingestion worker is doing
    cached,         \* _device_statuses of the device
    missed,         \* history: the last status of this connection was dropped
    events,         \* events recorded, by kind
    changes,        \* history: changes and outages of the device, by kind
    reports,        \* states and outages published, for the bound
    stopping        \* how far stop() has come

broker    == <<retained, changes, reports>>
network   == <<connection, connected, inbox, receiving>>
ingestion == <<broker, network, queue, accepting, worker, cached, missed, events,
               stopping>>

EventKinds == Statuses \cup {"outage"}

\* A status, an outage that the device reports when it is back, a state that only
\* takes up room, or the None that ends the worker.
Messages == EventKinds \cup {"state", "stop"}

NoTask == [pc |-> "idle", about |-> None]

IngestionTypeOK ==
    /\ retained \in Statuses
    /\ connection \in 0 .. MaxConnections /\ connected \in BOOLEAN
    /\ inbox \in Seq(Messages) /\ receiving \in Messages \cup {None}
    /\ queue \in Seq(Messages) /\ Len(queue) <= QUEUE_SIZE
    /\ accepting \in BOOLEAN
    /\ worker \in [pc: {"idle", "handling", "recording", "ended"},
                   about: EventKinds \cup {None}]
    /\ cached \in Statuses \cup {None}
    /\ missed \in BOOLEAN
    /\ events \in [EventKinds -> Nat] /\ changes \in [EventKinds -> Nat]
    /\ reports \in 0 .. MaxReports
    /\ stopping \in {"no", "network", "refusing", "poisoned", "abandoned"}

IngestionInit ==
    /\ retained \in Statuses
    /\ connection = 0 /\ connected = FALSE
    /\ inbox = <<>> /\ receiving = None
    /\ queue = <<>> /\ accepting = TRUE
    /\ worker = NoTask
    /\ cached = None /\ missed = FALSE
    /\ events = [k \in EventKinds |-> 0]
    /\ changes = [k \in EventKinds |-> 0]
    /\ reports = 0
    /\ stopping = "no"
-----------------------------------------------------------------------------
(* The device and the broker.                                              *)

Other(s) == CHOOSE t \in Statuses : t # s

\* The device publishes its new status, or the broker its last will.
StatusChanges ==
    /\ changes["online"] + changes["offline"] < MaxChanges
    /\ retained' = Other(retained)
    /\ changes' = [changes EXCEPT ![Other(retained)] = @ + 1]
    /\ inbox' = IF connected THEN Append(inbox, Other(retained))
                ELSE inbox
    /\ UNCHANGED <<reports, connection, connected, receiving, queue, accepting,
                   worker, cached, missed, events, stopping>>

\* The device publishes its state, or reports an outage that is over.
Report(m) ==
    /\ connected /\ reports < MaxReports
    /\ reports' = reports + 1
    /\ changes' = IF m = "outage" THEN [changes EXCEPT ![m] = @ + 1] ELSE changes
    /\ inbox' = Append(inbox, m)
    /\ UNCHANGED <<retained, connection, connected, receiving, queue,
                   accepting, worker, cached, missed, events, stopping>>
-----------------------------------------------------------------------------
(* The network thread.                                                     *)

\* _on_connect: the statuses are cleared before the topics are subscribed, and
\* the subscription brings the retained status.
OnConnect ==
    /\ ~connected /\ receiving = None
    /\ stopping = "no" /\ connection < MaxConnections
    /\ connection' = connection + 1
    /\ connected' = TRUE
    /\ cached' = None
    /\ inbox' = <<retained>>
    /\ missed' = FALSE
    /\ UNCHANGED <<broker, receiving, queue, accepting, worker, events, stopping>>

\* _on_disconnect.  What was on its way is lost (QoS 0).
OnDisconnect ==
    /\ connected /\ receiving = None /\ connection < MaxConnections
    /\ connected' = FALSE
    /\ inbox' = <<>>
    /\ cached' = None
    /\ UNCHANGED <<broker, connection, receiving, queue, accepting, worker, missed,
                   events, stopping>>

\* Mutant of HasRoom: an unbounded queue.
AlwaysRoom == TRUE

HasRoom == Len(queue) < QUEUE_SIZE

\* _on_message up to the check of _ingestion_accepting.
Receive ==
    /\ inbox # <<>> /\ receiving = None
    /\ inbox' = Tail(inbox)
    /\ receiving' = IF accepting THEN Head(inbox) ELSE None
    /\ UNCHANGED <<broker, connection, connected, queue, accepting, worker, cached,
                   missed, events, stopping>>

\* The put_nowait of _enqueue_ingestion_message: a full queue drops the message.
Enqueue ==
    /\ receiving # None
    /\ queue' = IF HasRoom THEN Append(queue, receiving) ELSE queue
    /\ missed' = IF receiving \in Statuses THEN ~HasRoom ELSE missed
    /\ receiving' = None
    /\ UNCHANGED <<broker, connection, connected, inbox, accepting, worker, cached,
                   events, stopping>>
-----------------------------------------------------------------------------
(* _run_ingestion_worker.                                                  *)

\* None ends the thread; a state changes nothing here, and an outage
\* (_handle_outage_message) only becomes an event.
TaskFor(m) ==
    CASE m = "stop"       -> [NoTask EXCEPT !.pc = "ended"]
      [] m = "state"      -> NoTask
      [] m = "outage"     -> [pc |-> "recording", about |-> m]
      [] m \in Statuses   -> [pc |-> "handling", about |-> m]

Take ==
    /\ worker.pc = "idle" /\ queue # <<>>
    /\ queue' = Tail(queue)
    /\ worker' = TaskFor(Head(queue))
    /\ UNCHANGED <<broker, network, accepting, cached, missed, events, stopping>>

\* Mutant of NewStatus: setdefault instead of an assignment.
FirstStatus(s) == IF cached = None THEN s ELSE cached

NewStatus(s) == s

\* Mutant of IsEvent: the first status after a connection is an event too.
AnyChange(s) == cached # s

\* "Le premier status reçu après une connexion": the first status after a
\* clear, and a repeated one, are no events.
IsEvent(s) == cached # None /\ cached # s

\* _handle_status_message under _device_status_lock.
UpdateStatus ==
    /\ worker.pc = "handling"
    /\ cached' = NewStatus(worker.about)
    /\ worker' = IF IsEvent(worker.about) THEN [worker EXCEPT !.pc = "recording"]
                 ELSE NoTask
    /\ UNCHANGED <<broker, network, queue, accepting, missed, events, stopping>>

\* _persist_device_event; an error of the database is swallowed.
RecordEvent ==
    /\ worker.pc = "recording"
    /\ events' \in {events, [events EXCEPT ![worker.about] = @ + 1]}
    /\ worker' = NoTask
    /\ UNCHANGED <<broker, network, queue, accepting, cached, missed, stopping>>
-----------------------------------------------------------------------------
(* stop().                                                                 *)

\* Mutant of StopNetwork: the network thread is left running.
StopNothing ==
    /\ stopping = "no"
    /\ stopping' = "network"
    /\ UNCHANGED <<broker, network, cached, queue, accepting, worker, missed, events>>

\* client.disconnect and loop_stop: the network thread has ended.
StopNetwork ==
    /\ stopping = "no" /\ receiving = None
    /\ stopping' = "network"
    /\ connected' = FALSE
    /\ inbox' = <<>>
    /\ cached' = None
    /\ UNCHANGED <<broker, connection, receiving, queue, accepting, worker, missed,
                   events>>

\* _stop_ingestion_worker up to the put of None.
RefuseMessages ==
    /\ stopping = "network"
    /\ stopping' = "refusing"
    /\ accepting' = FALSE
    /\ UNCHANGED <<broker, network, queue, worker, cached, missed, events>>

Poison ==
    /\ stopping = "refusing" /\ HasRoom
    /\ stopping' = "poisoned"
    /\ queue' = Append(queue, "stop")
    /\ UNCHANGED <<broker, network, accepting, worker, cached, missed, events>>

\* put(None, timeout=5) raises Full; the daemon thread is left to the process.
PoisonTimesOut ==
    /\ stopping = "refusing" /\ ~HasRoom
    /\ stopping' = "abandoned"
    /\ UNCHANGED <<broker, network, queue, accepting, worker, cached, missed, events>>
-----------------------------------------------------------------------------
IngestionNext ==
    \/ StatusChanges
    \/ \E m \in {"state", "outage"} : Report(m)
    \/ OnConnect
    \/ OnDisconnect
    \/ Receive
    \/ Enqueue
    \/ Take
    \/ UpdateStatus
    \/ RecordEvent
    \/ StopNetwork
    \/ RefuseMessages
    \/ Poison
    \/ PoisonTimesOut

\* paho reconnects by itself (reconnect_delay_set) and both threads run; the
\* device and the operator do what they like.
Fairness ==
    /\ WF_ingestion(OnConnect) /\ WF_ingestion(Receive) /\ WF_ingestion(Enqueue)
    /\ WF_ingestion(Take) /\ WF_ingestion(UpdateStatus) /\ WF_ingestion(RecordEvent)
    /\ WF_ingestion(RefuseMessages) /\ WF_ingestion(Poison \/ PoisonTimesOut)

IngestionSpec == IngestionInit /\ [][IngestionNext]_ingestion /\ Fairness
-----------------------------------------------------------------------------
(* Correctness.                                                            *)

\* No false event: there are never more device_online (device_offline,
\* network_outage) events than the device came online (went offline, had outages),
\* in spite of retained messages, reconnections and messages of earlier
\* connections in the queue.
EventsAreChanges == \A k \in EventKinds : events[k] <= changes[k]

\* Once stop() has put its None the worker ends, and nothing that was received is
\* left in the queue, because the network thread ended before the worker was told.
WorkerEnds == stopping = "poisoned" ~> worker.pc = "ended" /\ queue = <<>>

\* "Les messages retained /status reçus après les abonnements reconstruiront
\* l'état réel": while the manager runs, the cache ends up with the status of
\* the device, once connection and device are stable, unless a full queue dropped
\* the last status: nothing asks for that one again.
StatusRebuilt == <>[](stopping = "no" /\ ~missed => cached = retained)
=============================================================================
