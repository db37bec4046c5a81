-------------------------- MODULE HistoryRecovery --------------------------
(***************************************************************************)
(* The recovery of the local history of one device: the device with its    *)
(* numbered records and its outages, the state messages that schedule a    *)
(* recovery, the worker of LocalHistoryRecoveryCoordinator that fetches,   *)
(* commits and acknowledges page after page, timeouts at every command,    *)
(* failures of the database and restarts of the back end.                  *)
(***************************************************************************)
EXTENDS Integers, FiniteSets

CONSTANTS
    None,
    HISTORY_PAGE_LIMIT, HISTORY_MAX_PAGES_PER_RUN,
    MaxRecords, MaxOutages, MaxFailures, MaxRestarts    \* model bounds

ASSUME HistoryConstants ==
    /\ HISTORY_PAGE_LIMIT \in Nat \ {0} /\ HISTORY_MAX_PAGES_PER_RUN \in Nat \ {0}
    /\ MaxRecords \in Nat /\ MaxOutages \in Nat
    /\ MaxFailures \in Nat /\ MaxRestarts \in Nat
    /\ None \notin Nat

VARIABLES
    newest,         \* the device's next_sequence - 1
    acked,          \* its acknowledged_through_sequence
    outages,        \* its recovery counters, the "recovery marker"
    online,
    backlog,        \* history: newest when the last outage ended
    message,        \* a state message that was not handled yet
    late,           \* acknowledgements on their way whose sender gave up
    ledger,         \* local_history_records: sequences of the device
    job,            \* the request in _pending_devices with the run on it
    completed,      \* _completed_markers of the device
    waiting,        \* the retry delay runs
    failures, restarts      \* for the bounds

device  == <<newest, acked, outages, online, backlog>>
bounds  == <<failures, restarts>>
vars    == <<device, message, late, ledger, job, completed, waiting, bounds>>

Cursors == 0 .. MaxRecords
Records    == 1 .. MaxRecords
Markers    == 0 .. MaxOutages

Messages == [newest: Cursors, acked: Cursors, marker: Markers \cup {None}]
Jobs     == [pc: {"idle", "fetching", "persisting", "acking"},
             marker: Markers \cup {None}, cursor: Cursors, next: Cursors,
             more: BOOLEAN, pages: 0 .. HISTORY_MAX_PAGES_PER_RUN]

NoMessage == [newest |-> 0, acked |-> 0, marker |-> None]
NoJob     == [pc |-> "idle", marker |-> None, cursor |-> 0, next |-> 0,
              more |-> FALSE, pages |-> 0]

TypeOK ==
    /\ newest \in Cursors /\ acked \in Cursors /\ backlog \in Cursors
    /\ outages \in Markers /\ online \in BOOLEAN
    /\ message \in Messages
    /\ late \subseteq Records
    /\ ledger \subseteq Records
    /\ job \in Jobs
    /\ completed \in Markers \cup {None}
    /\ waiting \in BOOLEAN
    /\ failures \in 0 .. MaxFailures /\ restarts \in 0 .. MaxRestarts

Init ==
    /\ newest = 0 /\ acked = 0 /\ outages = 0 /\ online = TRUE /\ backlog = 0
    /\ message = NoMessage
    /\ late = {}
    /\ ledger = {}
    /\ job = NoJob
    /\ completed = None
    /\ waiting = FALSE
    /\ failures = 0 /\ restarts = 0
-----------------------------------------------------------------------------
(* The device.                                                             *)

Record ==
    /\ newest < MaxRecords
    /\ newest' = newest + 1
    /\ UNCHANGED <<acked, outages, online, backlog, message, late, ledger, job,
                   completed, waiting, bounds>>

\* Network or broker is lost; acknowledgements on their way may be too.
Outage ==
    /\ online /\ outages < MaxOutages
    /\ online' = FALSE
    /\ late' \in SUBSET late
    /\ UNCHANGED <<newest, acked, outages, backlog, message, ledger, job,
                   completed, waiting, bounds>>

Reconnect ==
    /\ ~online
    /\ online' = TRUE
    /\ outages' = outages + 1
    /\ backlog' = newest
    /\ UNCHANGED <<newest, acked, message, late, ledger, job, completed, waiting,
                   bounds>>

\* A state message enters the ingestion queue, which hands it over later.
PublishState ==
    /\ online /\ message = NoMessage
    /\ message' = [newest |-> newest, acked |-> acked, marker |-> outages]
    /\ UNCHANGED <<device, late, ledger, job, completed, waiting, bounds>>

\* ack_history that nobody waits for any more.
LateAck(n) ==
    /\ online /\ n \in late
    /\ acked' = IF n > acked THEN n ELSE acked
    /\ late' = late \ {n}
    /\ UNCHANGED <<newest, outages, online, backlog, message, ledger, job,
                   completed, waiting, bounds>>
-----------------------------------------------------------------------------
(* schedule.                                                               *)

\* Mutant of AlreadyCompleted: one recovery per run of the back end.
CompletedOnce(m) == completed # None

AlreadyCompleted(m) == completed = m.marker

NoBacklog(m) == m.newest <= m.acked

Schedule ==
    /\ message # NoMessage
    /\ message' = NoMessage
    /\ LET m == message IN
         \/ /\ job # NoJob \/ AlreadyCompleted(m)
            /\ UNCHANGED <<job, completed>>
         \/ /\ job = NoJob /\ ~AlreadyCompleted(m) /\ NoBacklog(m)
            /\ completed' = m.marker
            /\ UNCHANGED job
         \/ /\ job = NoJob /\ ~AlreadyCompleted(m) /\ ~NoBacklog(m)
            /\ job' = IF waiting THEN NoJob
                      ELSE [NoJob EXCEPT !.pc = "fetching", !.marker = m.marker,
                                         !.cursor = m.acked]
            /\ UNCHANGED completed
    /\ UNCHANGED <<device, late, ledger, waiting, bounds>>

RetryDelayEnds ==
    /\ waiting
    /\ waiting' = FALSE
    /\ UNCHANGED <<device, message, late, ledger, job, completed, bounds>>
-----------------------------------------------------------------------------
(* _recover.                                                               *)

\* The cursor of the device's page after c.
PageEnd(c) == IF newest <= c THEN c
              ELSE IF newest <= c + HISTORY_PAGE_LIMIT THEN newest
              ELSE c + HISTORY_PAGE_LIMIT

FetchedJob(c) ==
    [job EXCEPT !.pc = "persisting", !.next = PageEnd(c),
                !.more = PageEnd(c) < newest]

\* The run has ended without an error.
Complete ==
    /\ job' = NoJob
    /\ completed' = job.marker

\* get_history and parse_history_page; an empty page ends the run.
FetchPage ==
    /\ job.pc = "fetching" /\ online
    /\ job.pages < HISTORY_MAX_PAGES_PER_RUN
    /\ IF PageEnd(job.cursor) = job.cursor
       THEN Complete
       ELSE job' = FetchedJob(job.cursor) /\ UNCHANGED completed
    /\ UNCHANGED <<device, message, late, ledger, waiting, bounds>>

\* Mutant of PersistPage: the acknowledgement does not wait for the commit.
SkipPersist ==
    /\ job.pc = "persisting"
    /\ job' = [job EXCEPT !.pc = "acking"]
    /\ UNCHANGED <<device, message, late, ledger, completed, waiting, bounds>>

\* Mutant of PersistPage: the page begins with the cursor itself.
PersistInclusive ==
    /\ job.pc = "persisting"
    /\ ledger' = ledger \cup (job.cursor .. job.next)
    /\ job' = [job EXCEPT !.pc = "acking"]
    /\ UNCHANGED <<device, message, late, completed, waiting, bounds>>

\* persist_page: one transaction; a sequence in the ledger is not imported again.
PersistPage ==
    /\ job.pc = "persisting"
    /\ ledger' = ledger \cup (job.cursor + 1 .. job.next)
    /\ job' = [job EXCEPT !.pc = "acking"]
    /\ UNCHANGED <<device, message, late, completed, waiting, bounds>>

\* Mutant of Continue: the next page is asked for from behind its first record.
ContinueBehind ==
    IF job.more
    THEN /\ job' = [job EXCEPT !.pc = "fetching", !.cursor = job.next + 1,
                               !.pages = @ + 1]
         /\ UNCHANGED completed
    ELSE Complete

\* After the acknowledgement of a page.
Continue ==
    IF job.more
    THEN /\ job' = [job EXCEPT !.pc = "fetching", !.cursor = job.next,
                               !.pages = @ + 1]
         /\ UNCHANGED completed
    ELSE Complete

\* ack_history and validate_history_ack.
AckPage ==
    /\ job.pc = "acking" /\ online
    /\ acked' = IF job.next > acked THEN job.next ELSE acked
    /\ Continue
    /\ UNCHANGED <<newest, outages, online, backlog, message, late, ledger, waiting,
                   bounds>>

\* _run after an exception.
Fail ==
    /\ job' = NoJob
    /\ waiting' = TRUE

\* A command times out, the answer does not fit or the database fails.  A
\* rejected acknowledgement may still be executed, now or later.
RunFails ==
    /\ job.pc \in {"fetching", "persisting", "acking"}
    /\ \/ online /\ failures < MaxFailures /\ failures' = failures + 1
       \/ ~online /\ UNCHANGED failures
    /\ late' \in {late, IF job.pc = "acking" THEN late \cup {job.next} ELSE late}
    /\ Fail
    /\ UNCHANGED <<device, message, ledger, completed, restarts>>

\* The "else" of the loop over HISTORY_MAX_PAGES_PER_RUN pages.
RunTooLong ==
    /\ job.pc = "fetching" /\ job.pages = HISTORY_MAX_PAGES_PER_RUN
    /\ Fail
    /\ UNCHANGED <<device, message, late, ledger, completed, bounds>>

\* The process starts again: only the database survives.
RestartBackend ==
    /\ restarts < MaxRestarts
    /\ restarts' = restarts + 1
    /\ late' \in {late, IF job.pc = "acking" THEN late \cup {job.next} ELSE late}
    /\ job' = NoJob /\ completed' = None /\ waiting' = FALSE
    /\ message' = NoMessage
    /\ UNCHANGED <<device, ledger, failures>>
-----------------------------------------------------------------------------
Next ==
    \/ Record
    \/ Outage
    \/ Reconnect
    \/ PublishState
    \/ \E n \in late : LateAck(n)
    \/ Schedule
    \/ RetryDelayEnds
    \/ FetchPage
    \/ PersistPage
    \/ AckPage
    \/ RunFails
    \/ RunTooLong
    \/ RestartBackend

\* The device reconnects and publishes its state periodically, the two threads
\* run, commands time out and the delay of 30 s ends.
Fairness ==
    /\ WF_vars(Reconnect) /\ WF_vars(PublishState) /\ WF_vars(Schedule)
    /\ WF_vars(RetryDelayEnds)
    /\ WF_vars(FetchPage \/ PersistPage \/ AckPage \/ RunTooLong)
    /\ WF_vars(RunFails /\ ~online)

Spec == Init /\ [][Next]_vars /\ Fairness
-----------------------------------------------------------------------------
(* Correctness.                                                            *)

\* Sequences the device was, is or may still be told to forget.
Acknowledged == {acked} \cup late \cup
                {n \in {job.next} : job.pc = "acking"}

\* "Seulement ensuite, il envoie ack_history": whatever was acknowledged, is
\* being acknowledged or may still be acknowledged late is committed, with
\* everything before it, so no crash or timeout can lose a record.
AckFollowsCommit == \A n \in Acknowledged : 1 .. n \subseteq ledger

\* The recovery imports the records in order, without a hole, and lets the
\* device forget only what was imported.
Import == INSTANCE HistoryImport
             WITH produced <- newest, imported <- ledger, acked <- acked
ImplementsImport == Import!Spec

\* "La recuperation est lancee ... lorsqu'un compteur de recuperation change":
\* once outages, failures and restarts leave the device alone, everything it had
\* recorded when the last outage ended is imported, however many runs it takes.
BacklogImported == <>[](1 .. backlog \subseteq ledger)
=============================================================================
