----------------------- MODULE HistoryRecoveryProofs -----------------------
(***************************************************************************)
(* Proofs about HistoryRecovery: no record is acknowledged before it is    *)
(* committed, and the recovery implements HistoryImport, for every page    *)
(* size, page limit and number of records, outages and failures.           *)
(***************************************************************************)
EXTENDS HistoryRecovery, TLAPS

\* The ledger has no hole.
PrefixClosed ==
    /\ ledger \subseteq 1 .. newest
    /\ \A n \in ledger : 1 .. n \subseteq ledger

\* A run starts at and continues from a committed sequence.
RunCommitted == 1 .. job.cursor \subseteq ledger

\* The page at hand lies behind the cursor and inside the device's history.
PageInside ==
    job.pc \in {"persisting", "acking"} =>
        /\ job.cursor < job.next /\ job.next <= newest
        /\ job.pages < HISTORY_MAX_PAGES_PER_RUN

\* A state message is a state the device was in.
MessagePast ==
    /\ message.newest <= newest
    /\ 1 .. message.acked \subseteq ledger

OutagesBounded == ~online => outages < MaxOutages

IInv ==
    /\ TypeOK /\ PrefixClosed /\ AckFollowsCommit /\ RunCommitted
    /\ PageInside /\ MessagePast /\ OutagesBounded
-----------------------------------------------------------------------------
(* Lemmas about the operators of the model.                                *)

\* A page that is not empty lies between its cursor and the newest record.
LEMMA PageEndInside ==
    ASSUME TypeOK, NEW c \in Cursors, c <= newest
    PROVE  /\ PageEnd(c) \in Cursors
           /\ PageEnd(c) # c => c < PageEnd(c) /\ PageEnd(c) <= newest
  BY HistoryConstants DEF PageEnd, TypeOK, Cursors

\* Committing a page behind a committed cursor keeps the ledger without holes.
LEMMA PageKeepsPrefix ==
    ASSUME TypeOK, PrefixClosed, RunCommitted,
           job.cursor < job.next, job.next <= newest
    PROVE  LET new == ledger \cup (job.cursor + 1 .. job.next) IN
           /\ new \subseteq 1 .. newest
           /\ \A n \in new : 1 .. n \subseteq new
           /\ 1 .. job.next \subseteq new
<1> DEFINE new == ledger \cup (job.cursor + 1 .. job.next)
<1>0. job.cursor \in Nat /\ job.next \in Nat /\ newest \in Nat /\ ledger \subseteq Nat
  BY DEF TypeOK, Jobs, Cursors, Records
<1>1. new \subseteq 1 .. newest
  <2>1. ledger \subseteq 1 .. newest
    BY DEF PrefixClosed
  <2>2. job.cursor + 1 .. job.next \subseteq 1 .. newest
    BY <1>0
  <2> QED  BY <2>1, <2>2
<1>2. 1 .. job.next \subseteq new
  BY <1>0 DEF RunCommitted
<1>3. ASSUME NEW n \in new PROVE 1 .. n \subseteq new
  <2>1. CASE n \in ledger
    BY <2>1 DEF PrefixClosed
  <2>2. CASE n \in job.cursor + 1 .. job.next
    BY <1>0, <1>2, <2>2
  <2> QED  BY <2>1, <2>2
<1> QED  BY <1>1, <1>2, <1>3

\* The fields of a job and of a message.
LEMMA Fields ==
    ASSUME TypeOK
    PROVE  /\ job.pc \in {"idle", "fetching", "persisting", "acking"}
           /\ job.cursor \in Nat /\ job.cursor \in Cursors
           /\ job.next \in Nat /\ job.next \in Cursors
           /\ job.pages \in Nat /\ job.marker \in Markers \cup {None}
           /\ message.acked \in Cursors /\ message.newest \in Nat
           /\ message.marker \in Markers \cup {None}
           /\ newest \in Nat /\ newest \in Cursors /\ acked \in Nat
           /\ ledger \subseteq Nat /\ late \subseteq Nat
  BY HistoryConstants DEF TypeOK, Jobs, Messages, Cursors, Records

\* The shapes a job takes on its way.
LEMMA Empty == NoJob \in Jobs /\ NoMessage \in Messages
  BY HistoryConstants DEF NoJob, NoMessage, Jobs, Messages, Cursors

LEMMA Scheduled ==
    ASSUME NEW m \in Markers \cup {None}, NEW n \in Cursors
    PROVE  [NoJob EXCEPT !.pc = "fetching", !.marker = m, !.cursor = n] \in Jobs
  BY Empty DEF Jobs

LEMMA Fetched ==
    ASSUME NEW j \in Jobs, NEW n \in Cursors, NEW b \in BOOLEAN
    PROVE  [j EXCEPT !.pc = "persisting", !.next = n, !.more = b] \in Jobs
  BY DEF Jobs

LEMMA Persisted ==
    ASSUME NEW j \in Jobs
    PROVE  /\ [j EXCEPT !.pc = "acking"] \in Jobs
           /\ [j EXCEPT !.pc = "acking"].pc = "acking"
           /\ [j EXCEPT !.pc = "acking"].next = j.next
           /\ [j EXCEPT !.pc = "acking"].cursor = j.cursor
           /\ [j EXCEPT !.pc = "acking"].pages = j.pages
  BY DEF Jobs

LEMMA Continued ==
    ASSUME NEW j \in Jobs, NEW n \in Cursors, NEW p \in 0 .. HISTORY_MAX_PAGES_PER_RUN
    PROVE  [j EXCEPT !.pc = "fetching", !.cursor = n, !.pages = p] \in Jobs
  BY DEF Jobs

\* Without a job, a message or an acknowledgement nothing is claimed.
LEMMA NothingYet == /\ 1 .. 0 = {}
                    /\ NoJob.cursor = 0 /\ NoJob.pc = "idle" /\ NoMessage.acked = 0
                    /\ NoMessage.newest = 0
  BY DEF NoJob, NoMessage
-----------------------------------------------------------------------------
(* The inductive invariant.                                                *)

THEOREM InitInvariant == Init => IInv
<1> SUFFICES ASSUME Init PROVE IInv
  OBVIOUS
<1>1. TypeOK
  <2>1. online \in BOOLEAN /\ waiting \in BOOLEAN
    BY DEF Init
  <2>2. job \in Jobs /\ message \in Messages
    BY Empty DEF Init
  <2> QED
    BY <2>1, <2>2, HistoryConstants DEF Init, TypeOK, Cursors, Records, Markers
<1>2. PrefixClosed /\ AckFollowsCommit
  BY NothingYet DEF Init, PrefixClosed, AckFollowsCommit, Acknowledged
<1>3. RunCommitted /\ PageInside /\ MessagePast /\ OutagesBounded
  BY NothingYet DEF Init, RunCommitted, PageInside, MessagePast, OutagesBounded
<1> QED  BY <1>1, <1>2, <1>3 DEF IInv

LEMMA DeviceSteps ==
    ASSUME IInv, \/ Record \/ Outage \/ Reconnect \/ PublishState
    PROVE  IInv'
<1> USE HistoryConstants DEF IInv
<1>0. UNCHANGED <<acked, ledger, job, completed, waiting, bounds>>
  BY DEF Record, Outage, Reconnect, PublishState, device
<1>1. newest' \in Cursors /\ newest <= newest' /\ late' \subseteq late
  BY DEF Record, Outage, Reconnect, PublishState, device, TypeOK, Cursors
<1>2. \/ message' = message
      \/ /\ message' = [newest |-> newest, acked |-> acked, marker |-> outages]
         /\ newest' = newest
  BY DEF Record, Outage, Reconnect, PublishState, device
<1>3. /\ message' \in Messages /\ message'.newest <= newest'
      /\ message'.acked \in {message.acked, acked}
  BY <1>1, <1>2, Fields DEF MessagePast, TypeOK, Messages, Cursors
<1>4. TypeOK'
  <2>1. online' \in BOOLEAN
    BY DEF Record, Outage, Reconnect, PublishState, TypeOK, device
  <2>2. outages' \in Markers /\ backlog' \in Cursors
    BY DEF Record, Outage, Reconnect, PublishState, TypeOK, OutagesBounded, Markers,
       device
  <2>3. UNCHANGED <<failures, restarts>>
    BY <1>0 DEF bounds
  <2> QED  BY <1>0, <1>1, <1>3, <2>1, <2>2, <2>3 DEF TypeOK
<1>5. PrefixClosed' /\ PageInside'
  BY <1>0, <1>1, Fields DEF PrefixClosed, PageInside, Cursors
<1>6. AckFollowsCommit' /\ RunCommitted'
  BY <1>0, <1>1 DEF AckFollowsCommit, Acknowledged, RunCommitted
<1>7. MessagePast'
  BY <1>0, <1>3 DEF MessagePast, AckFollowsCommit, Acknowledged
<1>8. OutagesBounded'
  BY DEF Record, Outage, Reconnect, PublishState, OutagesBounded, device
<1> QED  BY <1>4, <1>5, <1>6, <1>7, <1>8

LEMMA LateAckStep == ASSUME IInv, NEW n \in late, LateAck(n) PROVE IInv'
  BY HistoryConstants
  DEF LateAck, IInv, TypeOK, PrefixClosed, AckFollowsCommit, Acknowledged,
      RunCommitted, PageInside, MessagePast, OutagesBounded, Cursors, Records,
      Markers, bounds

LEMMA ScheduleSteps == ASSUME IInv, Schedule \/ RetryDelayEnds PROVE IInv'
<1> USE HistoryConstants DEF IInv, Cursors, Records, Markers
<1>1. CASE RetryDelayEnds
  BY <1>1 DEF RetryDelayEnds, TypeOK, PrefixClosed, AckFollowsCommit, Acknowledged,
       RunCommitted, PageInside, MessagePast, OutagesBounded, device, bounds
<1>2. CASE Schedule
  <2>0. /\ UNCHANGED <<device, late, ledger, waiting, bounds>>
        /\ message' = NoMessage
        /\ job' \in {job, NoJob,
                    [NoJob EXCEPT !.pc = "fetching", !.marker = message.marker,
                                  !.cursor = message.acked]}
        /\ completed' \in {completed, message.marker}
    BY <1>2 DEF Schedule
  <2>1. TypeOK'
    <3>1. job' \in Jobs /\ message' \in Messages
      <4>1. message.marker \in Markers \cup {None} /\ message.acked \in Cursors
        BY Fields
      <4>2. [NoJob EXCEPT !.pc = "fetching", !.marker = message.marker,
                          !.cursor = message.acked] \in Jobs
        BY <4>1, Scheduled
      <4> QED  BY <2>0, <4>2, Empty DEF TypeOK
    <3>2. completed' \in Markers \cup {None}
      BY <2>0, Fields DEF TypeOK
    <3> QED  BY <2>0, <3>1, <3>2 DEF TypeOK, device, bounds
  <2>2. PrefixClosed' /\ OutagesBounded'
    BY <2>0 DEF PrefixClosed, OutagesBounded, device
  <2>3. /\ job' = job \/ job'.pc \in {"idle", "fetching"}
        /\ job'.cursor \in {job.cursor, 0, message.acked}
    <3>1. CASE job' = job
      BY <3>1
    <3>2. CASE job' = NoJob
      BY <3>2, NothingYet
    <3>3. CASE job' = [NoJob EXCEPT !.pc = "fetching", !.marker = message.marker,
                                    !.cursor = message.acked]
      BY <3>3 DEF NoJob
    <3> QED  BY <2>0, <3>1, <3>2, <3>3
  <2>4. AckFollowsCommit' /\ PageInside'
    BY <2>0, <2>3 DEF AckFollowsCommit, Acknowledged, PageInside, device
  <2>6. RunCommitted'
    BY <2>0, <2>3, NothingYet DEF RunCommitted, MessagePast
  <2>7. MessagePast'
    BY <2>0, NothingYet DEF MessagePast, TypeOK, device
  <2> QED  BY <2>1, <2>2, <2>4, <2>6, <2>7
<1> QED  BY <1>1, <1>2

\* No cursor of a run lies behind the newest record.
LEMMA CursorInside == ASSUME IInv PROVE job.cursor <= newest
<1>1. CASE job.cursor = 0
  BY <1>1, Fields DEF IInv
<1>2. CASE job.cursor # 0
  <2>1. job.cursor \in 1 .. job.cursor
    BY <1>2, Fields DEF IInv
  <2> QED  BY <2>1, Fields DEF IInv, RunCommitted, PrefixClosed
<1> QED  BY <1>1, <1>2

LEMMA FetchStep == ASSUME IInv, FetchPage PROVE IInv'
<1> USE DEF IInv
<1>0. /\ UNCHANGED <<device, message, late, ledger, waiting, bounds>>
      /\ job.cursor \in Cursors /\ job.pages < HISTORY_MAX_PAGES_PER_RUN
      /\ completed' \in {completed, job.marker}
  BY Fields DEF FetchPage, Complete
<1>1. \/ job' = NoJob
      \/ PageEnd(job.cursor) # job.cursor /\ job' = FetchedJob(job.cursor)
  BY DEF FetchPage, Complete
<1>2. /\ PageEnd(job.cursor) \in Cursors
      /\ PageEnd(job.cursor) # job.cursor =>
           job.cursor < PageEnd(job.cursor) /\ PageEnd(job.cursor) <= newest
  BY <1>0, CursorInside, PageEndInside
<1>3. TypeOK'
  <2>1. job' \in Jobs
    <3>1. job \in Jobs /\ (PageEnd(job.cursor) < newest) \in BOOLEAN
      BY DEF TypeOK
    <3>2. FetchedJob(job.cursor) \in Jobs
      BY <1>2, <3>1, Fetched DEF FetchedJob
    <3> QED  BY <1>1, <3>2, Empty
  <2> QED  BY <1>0, <2>1, Fields DEF TypeOK, device, bounds
<1>4. PrefixClosed' /\ OutagesBounded' /\ MessagePast'
  BY <1>0 DEF PrefixClosed, OutagesBounded, MessagePast, device
<1>5. \/ job' = NoJob
      \/ /\ job'.cursor = job.cursor /\ job'.pc = "persisting"
         /\ job'.next = PageEnd(job.cursor) /\ job'.pages = job.pages
         /\ PageEnd(job.cursor) # job.cursor
  BY <1>1 DEF FetchedJob, TypeOK, Jobs
<1>6. RunCommitted' /\ AckFollowsCommit'
  BY <1>0, <1>5, NothingYet DEF RunCommitted, AckFollowsCommit, Acknowledged, device
<1>7. PageInside'
  BY <1>0, <1>2, <1>5, NothingYet DEF PageInside, device
<1> QED  BY <1>3, <1>4, <1>6, <1>7

LEMMA PersistStep == ASSUME IInv, PersistPage PROVE IInv'
<1> USE DEF IInv
<1>0. /\ UNCHANGED <<device, message, late, completed, waiting, bounds>>
      /\ job.pc = "persisting" /\ job' = [job EXCEPT !.pc = "acking"]
      /\ ledger' = ledger \cup (job.cursor + 1 .. job.next)
  BY DEF PersistPage
<1>1. /\ job' \in Jobs /\ job'.pc = "acking" /\ job'.next = job.next
      /\ job'.cursor = job.cursor /\ job'.pages = job.pages
  BY <1>0, Persisted DEF TypeOK
<1>2. /\ ledger' \subseteq 1 .. newest
      /\ \A n \in ledger' : 1 .. n \subseteq ledger'
      /\ 1 .. job.next \subseteq ledger'
  BY <1>0, PageKeepsPrefix DEF PageInside
<1>3. TypeOK'
  <2>1. ledger' \subseteq Records
    <3>1. newest \in Nat /\ newest <= MaxRecords /\ MaxRecords \in Nat
      BY HistoryConstants DEF TypeOK, Cursors
    <3> QED  BY <1>2, <3>1 DEF Records
  <2> QED  BY <1>0, <1>1, <2>1 DEF TypeOK, device, bounds
<1>4. PrefixClosed' /\ OutagesBounded'
  BY <1>0, <1>2 DEF PrefixClosed, OutagesBounded, device
<1>5. RunCommitted' /\ PageInside' /\ MessagePast'
  BY <1>0, <1>1 DEF RunCommitted, PageInside, MessagePast, device
<1>6. AckFollowsCommit'
  BY <1>0, <1>1, <1>2 DEF AckFollowsCommit, Acknowledged, device
<1> QED  BY <1>3, <1>4, <1>5, <1>6

LEMMA AckStep == ASSUME IInv, AckPage PROVE IInv'
<1> USE DEF IInv
<1>0. /\ UNCHANGED <<newest, outages, online, backlog, message, late, ledger, waiting,
                     bounds>>
      /\ acked' \in {acked, job.next} /\ job.pc = "acking"
      /\ completed' \in {completed, job.marker}
  BY DEF AckPage, Continue, Complete
<1>1. \/ job' = NoJob
      \/ job' = [job EXCEPT !.pc = "fetching", !.cursor = job.next,
                            !.pages = job.pages + 1]
  BY DEF AckPage, Continue, Complete
<1>2. job \in Jobs /\ job.next \in Cursors
  BY DEF TypeOK, Jobs
<1>3. TypeOK'
  <2>1. job.pages + 1 \in 0 .. HISTORY_MAX_PAGES_PER_RUN
    BY <1>0, <1>2, HistoryConstants DEF PageInside, Jobs
  <2>2. job' \in Jobs
    BY <1>1, <1>2, <2>1, Empty, Continued
  <2> QED  BY <1>0, <1>2, <2>2, Fields DEF TypeOK, bounds
<1>4. PrefixClosed' /\ OutagesBounded' /\ MessagePast'
  BY <1>0 DEF PrefixClosed, OutagesBounded, MessagePast
<1>5. job'.cursor \in {job.next, 0} /\ job'.pc \in {"idle", "fetching"}
  <2>1. CASE job' = NoJob
    BY <2>1, NothingYet
  <2>2. CASE job' = [job EXCEPT !.pc = "fetching", !.cursor = job.next,
                                !.pages = job.pages + 1]
    BY <1>2, <2>2 DEF Jobs
  <2> QED  BY <1>1, <2>1, <2>2
<1>6. 1 .. job.next \subseteq ledger
  BY <1>0 DEF AckFollowsCommit, Acknowledged
<1>7. RunCommitted' /\ PageInside'
  BY <1>0, <1>5, <1>6, NothingYet DEF RunCommitted, PageInside
<1>8. AckFollowsCommit'
  BY <1>0, <1>5, <1>6 DEF AckFollowsCommit, Acknowledged
<1> QED  BY <1>3, <1>4, <1>7, <1>8

LEMMA FailSteps ==
    ASSUME IInv, RunFails \/ RunTooLong \/ RestartBackend
    PROVE  IInv'
<1> USE HistoryConstants DEF IInv
<1>0. /\ UNCHANGED <<device, ledger>> /\ job' = NoJob
      /\ message' \in {message, NoMessage}
  BY DEF RunFails, RunTooLong, RestartBackend, Fail
<1>1. late' \subseteq late \cup {n \in {job.next} : job.pc = "acking"}
  BY DEF RunFails, RunTooLong, RestartBackend
<1>2. late' \subseteq Records
  BY <1>1, Fields DEF TypeOK, PageInside, Cursors, Records
<1>3. TypeOK'
  <2>1. waiting' \in BOOLEAN /\ completed' \in {completed, None}
    BY DEF RunFails, RunTooLong, RestartBackend, Fail
  <2>2. failures' \in 0 .. MaxFailures /\ restarts' \in 0 .. MaxRestarts
    BY DEF RunFails, RunTooLong, RestartBackend, TypeOK, bounds
  <2> QED  BY <1>0, <1>2, <2>1, <2>2, Empty DEF TypeOK, device
<1>4. PrefixClosed' /\ OutagesBounded'
  BY <1>0 DEF PrefixClosed, OutagesBounded, device
<1>5. RunCommitted' /\ PageInside' /\ MessagePast'
  BY <1>0, NothingYet, Fields
  DEF RunCommitted, PageInside, MessagePast, TypeOK, device
<1>6. AckFollowsCommit'
  BY <1>0, <1>1, NothingYet DEF AckFollowsCommit, Acknowledged, device
<1> QED  BY <1>3, <1>4, <1>5, <1>6

THEOREM StepInvariant == IInv /\ [Next]_vars => IInv'
<1> SUFFICES ASSUME IInv, [Next]_vars PROVE IInv'
  OBVIOUS
<1>1. CASE Next
  BY <1>1, DeviceSteps, LateAckStep, ScheduleSteps, FetchStep, PersistStep, AckStep,
     FailSteps DEF Next
<1>2. CASE UNCHANGED vars
  BY <1>2 DEF vars, device, bounds, IInv, TypeOK, PrefixClosed, AckFollowsCommit,
     Acknowledged, RunCommitted, PageInside, MessagePast, OutagesBounded, Cursors,
     Records, Markers
<1> QED  BY <1>1, <1>2

\* The ledger has no hole and every sequence the device may forget is committed,
\* whatever times out or restarts.
THEOREM Inductive == Spec => []IInv
<1>1. Init => IInv
  BY InitInvariant
<1>2. IInv /\ [Next]_vars => IInv'
  BY StepInvariant
<1> QED  BY <1>1, <1>2, PTL DEF Spec

\* Device, coordinator and messages keep their shape.
THEOREM TypeCorrect == Spec => []TypeOK
<1>1. IInv => TypeOK
  BY DEF IInv
<1> QED  BY <1>1, Inductive, PTL

\* ack_history never names a sequence that is not committed with all before it.
THEOREM AckCorrect == Spec => []AckFollowsCommit
<1>1. IInv => AckFollowsCommit
  BY DEF IInv
<1> QED  BY <1>1, Inductive, PTL
-----------------------------------------------------------------------------
(* What a recovery marker stands for.                                      *)

\* A state message is not older than its marker.
MessageMark ==
    message.marker # None =>
        /\ message.marker <= outages
        /\ message.marker = outages => backlog <= message.newest

\* The last page of a run reaches what its marker stands for.
JobMark ==
    job.marker # None =>
        /\ job.marker <= outages
        /\ (job.marker = outages /\ job.pc \in {"persisting", "acking"} /\ ~job.more)
             => backlog <= job.next

\* The marker of a recovery is that of an outage that ended, and that of the
\* last one is completed only when everything recorded when it ended is
\* imported: an older message, a failed or too long run completes nothing early.
CompletedImported ==
    completed # None =>
        /\ completed <= outages
        /\ completed = outages => 1 .. backlog \subseteq ledger

MInv ==
    /\ backlog <= newest
    /\ MessageMark /\ JobMark /\ CompletedImported

LEMMA MarkFields ==
    ASSUME TypeOK
    PROVE  /\ outages \in Nat /\ backlog \in Nat
           /\ job.marker # None => job.marker \in Nat
           /\ message.marker # None => message.marker \in Nat
           /\ completed # None => completed \in Nat
  BY DEF TypeOK, Jobs, Messages, Markers, Cursors

\* An empty page, or one that says there is no more, ends at the newest record.
LEMMA PageEndLast ==
    ASSUME TypeOK, NEW c \in Cursors
    PROVE  /\ PageEnd(c) = c => newest <= c
           /\ ~(PageEnd(c) < newest) => newest <= PageEnd(c)
  BY HistoryConstants DEF PageEnd, TypeOK, Cursors

LEMMA NoMarks == NoJob.marker = None /\ NoMessage.marker = None
  BY DEF NoJob, NoMessage

\* Whatever covers the backlog of an outage is committed before Complete.
LEMMA CompleteMark ==
    ASSUME IInv, MInv, Complete, UNCHANGED <<newest, outages, backlog, message, ledger>>,
           NEW n \in Nat, 1 .. n \subseteq ledger,
           job.marker # None /\ job.marker = outages => backlog <= n
    PROVE  MInv'
<1>1. CompletedImported'
  BY MarkFields DEF Complete, MInv, IInv, JobMark, CompletedImported
<1>2. JobMark'
  BY NoMarks DEF Complete, JobMark
<1> QED  BY <1>1, <1>2 DEF MInv, MessageMark

LEMMA DeviceMark ==
    ASSUME IInv, MInv, Record \/ Outage \/ PublishState \/ RetryDelayEnds
    PROVE  MInv'
<1>0. /\ UNCHANGED <<outages, backlog, ledger, job, completed>>
      /\ newest' \in {newest, newest + 1}
      /\ message' \in {message, [newest |-> newest, acked |-> acked, marker |-> outages]}
  BY DEF Record, Outage, PublishState, RetryDelayEnds, device
<1>1. backlog' <= newest'
  BY <1>0, Fields, MarkFields DEF MInv, IInv
<1>2. MessageMark'
  BY <1>0, Fields, MarkFields DEF MInv, IInv, MessageMark
<1> QED  BY <1>0, <1>1, <1>2 DEF MInv, JobMark, CompletedImported

\* The next outage gives its end a marker of its own.
LEMMA ReconnectMark == ASSUME IInv, MInv, Reconnect PROVE MInv'
  BY Fields, MarkFields
  DEF Reconnect, IInv, MInv, MessageMark, JobMark, CompletedImported

LEMMA ScheduleMark == ASSUME IInv, MInv, Schedule PROVE MInv'
<1>0. /\ UNCHANGED <<newest, outages, backlog, ledger>> /\ message' = NoMessage
      /\ message.newest \in Nat /\ message.acked \in Nat /\ backlog \in Nat
  BY Fields, MarkFields DEF Schedule, device, IInv, Cursors
<1>1. CompletedImported'
  <2>1. CASE NoBacklog(message) /\ completed' = message.marker
    BY <1>0, <2>1, MarkFields
    DEF NoBacklog, IInv, MInv, MessageMark, MessagePast, CompletedImported
  <2>2. CASE UNCHANGED completed
    BY <1>0, <2>2 DEF MInv, CompletedImported
  <2> QED  BY <2>1, <2>2 DEF Schedule
<1>2. JobMark'
  <2>1. CASE job' = job
    BY <1>0, <2>1 DEF MInv, JobMark
  <2>2. CASE job' = NoJob
    BY <2>2, NoMarks DEF JobMark
  <2>3. CASE job' = [NoJob EXCEPT !.pc = "fetching", !.marker = message.marker,
                                  !.cursor = message.acked]
    <3>1. job'.pc = "fetching" /\ job'.marker = message.marker
      BY <2>3 DEF NoJob
    <3> QED  BY <1>0, <3>1 DEF MInv, MessageMark, JobMark
  <2> QED  BY <2>1, <2>2, <2>3 DEF Schedule
<1> QED  BY <1>0, <1>1, <1>2, NoMarks DEF MInv, MessageMark

LEMMA FetchMark == ASSUME IInv, MInv, FetchPage PROVE MInv'
<1>0. /\ UNCHANGED <<newest, outages, backlog, message, ledger>>
      /\ job.cursor \in Nat /\ job.cursor \in Cursors
      /\ newest \in Nat /\ backlog \in Nat
  BY Fields, MarkFields DEF FetchPage, device, IInv
<1>1. CASE PageEnd(job.cursor) = job.cursor
  <2>1. Complete /\ backlog <= job.cursor
    BY <1>0, <1>1, PageEndLast DEF FetchPage, IInv, MInv
  <2> QED  BY <1>0, <2>1, CompleteMark DEF IInv, RunCommitted
<1>2. CASE PageEnd(job.cursor) # job.cursor
  <2>1. /\ job' = FetchedJob(job.cursor) /\ UNCHANGED completed
        /\ PageEnd(job.cursor) \in Nat
    BY <1>0, <1>2, CursorInside, PageEndInside DEF FetchPage, IInv, Cursors
  <2>2. /\ job'.marker = job.marker /\ job'.next = PageEnd(job.cursor)
        /\ job'.more = (PageEnd(job.cursor) < newest)
    BY <2>1 DEF FetchedJob, IInv, TypeOK, Jobs
  <2>3. ~job'.more => backlog <= job'.next
    <3>1. ~(PageEnd(job.cursor) < newest) => newest <= PageEnd(job.cursor)
      BY <1>0, PageEndLast DEF IInv
    <3>2. ~job'.more => ~(PageEnd(job.cursor) < newest)
      BY <2>2, Zenon
    <3>3. newest <= job'.next => backlog <= job'.next
      BY <1>0, <2>1, <2>2 DEF MInv
    <3> QED  BY <2>2, <3>1, <3>2, <3>3
  <2>4. JobMark'
    BY <1>0, <2>2, <2>3 DEF MInv, JobMark
  <2> QED  BY <1>0, <2>1, <2>4 DEF MInv, MessageMark, CompletedImported
<1> QED  BY <1>1, <1>2

LEMMA PersistMark == ASSUME IInv, MInv, PersistPage PROVE MInv'
<1>0. /\ UNCHANGED <<newest, outages, backlog, message, completed>>
      /\ ledger \subseteq ledger'
      /\ job.pc = "persisting" /\ job' = [job EXCEPT !.pc = "acking"]
  BY DEF PersistPage, device
<1>1. job'.marker = job.marker /\ job'.next = job.next /\ job'.more = job.more
  BY <1>0 DEF IInv, TypeOK, Jobs
<1>2. JobMark'
  BY <1>0, <1>1 DEF MInv, JobMark
<1> QED  BY <1>0, <1>2 DEF MInv, MessageMark, CompletedImported

LEMMA AckMark == ASSUME IInv, MInv, AckPage PROVE MInv'
<1>0. /\ UNCHANGED <<newest, outages, backlog, message, ledger>>
      /\ job.pc = "acking" /\ job.next \in Nat
  BY Fields DEF AckPage, IInv
<1>1. CASE ~job.more
  <2>1. 1 .. job.next \subseteq ledger
    BY <1>0 DEF IInv, AckFollowsCommit, Acknowledged
  <2>2. Complete /\ (job.marker # None /\ job.marker = outages => backlog <= job.next)
    BY <1>0, <1>1 DEF AckPage, Continue, MInv, JobMark
  <2> QED  BY <1>0, <2>1, <2>2, CompleteMark
<1>2. CASE job.more
  <2>1. /\ job' = [job EXCEPT !.pc = "fetching", !.cursor = job.next,
                              !.pages = job.pages + 1]
        /\ UNCHANGED completed
    BY <1>2 DEF AckPage, Continue
  <2>2. job'.pc = "fetching" /\ job'.marker = job.marker
    BY <2>1 DEF IInv, TypeOK, Jobs
  <2> QED  BY <1>0, <2>1, <2>2 DEF MInv, MessageMark, JobMark, CompletedImported
<1> QED  BY <1>1, <1>2

\* A failed run completes nothing, and a restart forgets what was completed.
LEMMA FailMark ==
    ASSUME IInv, MInv, \/ \E n \in late : LateAck(n)
                       \/ RunFails \/ RunTooLong \/ RestartBackend
    PROVE  MInv'
<1>1. /\ UNCHANGED <<newest, outages, backlog, ledger>>
      /\ job' \in {job, NoJob} /\ message' \in {message, NoMessage}
      /\ completed' \in {completed, None}
  BY DEF LateAck, RunFails, RunTooLong, RestartBackend, Fail, device
<1> QED  BY <1>1, NoMarks DEF MInv, MessageMark, JobMark, CompletedImported

LEMMA InitMark == Init => MInv
  BY HistoryConstants, NoMarks DEF Init, MInv, MessageMark, JobMark, CompletedImported

LEMMA StepMark == IInv /\ MInv /\ [Next]_vars => MInv'
<1> SUFFICES ASSUME IInv, MInv, [Next]_vars PROVE MInv'
  OBVIOUS
<1>1. CASE Next
  BY <1>1, DeviceMark, ReconnectMark, ScheduleMark, FetchMark, PersistMark, AckMark,
     FailMark DEF Next
<1>2. CASE UNCHANGED vars
  BY <1>2 DEF vars, device, MInv, MessageMark, JobMark, CompletedImported
<1> QED  BY <1>1, <1>2

\* The recovery of the last outage is marked as completed only when everything
\* the device had recorded when that outage ended is imported: messages of an
\* earlier outage, failed runs and restarts complete nothing too early.
THEOREM MarkerCorrect == Spec => []CompletedImported
<1>1. MInv => CompletedImported
  BY DEF MInv
<1> QED  BY <1>1, InitMark, StepMark, Inductive, PTL DEF Spec
-----------------------------------------------------------------------------
(* The refinement.                                                         *)

LEMMA InitImplements == Init => Import!Init
  BY DEF Init, Import!Init

\* A commit imports the records up to the end of the page, or nothing new.
LEMMA PersistImplements ==
    ASSUME IInv, PersistPage
    PROVE  Import!Import \/ UNCHANGED <<newest, ledger, acked>>
<1>1. CASE job.next \in ledger
  <2>1. ledger' = ledger
    BY <1>1, Fields DEF PersistPage, IInv, PrefixClosed, PageInside
  <2> QED  BY <2>1 DEF PersistPage, device
<1>2. CASE job.next \notin ledger
  <2>1. job.next \in 1 .. newest
    BY Fields DEF PersistPage, IInv, PageInside
  <2>2. ledger' = 1 .. job.next
    <3>1. ledger \subseteq 1 .. job.next
      BY <1>2, <2>1 DEF IInv, PrefixClosed, TypeOK, Cursors, Records
    <3>2. ledger' \subseteq 1 .. job.next
      BY <2>1, <3>1, Fields DEF PersistPage, IInv
    <3>3. 1 .. job.next \subseteq ledger'
      BY PageKeepsPrefix DEF PersistPage, IInv, PageInside
    <3> QED  BY <3>2, <3>3
  <2> QED  BY <1>2, <2>1, <2>2 DEF Import!Import, PersistPage, device
<1> QED  BY <1>1, <1>2

LEMMA AckImplements ==
    ASSUME IInv, AckPage \/ \E n \in late : LateAck(n)
    PROVE  Import!Acknowledge \/ UNCHANGED <<newest, ledger, acked>>
<1>1. CASE AckPage
  <2>1. job.next \in ledger
    BY <1>1, Fields DEF AckPage, IInv, AckFollowsCommit, Acknowledged, PageInside
  <2> QED  BY <1>1, <2>1 DEF AckPage, Import!Acknowledge
<1>2. ASSUME NEW n \in late, LateAck(n)
      PROVE  Import!Acknowledge \/ UNCHANGED <<newest, ledger, acked>>
  <2>1. n \in ledger
    BY <1>2 DEF IInv, AckFollowsCommit, Acknowledged, TypeOK, Records
  <2> QED  BY <1>2, <2>1 DEF LateAck, Import!Acknowledge
<1> QED  BY <1>1, <1>2

\* The recovery implements HistoryImport: records are imported in order, without
\* a hole and never twice, and are acknowledged only after that.
THEOREM Refinement == Spec => ImplementsImport
<1>1. Init => Import!Init
  BY InitImplements
<1>2. IInv /\ [Next]_vars => [Import!Next]_(Import!vars)
  <2> SUFFICES ASSUME IInv, [Next]_vars
               PROVE  Import!Next \/ UNCHANGED <<newest, ledger, acked>>
    BY DEF Import!vars
  <2>1. CASE Record
    BY <2>1 DEF Record, Import!Next, Import!Produce
  <2>2. CASE PersistPage
    BY <2>2, PersistImplements DEF Import!Next
  <2>3. CASE AckPage \/ \E n \in late : LateAck(n)
    BY <2>3, AckImplements DEF Import!Next
  <2>4. CASE \/ Outage \/ Reconnect \/ PublishState \/ Schedule
             \/ RetryDelayEnds \/ FetchPage \/ RunFails \/ RunTooLong
             \/ RestartBackend \/ UNCHANGED vars
    BY <2>4 DEF Outage, Reconnect, PublishState, Schedule, RetryDelayEnds, FetchPage,
       RunFails, RunTooLong, RestartBackend, vars, device
  <2> QED  BY <2>1, <2>2, <2>3, <2>4 DEF Next
<1> QED  BY <1>1, <1>2, Inductive, PTL DEF Spec, ImplementsImport, Import!Spec
=============================================================================
