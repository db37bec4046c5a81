--------------------------- MODULE PowerIngestion ---------------------------
(***************************************************************************)
(* The power samples of the devices, one channel each: the ingestion       *)
(* worker stores what state messages carry, the history recovery imports   *)
(* what a device recorded on its own, and both write the daily summaries   *)
(* that outlive the samples.  A device is found by its routing identity,   *)
(* through a cache.  A sample is named by its timestamp, and a summary by  *)
(* the samples it was computed from.  A sample that the contract of        *)
(* measurements refuses changes nothing and is left out.                   *)
(***************************************************************************)
EXTENDS Naturals, FiniteSetsExt

CONSTANTS
    Devices, Ids, None,
    DAY, INTERVAL,          \* length of a day, POWER_HISTORY_INTERVAL_SECONDS
    KEEP, SUMMARY_KEEP,     \* retention of samples and of summaries, in days
    PAGE,                   \* HISTORY_PAGE_LIMIT
    Delay,                  \* age of a state message when it is handled, at most
    Duration,               \* of one pass of the worker and of one page, at most
    MaxTime, MaxPages, MaxFaults, MaxMoves      \* model bounds

ASSUME PowerConstants ==
    /\ None \notin Devices \cup Ids
    /\ INTERVAL <= DAY
    /\ {DAY, INTERVAL, KEEP, PAGE} \subseteq Nat \ {0}
    /\ {SUMMARY_KEEP, Delay, Duration, MaxTime, MaxPages, MaxFaults, MaxMoves} \subseteq Nat
    /\ KEEP <= SUMMARY_KEEP

\* Messages, passes and pages are short against the retention of the samples.
ASSUME RetentionAssumption ==
    /\ Delay + Duration <= (KEEP - 1) * DAY
    /\ 2 * Duration <= (KEEP - 1) * DAY
    /\ Duration <= DAY

VARIABLES
    time,
    route,      \* the routing identity of each device
    cache,      \* _power_ingestion_cache, by routing identity
    checked,    \* _daily_summary_checked_date of each channel
    stored,     \* power_measurements of each channel
    summary,    \* power_daily_summaries: the samples counted, or None
    worker,     \* the pass of the ingestion worker after a stored sample
    page,       \* the page the recovery worker has in its transaction
    spent,      \* pages, faults and moves so far
    sampled,    \* history: samples the worker stored and knows of
    straddled,  \* history: samples stored on a later day than their own
    foreign,    \* history: samples of one device in the channel of another
    left        \* history: identities that devices gave up since the last start

tables  == <<stored, summary>>
history == <<sampled, straddled, foreign, left>>
vars    == <<time, route, cache, checked, tables, worker, page, spent, history>>

Times == 0 .. MaxTime
Days  == 0 .. MaxTime \div DAY

DayOf(t)      == t \div DAY
OfDay(set, d) == {t \in set : DayOf(t) = d}

\* _build_summary: no summary of a day without a sample.
Summaries(d) == (SUBSET OfDay(Times, d)) \ {{}}

NoPass == [pc |-> "idle", device |-> None, day |-> 0, from |-> 0, read |-> {}, at |-> 0]
NoPage == [pc |-> "idle", device |-> None, times |-> {}, today |-> 0, at |-> 0,
           built |-> [d \in Days |-> None], fresh |-> {}]

ASSUME NoneIsNothing == None \notin Nat /\ \A set \in SUBSET Times : set # None

Channels == [device: Devices, last: Times \cup {None}]
Passes   == [pc: {"idle", "summarising", "inserting", "cleaning"},
             device: Devices \cup {None}, day: Days, from: Nat,
             read: SUBSET Times, at: Times]
Pages    == [pc: {"idle", "inserted", "built"}, device: Devices \cup {None},
             times: SUBSET Times, today: Days, at: Times,
             built: [Days -> {None} \cup SUBSET Times], fresh: SUBSET Days]

TypeOK ==
    /\ time \in Times
    /\ route \in [Devices -> Ids \cup {None}]
    /\ cache \in [Ids -> Channels \cup {None}]
    /\ checked \in [Devices -> Days \cup {None}]
    /\ stored \in [Devices -> SUBSET Times]
    /\ summary \in [Devices -> [Days -> {None} \cup SUBSET Times]]
    /\ \A e \in Devices, d \in Days :
            summary[e][d] \in {None} \cup Summaries(d)
    /\ worker \in Passes /\ page \in Pages
    /\ sampled \in [Devices -> SUBSET Times] /\ straddled \in [Devices -> SUBSET Times]
    /\ foreign \subseteq Devices \X Times /\ left \subseteq Devices \X Ids

Init ==
    /\ time = 0
    /\ route \in {r \in [Devices -> Ids \cup {None}] :
                    \A d, e \in Devices : r[d] = r[e] /\ r[d] # None => d = e}
    /\ cache = [i \in Ids |-> None]
    /\ checked = [e \in Devices |-> None]
    /\ stored = [e \in Devices |-> {}]
    /\ summary = [e \in Devices |-> [d \in Days |-> None]]
    /\ worker = NoPass /\ page = NoPage
    /\ spent = [pages |-> 0, faults |-> 0, moves |-> 0]
    /\ sampled = [e \in Devices |-> {}]
    /\ straddled = [e \in Devices |-> {}]
    /\ foreign = {} /\ left = {}

Tick ==
    /\ time < MaxTime
    /\ worker.pc # "idle" => time < worker.at + Duration
    /\ page.pc # "idle" => time < page.at + Duration
    /\ time' = time + 1
    /\ UNCHANGED <<route, cache, checked, tables, worker, page, spent, history>>

Spend(what, max) ==
    /\ spent[what] < max
    /\ spent' = [spent EXCEPT ![what] = @ + 1]

\* claim_device gives a device the routing identity it has proved, unless
\* another device has it.  The cache is not told.
Claim(e, i) ==
    /\ \A d \in Devices : route[d] # i
    /\ Spend("moves", MaxMoves)
    /\ route' = [route EXCEPT ![e] = i]
    /\ left' = IF route[e] = None THEN left ELSE left \cup {<<e, route[e]>>}
    /\ UNCHANGED <<time, cache, checked, tables, worker, page, sampled, straddled, foreign>>
-----------------------------------------------------------------------------
(* A state message.                                                        *)

\* Mutant of Latest: a restart begins as if nothing had been stored.
LatestForgotten(e) == None

Latest(e) == IF stored[e] = {} THEN None ELSE Max(stored[e])

\* _get_power_channel_state: what the cache has, or the rows of the device.
Channel(i) ==
    IF cache[i] # None THEN cache[i]
    ELSE LET e == CHOOSE e \in Devices : route[e] = i IN
         [device |-> e, last |-> Latest(e)]

\* Neither older than the latest sample nor too close to it.
Due(channel, t) == channel.last # None => t >= channel.last + INTERVAL

Recorded(i, t) == [cache EXCEPT ![i] = [Channel(i) EXCEPT !.last = t]]

\* The row of t is locked by a page that is not committed.
Locked(e, t) == page.device = e /\ t \in page.times \ stored[e]

\* Stores the sample t of the device e in the channel c.
Store(e, c, t) ==
    /\ stored' = [stored EXCEPT ![c] = @ \cup {t}]
    /\ straddled' = IF DayOf(time) > DayOf(t)
                    THEN [straddled EXCEPT ![c] = @ \cup {t}] ELSE straddled
    /\ foreign' = IF c # e THEN foreign \cup {<<c, t>>} ELSE foreign

SkipSample(e, t) ==
    LET i == route[e] IN
    /\ worker.pc = "idle" /\ i # None /\ ~Due(Channel(i), t)
    /\ cache' = [cache EXCEPT ![i] = Channel(i)]
    /\ UNCHANGED <<time, route, checked, tables, worker, page, spent, history>>

\* The commit, and the date of the last check: another one starts a pass over
\* the completed days.
StoreSample(e, t) ==
    LET i == route[e]  c == Channel(i).device IN
    /\ worker.pc = "idle" /\ i # None /\ Due(Channel(i), t)
    /\ t \notin stored[c] /\ ~Locked(c, t)
    /\ Store(e, c, t)
    /\ sampled' = [sampled EXCEPT ![c] = @ \cup {t}]
    /\ cache' = Recorded(i, t)
    /\ worker' = IF checked[c] = DayOf(t) THEN NoPass
                 ELSE [pc |-> "summarising", device |-> c, day |-> DayOf(t),
                       from |-> DayOf(Min(stored'[c])), read |-> {}, at |-> time]
    /\ UNCHANGED <<time, route, checked, summary, page, spent, left>>

\* SQLSTATE 23505: the recovery has imported a sample of this moment.
DuplicateSample(e, t) ==
    LET i == route[e]  c == Channel(i).device IN
    /\ worker.pc = "idle" /\ i # None /\ Due(Channel(i), t) /\ t \in stored[c]
    /\ cache' = Recorded(i, t)
    /\ UNCHANGED <<time, route, checked, tables, worker, page, spent, history>>

\* The transaction fails, or its commit succeeds and the answer is lost.
StoreFails(e, t) ==
    LET i == route[e]  c == Channel(i).device IN
    /\ worker.pc = "idle" /\ i # None /\ Due(Channel(i), t)
    /\ t \notin stored[c] /\ ~Locked(c, t)
    /\ Spend("faults", MaxFaults)
    /\ \/ Store(e, c, t)
       \/ UNCHANGED <<stored, straddled, foreign>>
    /\ cache' = [cache EXCEPT ![i] = Channel(i)]
    /\ UNCHANGED <<time, route, checked, summary, worker, page, sampled, left>>

\* What the worker makes of a state message of e, measured at t.
StateMessage(e, t) ==
    /\ t <= time /\ time <= t + Delay
    /\ \/ SkipSample(e, t) \/ StoreSample(e, t)
       \/ DuplicateSample(e, t) \/ StoreFails(e, t)
-----------------------------------------------------------------------------
(* The pass over the completed days and the retention.                     *)

\* Mutant of Unsummarised: days without a sample are not passed over.
EveryDay == {d \in worker.from .. (worker.day - 1) : summary[worker.device][d] = None}

\* Completed days from the oldest sample on that have samples and no summary.
Unsummarised ==
    {d \in worker.from .. (worker.day - 1) :
        summary[worker.device][d] = None /\ OfDay(stored[worker.device], d) # {}}

\* summarize_completed_days reads the samples of the next such day.
ReadDay ==
    /\ worker.pc = "summarising"
    /\ worker' = IF worker.day = 0 \/ Unsummarised = {}
                 THEN [worker EXCEPT !.pc = "cleaning"]
                 ELSE LET d == Min(Unsummarised) IN
                      [worker EXCEPT !.pc = "inserting", !.from = d,
                                     !.read = OfDay(stored[worker.device], d)]
    /\ UNCHANGED <<time, route, cache, checked, tables, page, spent, history>>

\* The insertion and its commit; a summary the recovery has committed since
\* violates the key and ends the pass.
InsertSummary ==
    LET e == worker.device  d == worker.from IN
    /\ worker.pc = "inserting"
    /\ IF summary[e][d] = None
       THEN /\ summary' = [summary EXCEPT ![e][d] = worker.read]
            /\ worker' = [worker EXCEPT !.pc = "summarising", !.from = d + 1, !.read = {}]
       ELSE /\ worker' = NoPass
            /\ UNCHANGED summary
    /\ UNCHANGED <<time, route, cache, checked, stored, page, spent, history>>

\* Mutant of Expired: the retention is taken in the unit of the timestamps.
ExpiredEarly(t) == t + KEEP < time

Expired(t) == t + KEEP * DAY < time

\* cleanup_channel_history with the clock of this moment, and its commit.
Clean ==
    LET e == worker.device IN
    /\ worker.pc = "cleaning"
    /\ stored' = [stored EXCEPT ![e] = {t \in @ : ~Expired(t)}]
    /\ summary' = [summary EXCEPT ![e] =
            [d \in Days |-> IF d + SUMMARY_KEEP < DayOf(time) THEN None ELSE @[d]]]
    /\ checked' = [checked EXCEPT ![e] = worker.day]
    /\ worker' = NoPass
    /\ UNCHANGED <<time, route, cache, page, spent, history>>

\* An error in the pass: the date is not marked, and the next sample repeats it.
PassFails ==
    /\ worker.pc # "idle"
    /\ Spend("faults", MaxFaults)
    /\ worker' = NoPass
    /\ UNCHANGED <<time, route, cache, checked, tables, page, history>>
-----------------------------------------------------------------------------
(* persist_page of the history recovery, one transaction.                  *)

\* The clock, and the rows of the page that are not there yet.
InsertPage(e, times) ==
    /\ page.pc = "idle" /\ route[e] # None
    /\ Spend("pages", MaxPages)
    /\ page' = [NoPage EXCEPT !.pc = "inserted", !.device = e, !.at = time,
                              !.today = DayOf(time), !.times = times \ stored[e],
                              !.fresh = {DayOf(t) : t \in times}]
    /\ UNCHANGED <<time, route, cache, checked, tables, worker, history>>

\* Mutant of Late: the day before is not complete yet.
LateByTwo(d) == d + 1 < page.today

Late(d) == d < page.today

\* rebuild_completed_day_summary for each day the page is late for: its samples
\* are read and its summary deleted.  The new one is inserted by the commit, unless
\* the day has no sample any more.
RebuildDays ==
    LET e == page.device
        late == {d \in page.fresh : Late(d)} IN
    /\ page.pc = "inserted"
    /\ page' = [page EXCEPT !.pc = "built",
            !.built = [d \in Days |->
                        IF d \in late THEN OfDay(stored[e] \cup page.times, d) ELSE None],
            !.fresh = {d \in late : summary[e][d] = None}]
    /\ UNCHANGED <<time, route, cache, checked, tables, worker, spent, history>>

\* A summary the ingestion worker has committed in between violates the key.
CommitPage ==
    LET e == page.device IN
    /\ page.pc = "built"
    /\ \A d \in page.fresh : summary[e][d] = None
    /\ stored' = [stored EXCEPT ![e] = @ \cup page.times]
    /\ summary' = [summary EXCEPT ![e] =
            [d \in Days |-> IF page.built[d] = None THEN @[d]
                            ELSE IF page.built[d] = {} THEN None ELSE page.built[d]]]
    /\ straddled' = [straddled EXCEPT ![e] =
            @ \cup {t \in page.times : page.today <= DayOf(t) /\ DayOf(t) < DayOf(time)}]
    /\ page' = NoPage
    /\ UNCHANGED <<time, route, cache, checked, worker, spent, sampled, foreign, left>>

PageConflicts ==
    /\ page.pc = "built"
    /\ \E d \in page.fresh : summary[page.device][d] # None
    /\ page' = NoPage
    /\ UNCHANGED <<time, route, cache, checked, tables, worker, spent, history>>

PageFails ==
    /\ page.pc # "idle"
    /\ Spend("faults", MaxFaults)
    /\ page' = NoPage
    /\ UNCHANGED <<time, route, cache, checked, tables, worker, history>>

RestartBackend ==
    /\ Spend("faults", MaxFaults)
    /\ cache' = [i \in Ids |-> None]
    /\ checked' = [e \in Devices |-> None]
    /\ worker' = NoPass /\ page' = NoPage
    /\ left' = {}
    /\ UNCHANGED <<time, route, tables, sampled, straddled, foreign>>
-----------------------------------------------------------------------------
Next ==
    \/ Tick
    \/ \E e \in Devices, i \in Ids : Claim(e, i)
    \/ \E e \in Devices, t \in Times : StateMessage(e, t)
    \/ ReadDay \/ InsertSummary \/ Clean \/ PassFails
    \/ \E e \in Devices, times \in UNION {kSubset(k, 0 .. time) : k \in 1 .. PAGE} :
        InsertPage(e, times)
    \/ RebuildDays \/ CommitPage \/ PageConflicts \/ PageFails
    \/ RestartBackend

Spec == Init /\ [][Next]_vars
-----------------------------------------------------------------------------
(* Correctness.                                                            *)

\* A daily summary counts every stored sample of its day, whichever of the two
\* writers stored it and whichever wrote the summary last.  The exceptions are
\* the samples whose storing began on one day and ended on the next.
SummariesCount ==
    \A e \in Devices, d \in Days :
        summary[e][d] # None =>
            OfDay(stored[e], d) \subseteq summary[e][d] \cup straddled[e]

\* The retention deletes a sample only when its day has a summary, or is too
\* old for one.
SummarisedBeforeDeleted ==
    [][\A e \in Devices : \A t \in stored[e] \ stored'[e] :
            \/ summary'[e][DayOf(t)] # None
            \/ DayOf(t) + SUMMARY_KEEP < DayOf(time)]_vars

\* The samples the worker stores are INTERVAL apart, also over a restart and
\* with imported samples in between.
SamplesSpaced ==
    \A e \in Devices : \A s, t \in sampled[e] : s < t => s + INTERVAL <= t

\* A sample is stored in the channel of the device that measured it, whatever
\* its routing identity was and is.
MeasuredByDevice == foreign = {}
=============================================================================
