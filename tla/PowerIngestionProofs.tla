------------------------ MODULE PowerIngestionProofs ------------------------
(***************************************************************************)
(* Proofs about PowerIngestion: what a daily summary counts, that no       *)
(* sample is deleted before its day is summarised, and how far the samples *)
(* of a channel are apart, for any fleet, calendar and retention that the  *)
(* assumptions of the model allow.                                         *)
(***************************************************************************)
EXTENDS PowerIngestion, WellFoundedInduction, TLAPS

\* How old a sample is when the retention deletes it.
Span == KEEP * DAY

First(d) == d * DAY

\* The day up to which the pass has looked at the samples of its channel.
Reached == IF worker.pc = "cleaning" THEN worker.day ELSE worker.from

\* The sample t cannot expire before the pass is over.
Safe(t) == worker.at + Duration <= t + Span

\* A pass was started by a recent sample; behind it every day that has samples has a
\* summary, or its samples are not going to expire; and the samples it has read are
\* those of the day, as long as nobody else summarises it.
WorkerTrue ==
    worker.pc # "idle" =>
        LET e == worker.device IN
        /\ e \in Devices
        /\ worker.at <= time /\ time <= worker.at + Duration
        /\ worker.day <= DayOf(worker.at)
        /\ worker.at < First(worker.day) + DAY + Delay
        /\ \A t \in stored[e] : DayOf(t) < Reached =>
             summary[e][DayOf(t)] # None \/ Safe(t)
        /\ worker.pc = "inserting" =>
             /\ worker.from < worker.day /\ worker.read \in Summaries(worker.from)
             /\ summary[e][worker.from] = None =>
                  OfDay(stored[e], worker.from) \subseteq worker.read \cup straddled[e]

\* A page has rebuilt every completed day it brings samples for.  What was stored
\* since is late for its day.
PageTrue ==
    page.pc # "idle" =>
        LET e == page.device IN
        /\ e \in Devices
        /\ page.at <= time /\ time <= page.at + Duration
        /\ page.today = DayOf(page.at)
        /\ \A t \in page.times : t <= page.at /\ (page.pc = "inserted" => DayOf(t) \in page.fresh)
        /\ page.pc = "built" =>
             /\ \A t \in page.times : DayOf(t) < page.today =>
                  page.built[DayOf(t)] # None /\ t \in page.built[DayOf(t)]
             /\ \A d \in Days : page.built[d] # None =>
                  /\ d < page.today
                  /\ page.built[d] \subseteq OfDay(Times, d)
                  /\ OfDay(stored[e], d) \subseteq page.built[d] \cup straddled[e]
                  /\ page.built[d] = {} => \A t \in OfDay(stored[e], d) : page.at <= t + Delay

\* Only completed days are summarised.
CompletedOnly ==
    \A e \in Devices, d \in Days : summary[e][d] # None => d < DayOf(time)

IInv == TypeOK /\ WorkerTrue /\ PageTrue /\ CompletedOnly /\ SummariesCount
-----------------------------------------------------------------------------
(* The samples of the worker.                                              *)

\* A device keeps the routing identity it has.
KeepsRoute == \A e \in Devices : route[e] # None => route'[e] = route[e]

Gone(t) == t + Span < time

RoutesApart ==
    \A d, e \in Devices : route[d] = route[e] /\ route[d] # None => d = e

\* What the cache has of a channel is not older than the samples the worker stored
\* there, but for those that the retention may have deleted.
CacheKnows ==
    \A i \in Ids : cache[i] # None =>
        /\ route[cache[i].device] = i
        /\ \A s \in sampled[cache[i].device] :
             Gone(s) \/ (cache[i].last # None /\ s <= cache[i].last)

StoredKnows == \A e \in Devices : \A s \in sampled[e] : s \in stored[e] \/ Gone(s)

Spacing == RoutesApart /\ CacheKnows /\ StoredKnows /\ SamplesSpaced
-----------------------------------------------------------------------------
(* Lemmas about numbers, days and sets of moments.                         *)

LEMMA MinOf ==
    ASSUME NEW S \in SUBSET Nat, S # {}
    PROVE  Min(S) \in S /\ \A y \in S : Min(S) <= y
<1>1. IsWellFoundedOn(OpToRel(<, Nat), Nat)
  BY NatLessThanWellFounded
<1>2. PICK x \in S : \A y \in S : ~(<<y, x>> \in OpToRel(<, Nat))
  BY <1>1, WFMin
<1>3. \A y \in S : ~(y < x)
  BY <1>2 DEF OpToRel
<1>4. \A y \in S : x <= y
  BY <1>3
<1> QED  BY <1>4, Zenon DEF Min

LEMMA MaxOf ==
    ASSUME NEW N \in Nat, NEW S \in SUBSET (0 .. N), S # {}
    PROVE  Max(S) \in S /\ \A y \in S : y <= Max(S)
<1> DEFINE R == {N - s : s \in S}
<1>1. R \in SUBSET Nat
  <2>1. \A s \in S : N - s \in Nat
    OBVIOUS
  <2> QED  BY <2>1
<1>2. R # {}
  OBVIOUS
<1>3. Min(R) \in R /\ \A y \in R : Min(R) <= y
  BY <1>1, <1>2, MinOf
<1>4. PICK x \in S : Min(R) = N - x
  BY <1>3
<1>5. \A y \in S : N - y \in R
  OBVIOUS
<1> HIDE DEF R
<1>6. ASSUME NEW y \in S PROVE x >= y
  <2>1. N - x <= N - y
    BY <1>3, <1>4, <1>5
  <2> QED  BY <2>1
<1>7. Max(S) \in S /\ \A y \in S : Max(S) >= y
  BY <1>6, Zenon DEF Max
<1> QED  BY <1>7

\* A day is its moments.
LEMMA DayBounds ==
    ASSUME NEW t \in Nat
    PROVE  /\ DayOf(t) \in Nat /\ First(DayOf(t)) \in Nat
           /\ First(DayOf(t)) <= t /\ t < First(DayOf(t)) + DAY
<1>1. DAY \in Nat \ {0}
  BY PowerConstants
<1>2. t \div DAY \in Nat /\ DAY * (t \div DAY) <= t /\ t < DAY * (t \div DAY) + DAY
  BY <1>1
<1>3. (t \div DAY) * DAY = DAY * (t \div DAY)
  BY <1>1, <1>2
<1>4. DAY * (t \div DAY) \in Nat
  BY <1>1, <1>2
<1> QED  BY <1>2, <1>3, <1>4 DEF DayOf, First

LEMMA DayOrder ==
    ASSUME NEW d \in Nat, NEW e \in Nat, d < e
    PROVE  First(d) \in Nat /\ First(d) + DAY <= First(e)
<1>1. DAY \in Nat
  BY PowerConstants
<1>2. d * DAY \in Nat /\ (d + 1) * DAY = d * DAY + DAY
  BY <1>1
<1>3. (d + 1) * DAY <= e * DAY
  BY <1>1
<1> QED  BY <1>2, <1>3 DEF First

LEMMA DayMonotone ==
    ASSUME NEW s \in Nat, NEW t \in Nat, s <= t
    PROVE  DayOf(s) <= DayOf(t)
  BY PowerConstants DEF DayOf

LEMMA DayTypes ==
    ASSUME NEW t \in Times
    PROVE  t \in Nat /\ DayOf(t) \in Days /\ DayOf(t) \in Nat
<1>1. MaxTime \in Nat /\ t \in Nat /\ t <= MaxTime
  BY PowerConstants DEF Times
<1>2. DayOf(t) <= MaxTime \div DAY /\ MaxTime \div DAY \in Nat
  BY <1>1, DayMonotone, PowerConstants DEF DayOf
<1> QED  BY <1>1, <1>2, DayBounds DEF Days

LEMMA DaysAreNaturals == Days \subseteq Nat /\ Times \subseteq Nat
  BY PowerConstants DEF Days, Times

\* What the assumptions say of the lengths.
LEMMA Lengths ==
    /\ Span \in Nat /\ Delay \in Nat /\ Duration \in Nat
    /\ DAY \in Nat \ {0} /\ INTERVAL \in Nat \ {0} /\ INTERVAL <= DAY
    /\ Delay + Duration + DAY <= Span /\ 2 * Duration + DAY <= Span /\ Duration <= DAY
<1>1. /\ KEEP \in Nat \ {0} /\ DAY \in Nat \ {0} /\ INTERVAL \in Nat \ {0}
      /\ Delay \in Nat /\ Duration \in Nat /\ INTERVAL <= DAY
  BY PowerConstants
<1>2. Span \in Nat /\ (KEEP - 1) * DAY = Span - DAY
  BY <1>1 DEF Span
<1> QED  BY <1>1, <1>2, RetentionAssumption

LEMMA ExpiredSpan == \A t : Expired(t) <=> t + Span < time
  BY DEF Expired, Span
-----------------------------------------------------------------------------
(* Lemmas about the state.                                                 *)

\* The parts of TypeOK that steps prove one by one.
RouteType ==
    /\ route \in [Devices -> Ids \cup {None}] /\ left \subseteq Devices \X Ids
    /\ cache \in [Ids -> Channels \cup {None}]
    /\ checked \in [Devices -> Days \cup {None}]
StoredType == stored \in [Devices -> SUBSET Times]
SummaryType ==
    /\ summary \in [Devices -> [Days -> {None} \cup SUBSET Times]]
    /\ \A e \in Devices, d \in Days : summary[e][d] \in {None} \cup Summaries(d)
WorkerType == worker \in Passes
PageType == page \in Pages
HistoryType ==
    /\ sampled \in [Devices -> SUBSET Times] /\ straddled \in [Devices -> SUBSET Times]
    /\ foreign \subseteq Devices \X Times

LEMMA TypeParts ==
    TypeOK <=> /\ time \in Times /\ RouteType /\ StoredType /\ SummaryType
               /\ WorkerType /\ PageType /\ HistoryType
  BY DEF TypeOK, RouteType, StoredType, SummaryType, WorkerType, PageType, HistoryType

LEMMA TypePartsNext ==
    TypeOK' <=> /\ time' \in Times /\ RouteType' /\ StoredType' /\ SummaryType'
                /\ WorkerType' /\ PageType' /\ HistoryType'
  BY DEF TypeOK, RouteType, StoredType, SummaryType, WorkerType, PageType, HistoryType

LEMMA NoPassType == NoPass \in Passes /\ NoPass.pc = "idle"
  BY DaysAreNaturals, PowerConstants DEF NoPass, Passes, Days, Times

LEMMA NoPageType == NoPage \in Pages /\ NoPage.pc = "idle"
<1>1. 0 \in Days /\ 0 \in Times /\ [d \in Days |-> None] \in [Days -> {None} \cup SUBSET Times]
  BY PowerConstants DEF Days, Times
<1> QED  BY <1>1 DEF NoPage, Pages

\* The samples of one channel.
LEMMA StoredTimes ==
    ASSUME TypeOK, NEW e \in Devices
    PROVE  /\ stored[e] \subseteq Times /\ stored[e] \subseteq Nat
           /\ straddled[e] \subseteq Times /\ sampled[e] \subseteq Times
           /\ \A t \in stored[e] : t \in Nat /\ DayOf(t) \in Days /\ DayOf(t) \in Nat
  BY DayTypes, DaysAreNaturals DEF TypeOK

\* The numbers of a pass and of a page.
LEMMA Numbers ==
    ASSUME TypeOK
    PROVE  /\ time \in Nat /\ worker.at \in Nat /\ page.at \in Nat
           /\ worker.day \in Nat /\ worker.from \in Nat /\ page.today \in Nat
           /\ Reached \in Nat
<1>1. worker \in Passes /\ page \in Pages /\ time \in Times
  BY DEF TypeOK
<1>2. worker.at \in Times /\ worker.day \in Days /\ worker.from \in Nat
  BY <1>1 DEF Passes
<1>3. page.at \in Times /\ page.today \in Days
  BY <1>1 DEF Pages
<1> QED  BY <1>1, <1>2, <1>3, DaysAreNaturals DEF Reached

\* The pass, the page and the summaries stay as they are, and so does what is stored.
LEMMA WorkerFrame ==
    ASSUME TypeOK, WorkerTrue, UNCHANGED <<worker, stored, summary, straddled>>,
           worker.pc # "idle" => time <= time' /\ time' <= worker.at + Duration,
           time' \in Times
    PROVE  WorkerTrue'
<1>1. worker.pc # "idle" => worker.at <= time'
  BY Numbers, DaysAreNaturals DEF WorkerTrue
<1> QED  BY <1>1 DEF WorkerTrue, Reached, Safe

LEMMA PageFrame ==
    ASSUME TypeOK, PageTrue, UNCHANGED <<page, stored, straddled>>,
           page.pc # "idle" => time <= time' /\ time' <= page.at + Duration,
           time' \in Times
    PROVE  PageTrue'
<1>1. page.pc # "idle" => page.at <= time'
  BY Numbers, DaysAreNaturals DEF PageTrue
<1> QED  BY <1>1 DEF PageTrue

LEMMA SummaryFrame ==
    ASSUME TypeOK, SummariesCount, CompletedOnly, UNCHANGED summary,
           \A e \in Devices : stored'[e] \subseteq stored[e] /\ straddled[e] \subseteq straddled'[e],
           time' \in Times, time <= time'
    PROVE  SummariesCount' /\ CompletedOnly'
<1>1. time \in Nat /\ time' \in Nat /\ DayOf(time) <= DayOf(time')
  BY DaysAreNaturals, DayMonotone DEF TypeOK
<1>2. DayOf(time) \in Nat /\ DayOf(time') \in Nat
  BY <1>1, DayBounds
<1>3. CompletedOnly'
  BY <1>1, <1>2, DaysAreNaturals DEF CompletedOnly
<1> QED  BY <1>3 DEF SummariesCount, OfDay
-----------------------------------------------------------------------------
(* Every step preserves the invariant.                                     *)

\* The time stays and the worker is idle again.
LEMMA IdleWorker ==
    ASSUME worker' = NoPass
    PROVE  WorkerType' /\ WorkerTrue'
  BY NoPassType DEF WorkerType, WorkerTrue

LEMMA NoPageLeft ==
    ASSUME page' = NoPage
    PROVE  PageType' /\ PageTrue'
  BY NoPageType DEF PageType, PageTrue

\* The steps that touch neither the tables, nor the pass, nor the page.
LEMMA ElsewhereStep ==
    ASSUME IInv, RouteType', HistoryType',
           UNCHANGED <<time, stored, summary, worker, page, straddled>>
    PROVE  IInv'
<1> USE DEF IInv
<1>1. /\ time' \in Times /\ StoredType' /\ SummaryType' /\ WorkerType' /\ PageType'
      /\ time <= time'
  BY TypeParts, Numbers DEF StoredType, SummaryType, WorkerType, PageType
<1>2. WorkerTrue'
  BY <1>1, WorkerFrame DEF WorkerTrue
<1>3. PageTrue'
  BY <1>1, PageFrame DEF PageTrue
<1>4. SummariesCount' /\ CompletedOnly'
  BY <1>1, SummaryFrame
<1> QED  BY <1>1, <1>2, <1>3, <1>4, TypePartsNext

\* Time passes, but not beyond the end of a pass or of a page.
LEMMA TickStep ==
    ASSUME IInv, Tick
    PROVE  IInv'
<1> USE DEF IInv, Tick, tables, history
<1>1. time' \in Times /\ time <= time' /\ time' = time + 1
  BY Numbers, PowerConstants DEF Times
<1>2. /\ RouteType' /\ StoredType' /\ SummaryType' /\ WorkerType' /\ PageType'
      /\ HistoryType'
  BY TypeParts DEF RouteType, StoredType, SummaryType, WorkerType, PageType, HistoryType
<1>3. WorkerTrue'
  <2>1. worker.pc # "idle" => time' <= worker.at + Duration
    BY <1>1, Numbers, Lengths
  <2> QED  BY <1>1, <2>1, WorkerFrame
<1>4. PageTrue'
  <2>1. page.pc # "idle" => time' <= page.at + Duration
    BY <1>1, Numbers, Lengths
  <2> QED  BY <1>1, <2>1, PageFrame
<1>5. SummariesCount' /\ CompletedOnly'
  BY <1>1, SummaryFrame
<1> QED  BY <1>1, <1>2, <1>3, <1>4, <1>5, TypePartsNext

\* A device gets a routing identity.
LEMMA ClaimStep ==
    ASSUME IInv, NEW e \in Devices, NEW i \in Ids, Claim(e, i)
    PROVE  IInv'
<1> USE DEF Claim, tables, history
<1>1. RouteType' /\ HistoryType'
  BY TypeParts DEF IInv, RouteType, HistoryType
<1> QED  BY <1>1, ElsewhereStep

\* What the cache and the rows say of a channel.
LEMMA ChannelType ==
    ASSUME TypeOK, NEW e \in Devices, route[e] # None
    PROVE  /\ route[e] \in Ids /\ Channel(route[e]) \in Channels
           /\ Channel(route[e]).device \in Devices
           /\ Channel(route[e]).last \in Times \cup {None}
           /\ cache[route[e]] = None =>
                /\ route[Channel(route[e]).device] = route[e]
                /\ Channel(route[e]).last = Latest(Channel(route[e]).device)
<1> DEFINE i == route[e]
           c == CHOOSE d \in Devices : route[d] = i
<1>1. i \in Ids
  BY DEF TypeOK
<1>2. c \in Devices /\ route[c] = i
  OBVIOUS
<1>3. CASE cache[i] # None
  <2>1. Channel(i) = cache[i] /\ cache[i] \in Channels
    BY <1>1, <1>3 DEF Channel, TypeOK
  <2> QED  BY <1>1, <1>3, <2>1 DEF Channels
<1>4. CASE cache[i] = None
  <2>1. Channel(i) = [device |-> c, last |-> Latest(c)]
    BY <1>4 DEF Channel
  <2>2. Latest(c) \in Times \cup {None}
    <3>1. CASE stored[c] = {}
      BY <3>1 DEF Latest
    <3>2. CASE stored[c] # {}
      <4>1. stored[c] \in SUBSET (0 .. MaxTime) /\ MaxTime \in Nat
        BY <1>2, PowerConstants DEF TypeOK, Times
      <4>2. Max(stored[c]) \in stored[c]
        BY <3>2, <4>1, MaxOf
      <4>3. Latest(c) = Max(stored[c])
        BY <3>2 DEF Latest
      <4> QED  BY <4>1, <4>2, <4>3 DEF Times
    <3> QED  BY <3>1, <3>2
  <2> HIDE DEF c
  <2> QED  BY <1>1, <1>2, <2>1, <2>2 DEF Channels
<1> QED  BY <1>3, <1>4

\* A sample that is not stored changes the cache at most.
LEMMA CacheOnlyStep ==
    ASSUME IInv, NEW e \in Devices, NEW t \in Times, SkipSample(e, t) \/ DuplicateSample(e, t)
    PROVE  IInv'
<1> DEFINE i == route[e]
<1>1. /\ i # None /\ cache' \in {[cache EXCEPT ![i] = Channel(i)], Recorded(i, t)}
      /\ UNCHANGED <<time, route, checked, stored, summary, worker, page,
                     sampled, straddled, foreign, left>>
  BY DEF SkipSample, DuplicateSample, tables, history
<1>2. Channel(i) \in Channels /\ [Channel(i) EXCEPT !.last = t] \in Channels
  BY <1>1, ChannelType DEF IInv, Channels
<1>3. RouteType'
  BY <1>1, <1>2, TypeParts DEF IInv, RouteType, Recorded
<1>4. HistoryType'
  BY <1>1, TypeParts DEF IInv, HistoryType
<1> QED  BY <1>1, <1>3, <1>4, ElsewhereStep

\* A sample is stored: it is of today, whose summary is not written yet, or late.
LEMMA StoreKeeps ==
    ASSUME IInv, NEW e \in Devices, NEW c \in Devices, NEW t \in Times, Store(e, c, t),
           t <= time, time <= t + Delay, UNCHANGED <<time, summary, page>>
    PROVE  /\ StoredType' /\ straddled' \in [Devices -> SUBSET Times]
           /\ foreign' \subseteq Devices \X Times
           /\ PageTrue' /\ SummariesCount' /\ CompletedOnly'
           /\ stored'[c] = stored[c] \cup {t}
<1> USE DEF IInv, Store
<1>1. /\ t \in Nat /\ DayOf(t) \in Days /\ DayOf(t) \in Nat
      /\ time \in Nat /\ DayOf(time) \in Nat /\ DayOf(t) <= DayOf(time)
  BY DayTypes, Numbers, DayMonotone, DayBounds
<1>2. /\ StoredType' /\ straddled' \in [Devices -> SUBSET Times]
      /\ foreign' \subseteq Devices \X Times
  BY DEF StoredType, TypeOK
<1>3. /\ stored'[c] = stored[c] \cup {t}
      /\ \A d \in Devices \ {c} : stored'[d] = stored[d]
      /\ \A d \in Devices : straddled[d] \subseteq straddled'[d]
      /\ DayOf(t) < DayOf(time) => t \in straddled'[c]
  BY <1>1 DEF TypeOK
<1>4. CompletedOnly'
  BY DEF CompletedOnly
<1>5. SummariesCount'
  <2> SUFFICES ASSUME NEW d \in Devices, NEW day \in Days, summary[d][day] # None
               PROVE  OfDay(stored'[d], day) \subseteq summary[d][day] \cup straddled'[d]
    BY DEF SummariesCount
  <2>1. day < DayOf(time) /\ OfDay(stored[d], day) \subseteq summary[d][day] \cup straddled[d]
    BY DEF CompletedOnly, SummariesCount
  <2> QED  BY <1>3, <2>1 DEF OfDay
<1>6. PageTrue'
  <2> SUFFICES ASSUME page.pc # "idle" PROVE PageTrue'
    BY DEF PageTrue
  <2> DEFINE p == page.device
  <2>1. /\ p \in Devices /\ page.at <= time /\ page.today = DayOf(page.at)
        /\ page.at \in Nat /\ DayOf(page.at) <= DayOf(time)
        /\ time <= page.at + Duration
        /\ \A s \in page.times :
             s <= page.at /\ (page.pc = "inserted" => DayOf(s) \in page.fresh)
    BY Numbers, DayMonotone DEF PageTrue
  <2>2. page.at <= t + Delay
    BY <1>1, <2>1, Lengths
  <2>3. ASSUME page.pc = "built", NEW d \in Days, page.built[d] # None
        PROVE  /\ OfDay(stored'[p], d) \subseteq page.built[d] \cup straddled'[p]
               /\ page.built[d] = {} => \A s \in OfDay(stored'[p], d) : page.at <= s + Delay
    <3>1. /\ d < page.today
          /\ OfDay(stored[p], d) \subseteq page.built[d] \cup straddled[p]
          /\ page.built[d] = {} => \A s \in OfDay(stored[p], d) : page.at <= s + Delay
      BY <2>3 DEF PageTrue
    <3>2. d < DayOf(time)
      BY <2>1, <3>1, <1>1, DaysAreNaturals, Numbers
    <3> QED  BY <1>3, <2>2, <3>1, <3>2 DEF OfDay
  <2> QED  BY <2>1, <2>3 DEF PageTrue
<1> QED  BY <1>2, <1>3, <1>4, <1>5, <1>6

\* A sample of the worker is stored, and may start a pass.
LEMMA StoreSampleStep ==
    ASSUME IInv, NEW e \in Devices, NEW t \in Times, t <= time, time <= t + Delay,
           StoreSample(e, t)
    PROVE  IInv'
<1> USE DEF IInv, StoreSample
<1> DEFINE i == route[e]
           c == Channel(i).device
<1>1. i \in Ids /\ c \in Devices /\ Channel(i) \in Channels
  BY ChannelType
<1> HIDE DEF c
<1>2. Store(e, c, t) /\ UNCHANGED <<time, summary, page, route, checked, left>>
  BY DEF c
<1>3. /\ StoredType' /\ straddled' \in [Devices -> SUBSET Times]
      /\ foreign' \subseteq Devices \X Times
      /\ PageTrue' /\ SummariesCount' /\ CompletedOnly'
      /\ stored'[c] = stored[c] \cup {t}
  BY <1>1, <1>2, StoreKeeps
<1>4. HistoryType'
  BY <1>1, <1>3, TypeParts DEF HistoryType, c
<1>5. RouteType'
  <2>1. [Channel(i) EXCEPT !.last = t] \in Channels
    BY <1>1 DEF Channels
  <2> QED  BY <1>1, <2>1, TypeParts DEF RouteType, Recorded
<1>6. time' \in Times /\ SummaryType' /\ PageType'
  BY TypeParts DEF SummaryType, PageType
<1> DEFINE pass == [pc |-> "summarising", device |-> c, day |-> DayOf(t),
                    from |-> DayOf(Min(stored'[c])), read |-> {}, at |-> time]
<1>7. worker' \in {NoPass, pass}
  BY DEF c
<1>8. CASE worker' = NoPass
  BY <1>3, <1>4, <1>5, <1>6, <1>8, IdleWorker, TypePartsNext
<1>9. CASE worker' = pass
  <2>1. stored'[c] \in SUBSET Nat /\ stored'[c] # {} /\ t \in Nat /\ DayOf(t) \in Days
    BY <1>1, <1>3, StoredTimes, DayTypes
  <2>2. /\ Min(stored'[c]) \in Nat
        /\ \A s \in stored'[c] : Min(stored'[c]) <= s
    BY <2>1, MinOf
  <2>3. /\ DayOf(Min(stored'[c])) \in Nat
        /\ \A s \in stored'[c] : s \in Nat /\ DayOf(s) \in Nat /\ DayOf(Min(stored'[c])) <= DayOf(s)
    BY <2>1, <2>2, DayMonotone, DayBounds
  <2>4. WorkerType'
    BY <1>1, <1>9, <2>1, <2>3 DEF WorkerType, Passes, TypeOK
  <2>5. /\ time \in Nat /\ DayOf(t) <= DayOf(time) /\ time <= time + Duration
        /\ time < First(DayOf(t)) + DAY + Delay
    <3>1. time \in Nat /\ t \in Nat /\ Delay \in Nat /\ Duration \in Nat /\ DAY \in Nat
      BY <2>1, Numbers, Lengths
    <3>2. First(DayOf(t)) \in Nat /\ t < First(DayOf(t)) + DAY
      BY <3>1, DayBounds
    <3>3. DayOf(t) <= DayOf(time)
      BY <3>1, DayMonotone
    <3> QED  BY <3>1, <3>2, <3>3
  <2>6. /\ worker'.pc = "summarising" /\ worker'.device = c /\ worker'.day = DayOf(t)
        /\ worker'.from = DayOf(Min(stored'[c])) /\ worker'.at = time
    BY <1>9
  <2> HIDE DEF pass
  <2>7. \A s \in stored'[c] : ~(DayOf(s) < DayOf(Min(stored'[c])))
    BY <2>3
  <2>8. WorkerTrue'
    BY <1>1, <1>2, <2>5, <2>6, <2>7 DEF WorkerTrue, Reached
  <2> QED  BY <1>3, <1>4, <1>5, <1>6, <2>4, <2>8, TypePartsNext
<1> QED  BY <1>7, <1>8, <1>9

\* The transaction of a sample fails, or its answer is lost.
LEMMA StoreFailsStep ==
    ASSUME IInv, NEW e \in Devices, NEW t \in Times, t <= time, time <= t + Delay,
           StoreFails(e, t)
    PROVE  IInv'
<1> USE DEF IInv, StoreFails
<1> DEFINE i == route[e]
           c == Channel(i).device
<1>1. i \in Ids /\ c \in Devices /\ Channel(i) \in Channels
  BY ChannelType
<1>2. RouteType'
  BY <1>1, TypeParts DEF RouteType
<1>3. CASE Store(e, c, t)
  <2>1. /\ StoredType' /\ straddled' \in [Devices -> SUBSET Times]
        /\ foreign' \subseteq Devices \X Times
        /\ PageTrue' /\ SummariesCount' /\ CompletedOnly'
    BY <1>1, <1>3, StoreKeeps
  <2>2. HistoryType'
    BY <2>1, TypeParts DEF HistoryType
  <2>3. time' \in Times /\ SummaryType' /\ PageType' /\ WorkerType' /\ WorkerTrue'
    BY TypeParts DEF SummaryType, PageType, WorkerType, WorkerTrue
  <2> QED  BY <1>2, <2>1, <2>2, <2>3, TypePartsNext
<1>4. CASE UNCHANGED <<stored, straddled, foreign>>
  <2>1. HistoryType'
    BY <1>4, TypeParts DEF HistoryType
  <2> QED  BY <1>2, <1>4, <2>1, ElsewhereStep
<1> QED  BY <1>3, <1>4


\* The pass goes on to the next completed day without a summary, or to the retention.
LEMMA ReadDayStep ==
    ASSUME IInv, ReadDay
    PROVE  IInv'
<1> USE DEF IInv, ReadDay, tables, history
<1> DEFINE e == worker.device
<1>1. /\ worker.pc = "summarising" /\ e \in Devices /\ worker \in Passes
      /\ worker.at <= time /\ time <= worker.at + Duration
      /\ worker.day <= DayOf(worker.at) /\ worker.at < First(worker.day) + DAY + Delay
      /\ \A t \in stored[e] : DayOf(t) < worker.from => summary[e][DayOf(t)] # None \/ Safe(t)
  BY DEF WorkerTrue, Reached, TypeOK
<1>2. /\ time' \in Times /\ time <= time' /\ RouteType' /\ StoredType' /\ SummaryType'
      /\ PageType' /\ HistoryType'
  BY TypeParts, Numbers DEF RouteType, StoredType, SummaryType, PageType, HistoryType
<1>3. PageTrue'
  BY <1>2, PageFrame DEF PageTrue
<1>4. SummariesCount' /\ CompletedOnly'
  BY <1>2, SummaryFrame
<1>5. /\ Unsummarised \in SUBSET Nat
      /\ \A d \in Unsummarised : /\ worker.from <= d /\ d < worker.day /\ d \in Nat
                                 /\ summary[e][d] = None /\ OfDay(stored[e], d) # {}
      /\ \A d \in Nat : (/\ worker.from <= d /\ d < worker.day
                         /\ summary[e][d] = None /\ OfDay(stored[e], d) # {}) => d \in Unsummarised
  <2>1. worker.from \in Nat /\ worker.day \in Nat
    BY Numbers
  <2>2. Unsummarised \in SUBSET Nat
    BY <2>1 DEF Unsummarised
  <2>3. ASSUME NEW d \in Unsummarised
        PROVE  /\ worker.from <= d /\ d < worker.day /\ d \in Nat
               /\ summary[e][d] = None /\ OfDay(stored[e], d) # {}
    BY <2>1 DEF Unsummarised
  <2>4. ASSUME NEW d \in Nat, worker.from <= d, d < worker.day,
               summary[e][d] = None, OfDay(stored[e], d) # {}
        PROVE  d \in Unsummarised
    BY <2>1, <2>4 DEF Unsummarised
  <2> QED  BY <2>2, <2>3, <2>4
\* A stored sample of a day that the pass has passed over.
<1>6. ASSUME NEW t \in stored[e], NEW d \in Nat, DayOf(t) < d, d <= worker.day,
             \A y \in Unsummarised : d <= y
      PROVE  summary[e][DayOf(t)] # None \/ Safe(t)
  <2>1. t \in OfDay(stored[e], DayOf(t)) /\ DayOf(t) \in Nat /\ worker.from \in Nat /\ worker.day \in Nat
    BY <1>1, StoredTimes, Numbers DEF OfDay
  <2>2. CASE DayOf(t) < worker.from
    BY <1>1, <2>2
  <2>3. CASE worker.from <= DayOf(t)
    <3>1. DayOf(t) \notin Unsummarised /\ DayOf(t) < worker.day
      BY <1>6, <2>1
    <3> QED  BY <1>5, <2>1, <2>3, <3>1
  <2> QED  BY <2>1, <2>2, <2>3
<1>7. CASE worker.day = 0 \/ Unsummarised = {}
  <2>1. worker' = [worker EXCEPT !.pc = "cleaning"]
    BY <1>7
  <2>2. WorkerType'
    BY <1>1, <2>1 DEF WorkerType, Passes
  <2>3. /\ worker'.pc = "cleaning" /\ worker'.device = e /\ worker'.at = worker.at
        /\ worker'.day = worker.day
    BY <1>1, <2>1 DEF Passes
  <2>4. ASSUME NEW t \in stored[e], DayOf(t) < worker.day
        PROVE  summary[e][DayOf(t)] # None \/ Safe(t)
    <3>1. worker.day \in Nat /\ DayOf(t) \in Nat
      BY <1>1, StoredTimes, Numbers
    <3>2. Unsummarised = {}
      BY <1>7, <2>4, <3>1
    <3> QED  BY <1>6, <2>4, <3>1, <3>2
  <2>5. WorkerTrue'
    BY <1>1, <2>3, <2>4 DEF WorkerTrue, Reached, Safe
  <2> QED  BY <1>2, <1>3, <1>4, <2>2, <2>5, TypePartsNext
<1>8. CASE ~(worker.day = 0 \/ Unsummarised = {})
  <2> DEFINE d == Min(Unsummarised)
  <2>1. d \in Unsummarised /\ \A y \in Unsummarised : d <= y
    BY <1>5, <1>8, MinOf
  <2>2. worker' = [worker EXCEPT !.pc = "inserting", !.from = d, !.read = OfDay(stored[e], d)]
    BY <1>8
  <2> HIDE DEF d
  <2>3. d \in Nat /\ d < worker.day /\ OfDay(stored[e], d) \in Summaries(d)
    <3>1. stored[e] \subseteq Times
      BY <1>1, StoredTimes
    <3> QED  BY <1>5, <2>1, <3>1 DEF OfDay, Summaries
  <2>4. OfDay(stored[e], d) \in SUBSET Times
    BY <2>3 DEF Summaries, OfDay
  <2>5. WorkerType'
    BY <1>1, <2>2, <2>3, <2>4 DEF WorkerType, Passes
  <2>6. /\ worker'.pc = "inserting" /\ worker'.device = e /\ worker'.at = worker.at
        /\ worker'.day = worker.day /\ worker'.from = d /\ worker'.read = OfDay(stored[e], d)
    BY <1>1, <2>2 DEF Passes
  <2>7. ASSUME NEW t \in stored[e], DayOf(t) < d
        PROVE  summary[e][DayOf(t)] # None \/ Safe(t)
    <3>1. d <= worker.day
      BY <2>3, Numbers
    <3> QED  BY <1>6, <2>1, <2>3, <2>7, <3>1
  <2>8. WorkerTrue'
    BY <1>1, <2>3, <2>6, <2>7 DEF WorkerTrue, Reached, Safe
  <2> QED  BY <1>2, <1>3, <1>4, <2>5, <2>8, TypePartsNext
<1> QED  BY <1>7, <1>8

\* The summary that the pass has computed is inserted, unless there is one by now.
LEMMA InsertSummaryStep ==
    ASSUME IInv, InsertSummary
    PROVE  IInv'
<1> USE DEF IInv, InsertSummary, history
<1> DEFINE e == worker.device
           d == worker.from
<1>1. /\ worker.pc = "inserting" /\ e \in Devices /\ worker \in Passes
      /\ worker.at <= time /\ time <= worker.at + Duration
      /\ worker.day <= DayOf(worker.at) /\ worker.at < First(worker.day) + DAY + Delay
      /\ \A t \in stored[e] : DayOf(t) < d => summary[e][DayOf(t)] # None \/ Safe(t)
      /\ d < worker.day /\ worker.read \in Summaries(d)
      /\ summary[e][d] = None => OfDay(stored[e], d) \subseteq worker.read \cup straddled[e]
  BY DEF WorkerTrue, Reached, TypeOK
<1>2. /\ time' \in Times /\ time <= time' /\ RouteType' /\ StoredType' /\ PageType'
      /\ HistoryType'
  BY TypeParts, Numbers DEF RouteType, StoredType, PageType, HistoryType
<1>3. PageTrue'
  BY <1>2, PageFrame DEF PageTrue
<1>4. CASE summary[e][d] # None
  <2>1. worker' = NoPass /\ UNCHANGED summary
    BY <1>4
  <2>2. SummaryType' /\ SummariesCount' /\ CompletedOnly'
    BY <1>2, <2>1, SummaryFrame, TypeParts DEF SummaryType
  <2> QED  BY <1>2, <1>3, <2>1, <2>2, IdleWorker, TypePartsNext
<1>5. CASE summary[e][d] = None
  <2>1. /\ summary' = [summary EXCEPT ![e][d] = worker.read]
        /\ worker' = [worker EXCEPT !.pc = "summarising", !.from = d + 1, !.read = {}]
    BY <1>5
  <2>2. d \in Nat /\ worker.day \in Nat /\ worker.day \in Days /\ worker.at \in Nat /\ time \in Nat
    BY <1>1, Numbers DEF Passes
  <2>3. d \in Days
    BY <1>1, <2>2, PowerConstants DEF Days
  <2>4. d < DayOf(time)
    <3>1. DayOf(worker.at) <= DayOf(time) /\ DayOf(worker.at) \in Nat /\ DayOf(time) \in Nat
      BY <1>1, <2>2, DayMonotone, DayBounds
    <3> QED  BY <1>1, <2>2, <3>1
  <2>5. worker.read \in SUBSET Times /\ worker.read # None
    BY <1>1, NoneIsNothing DEF Passes
  <2>6. /\ summary'[e][d] = worker.read
        /\ \A c \in Devices, y \in Days : ~(c = e /\ y = d) => summary'[c][y] = summary[c][y]
    BY <1>1, <2>1, <2>3 DEF TypeOK
  <2>7. SummaryType'
    <3>1. summary' \in [Devices -> [Days -> {None} \cup SUBSET Times]]
      BY <1>1, <2>1, <2>3, <2>5 DEF TypeOK
    <3> QED  BY <1>1, <2>6, <3>1 DEF SummaryType, TypeOK
  <2>8. CompletedOnly'
    BY <2>4, <2>6 DEF CompletedOnly
  <2>9. SummariesCount'
    BY <1>1, <1>5, <2>6 DEF SummariesCount
  <2>10. WorkerType'
    <3>1. d + 1 \in Nat /\ {} \in SUBSET Times
      BY <2>2
    <3>2. [worker EXCEPT !.pc = "summarising", !.from = d + 1, !.read = {}] \in Passes
      BY <1>1, <3>1 DEF Passes
    <3> QED  BY <2>1, <3>2 DEF WorkerType
  <2>11. /\ worker'.pc = "summarising" /\ worker'.device = e /\ worker'.at = worker.at
         /\ worker'.day = worker.day /\ worker'.from = d + 1
    BY <1>1, <2>1 DEF Passes
  <2>12. ASSUME NEW t \in stored[e], DayOf(t) < d + 1
         PROVE  summary'[e][DayOf(t)] # None \/ Safe(t)
    <3>1. DayOf(t) \in Nat /\ DayOf(t) \in Days
      BY <1>1, StoredTimes
    <3>2. CASE DayOf(t) = d
      BY <2>5, <2>6, <3>2
    <3>3. CASE DayOf(t) < d
      BY <1>1, <2>6, <3>1, <3>3, <2>2
    <3> QED  BY <2>2, <2>12, <3>1, <3>2, <3>3
  <2>13. WorkerTrue'
    BY <1>1, <2>11, <2>12 DEF WorkerTrue, Reached, Safe
  <2> QED  BY <1>2, <1>3, <2>7, <2>8, <2>9, <2>10, <2>13, TypePartsNext
<1> QED  BY <1>4, <1>5

\* The retention deletes samples and summaries.
LEMMA CleanStep ==
    ASSUME IInv, Clean
    PROVE  IInv'
<1> USE DEF IInv, Clean, history
<1> DEFINE e == worker.device
<1>1. /\ worker.pc = "cleaning" /\ e \in Devices /\ worker.day \in Days /\ worker' = NoPass
  BY DEF WorkerTrue, TypeOK, Passes
<1>2. /\ time' \in Times /\ time <= time' /\ PageType' /\ HistoryType'
  BY TypeParts, Numbers DEF PageType, HistoryType
<1>3. RouteType'
  BY <1>1, TypeParts DEF RouteType
<1>4. /\ stored'[e] \subseteq stored[e]
      /\ \A c \in Devices : stored'[c] \subseteq stored[c]
      /\ StoredType'
  BY <1>1 DEF StoredType, TypeOK
<1>5. \A c \in Devices, d \in Days : summary'[c][d] \in {None, summary[c][d]}
  BY <1>1 DEF TypeOK
<1>6. SummaryType'
  <2>1. summary' \in [Devices -> [Days -> {None} \cup SUBSET Times]]
    BY <1>1 DEF TypeOK
  <2> QED  BY <1>5, <2>1 DEF SummaryType, TypeOK
<1>7. CompletedOnly'
  BY <1>5 DEF CompletedOnly
<1>8. SummariesCount'
  BY <1>4, <1>5 DEF SummariesCount, OfDay
<1>9. PageTrue'
  <2> SUFFICES ASSUME page.pc # "idle" PROVE PageTrue'
    BY DEF PageTrue
  <2>1. page.device \in Devices /\ \A d \in Days : OfDay(stored'[page.device], d) \subseteq OfDay(stored[page.device], d)
    BY <1>4 DEF PageTrue, OfDay
  <2> QED  BY <2>1 DEF PageTrue
<1> QED  BY <1>1, <1>2, <1>3, <1>4, <1>6, <1>7, <1>8, <1>9, IdleWorker, TypePartsNext

\* The pass or the page ends without a trace in the tables.
LEMMA EndStep ==
    ASSUME IInv, RouteType', UNCHANGED <<time, stored, summary, sampled, straddled, foreign>>,
           worker' = NoPass \/ UNCHANGED worker, page' = NoPage \/ UNCHANGED page
    PROVE  IInv'
<1> USE DEF IInv
<1>1. /\ time' \in Times /\ time <= time' /\ StoredType' /\ SummaryType' /\ HistoryType'
  BY TypeParts, Numbers DEF StoredType, SummaryType, HistoryType
<1>2. WorkerType' /\ WorkerTrue'
  <2>1. CASE worker' = NoPass
    BY <2>1, IdleWorker
  <2>2. CASE UNCHANGED worker
    BY <1>1, <2>2, WorkerFrame, TypeParts DEF WorkerTrue, WorkerType
  <2> QED  BY <2>1, <2>2
<1>3. PageType' /\ PageTrue'
  <2>1. CASE page' = NoPage
    BY <2>1, NoPageLeft
  <2>2. CASE UNCHANGED page
    BY <1>1, <2>2, PageFrame, TypeParts DEF PageTrue, PageType
  <2> QED  BY <2>1, <2>2
<1>4. SummariesCount' /\ CompletedOnly'
  BY <1>1, SummaryFrame
<1> QED  BY <1>1, <1>2, <1>3, <1>4, TypePartsNext

LEMMA EndSteps ==
    ASSUME IInv, PassFails \/ PageConflicts \/ PageFails \/ RestartBackend
    PROVE  IInv'
<1>1. UNCHANGED <<time, route, stored, summary, sampled, straddled, foreign>>
  BY DEF PassFails, PageConflicts, PageFails, RestartBackend, tables, history
<1>2. /\ worker' = NoPass \/ UNCHANGED worker
      /\ page' = NoPage \/ UNCHANGED page
  BY DEF PassFails, PageConflicts, PageFails, RestartBackend
<1>3. \/ UNCHANGED <<cache, checked, left>>
      \/ /\ cache' = [i \in Ids |-> None] /\ checked' = [e \in Devices |-> None]
         /\ left' = {}
  BY DEF PassFails, PageConflicts, PageFails, RestartBackend, history
<1>4. RouteType'
  BY <1>1, <1>3, TypeParts DEF IInv, RouteType
<1> QED  BY <1>1, <1>2, <1>4, EndStep

\* A page takes the clock and the rows that are not there yet.
LEMMA InsertPageStep ==
    ASSUME IInv, NEW e \in Devices, NEW times \in SUBSET (0 .. time), InsertPage(e, times)
    PROVE  IInv'
<1> USE DEF IInv, InsertPage, tables, history
<1>1. /\ time' \in Times /\ time <= time' /\ RouteType' /\ StoredType' /\ SummaryType'
      /\ WorkerType' /\ HistoryType'
  BY TypeParts, Numbers DEF RouteType, StoredType, SummaryType, WorkerType, HistoryType
<1>2. WorkerTrue'
  BY <1>1, WorkerFrame DEF WorkerTrue
<1>3. SummariesCount' /\ CompletedOnly'
  BY <1>1, SummaryFrame
<1> DEFINE rows == times \ stored[e]
           days == {DayOf(t) : t \in times}
<1>4. time \in Times /\ time \in Nat /\ time <= MaxTime /\ MaxTime \in Nat
  BY Numbers, PowerConstants DEF Times, TypeOK
<1>5. /\ rows \in SUBSET Times /\ times \subseteq Times
      /\ \A t \in rows : t <= time /\ DayOf(t) \in days
  BY <1>4 DEF Times
<1>6. days \in SUBSET Days /\ DayOf(time) \in Days
  BY <1>4, <1>5, DayTypes
<1>7. page' = [NoPage EXCEPT !.pc = "inserted", !.device = e, !.at = time,
                             !.today = DayOf(time), !.times = rows, !.fresh = days]
  OBVIOUS
<1> HIDE DEF rows, days
<1>8. PageType'
  BY <1>4, <1>5, <1>6, <1>7, NoPageType DEF PageType, Pages
<1>9. /\ page'.pc = "inserted" /\ page'.device = e /\ page'.at = time
      /\ page'.today = DayOf(time) /\ page'.times = rows /\ page'.fresh = days
  BY <1>7, NoPageType DEF Pages
<1>10. time <= time + Duration /\ time' = time
  BY <1>4, Lengths
<1>11. PageTrue'
  BY <1>4, <1>5, <1>9, <1>10 DEF PageTrue
<1> QED  BY <1>1, <1>2, <1>3, <1>8, <1>11, TypePartsNext

\* The summaries of the completed days of the page are computed again.
LEMMA RebuildDaysStep ==
    ASSUME IInv, RebuildDays
    PROVE  IInv'
<1> USE DEF IInv, tables, history
<1> DEFINE e == page.device
           late == {d \in page.fresh : Late(d)}
           days == [d \in Days |-> IF d \in late THEN OfDay(stored[e] \cup page.times, d) ELSE None]
           new == {d \in late : summary[e][d] = None}
<1>1. /\ page.pc = "inserted" /\ page' = [page EXCEPT !.pc = "built", !.built = days, !.fresh = new]
      /\ UNCHANGED <<time, route, cache, checked, stored, summary, worker, sampled,
                     straddled, foreign, left>>
  BY DEF RebuildDays
<1>2. /\ e \in Devices /\ page \in Pages
      /\ page.at <= time /\ time <= page.at + Duration /\ page.today = DayOf(page.at)
      /\ \A t \in page.times : t <= page.at /\ DayOf(t) \in page.fresh
  BY <1>1 DEF PageTrue, TypeOK
<1>3. /\ time' \in Times /\ time <= time' /\ RouteType' /\ StoredType' /\ SummaryType'
      /\ WorkerType' /\ HistoryType'
  BY <1>1, TypeParts, Numbers DEF RouteType, StoredType, SummaryType, WorkerType, HistoryType
<1>4. WorkerTrue'
  BY <1>1, <1>3, WorkerFrame DEF WorkerTrue
<1>5. SummariesCount' /\ CompletedOnly'
  BY <1>1, <1>3, SummaryFrame
<1>6. late \in SUBSET Days /\ new \in SUBSET Days /\ \A d \in late : d < page.today
  BY <1>2 DEF Pages, Late
<1>7. stored[e] \cup page.times \subseteq Times
  BY <1>2, StoredTimes DEF Pages
<1>8. /\ days \in [Days -> {None} \cup SUBSET Times]
      /\ \A d \in Days : days[d] # None =>
           d \in late /\ days[d] = OfDay(stored[e] \cup page.times, d)
      /\ \A d \in late : days[d] # None /\ days[d] = OfDay(stored[e] \cup page.times, d)
  <2>1. \A d : OfDay(stored[e] \cup page.times, d) \in SUBSET Times
    BY <1>7 DEF OfDay
  <2>2. \A d : OfDay(stored[e] \cup page.times, d) # None
    BY <2>1, NoneIsNothing
  <2> HIDE DEF late
  <2> QED  BY <1>6, <2>1, <2>2
<1>9. \A t \in page.times : DayOf(t) < page.today => DayOf(t) \in late
  BY <1>2 DEF Late
<1> HIDE DEF late, days, new
<1>10. PageType'
  BY <1>1, <1>2, <1>6, <1>8 DEF PageType, Pages
<1>11. /\ page'.pc = "built" /\ page'.device = e /\ page'.at = page.at
       /\ page'.today = page.today /\ page'.times = page.times /\ page'.built = days
  BY <1>1, <1>2 DEF Pages
<1>12. ASSUME NEW t \in page.times, DayOf(t) < page.today
       PROVE  days[DayOf(t)] # None /\ t \in days[DayOf(t)]
  BY <1>8, <1>9, <1>12 DEF OfDay
<1>13. ASSUME NEW d \in Days, days[d] # None
       PROVE  /\ d < page.today /\ days[d] \subseteq OfDay(Times, d)
              /\ OfDay(stored[e], d) \subseteq days[d]
  BY <1>6, <1>7, <1>8, <1>13 DEF OfDay
<1>14. PageTrue'
  BY <1>1, <1>2, <1>11, <1>12, <1>13 DEF PageTrue
<1> QED  BY <1>3, <1>4, <1>5, <1>10, <1>14, TypePartsNext

\* A page is committed: the days it has rebuilt get the summary it has computed,
\* and what it stores of later days is late for a summary written in between.
LEMMA CommitPageStep ==
    ASSUME IInv, CommitPage
    PROVE  IInv'
<1> USE DEF IInv
<1> DEFINE e == page.device
           p == page.times
           b == page.built
<1>1. /\ page.pc = "built" /\ page' = NoPage
      /\ stored' = [stored EXCEPT ![e] = @ \cup p]
      /\ summary' = [summary EXCEPT ![e] =
            [d \in Days |-> IF b[d] = None THEN @[d] ELSE IF b[d] = {} THEN None ELSE b[d]]]
      /\ straddled' = [straddled EXCEPT ![e] =
            @ \cup {t \in p : page.today <= DayOf(t) /\ DayOf(t) < DayOf(time)}]
      /\ UNCHANGED <<time, route, cache, checked, worker, sampled, foreign, left>>
  BY DEF CommitPage
<1>2. /\ e \in Devices /\ page \in Pages
      /\ page.at <= time /\ time <= page.at + Duration /\ page.today = DayOf(page.at)
      /\ \A t \in p : DayOf(t) < page.today => b[DayOf(t)] # None /\ t \in b[DayOf(t)]
  BY <1>1 DEF PageTrue, TypeOK
<1>3. ASSUME NEW d \in Days, b[d] # None
      PROVE  /\ d < page.today /\ b[d] \subseteq OfDay(Times, d)
             /\ OfDay(stored[e], d) \subseteq b[d] \cup straddled[e]
             /\ b[d] = {} => \A t \in OfDay(stored[e], d) : page.at <= t + Delay
  BY <1>1, <1>3 DEF PageTrue
<1>4. /\ p \subseteq Times /\ \A t \in p : t \in Nat /\ DayOf(t) \in Days /\ DayOf(t) \in Nat
      /\ page.today \in Nat /\ page.at \in Nat /\ time \in Nat /\ DayOf(time) \in Nat
      /\ page.today <= DayOf(time)
  BY <1>2, DayTypes, Numbers, DayMonotone, DayBounds DEF Pages
<1>5. /\ stored'[e] = stored[e] \cup p
      /\ \A c \in Devices \ {e} : stored'[c] = stored[c]
      /\ \A c \in Devices : straddled[c] \subseteq straddled'[c]
      /\ \A t \in p : page.today <= DayOf(t) /\ DayOf(t) < DayOf(time) => t \in straddled'[e]
  BY <1>1, <1>2 DEF TypeOK
<1>6. /\ \A c \in Devices \ {e} : summary'[c] = summary[c]
      /\ \A d \in Days : b[d] = None => summary'[e][d] = summary[e][d]
      /\ \A d \in Days : b[d] # None /\ b[d] # {} => summary'[e][d] = b[d]
      /\ \A d \in Days : b[d] = {} => summary'[e][d] = None
  <2>1. {} # None
    BY NoneIsNothing
  <2> QED  BY <1>1, <1>2, <2>1 DEF TypeOK
<1> HIDE DEF p, b
<1>7. StoredType'
  BY <1>1, <1>2, <1>4 DEF StoredType, TypeOK
<1>8. HistoryType'
  BY <1>1, <1>2, <1>4 DEF HistoryType, TypeOK
<1>9. \A c \in Devices, d \in Days : summary'[c][d] \in {None} \cup Summaries(d)
  <2> SUFFICES ASSUME NEW c \in Devices, NEW d \in Days
               PROVE  summary'[c][d] \in {None} \cup Summaries(d)
    OBVIOUS
  <2>1. summary[c][d] \in {None} \cup Summaries(d)
    BY DEF TypeOK
  <2>2. CASE c # e \/ b[d] = None
    BY <1>6, <2>1, <2>2
  <2>3. CASE c = e /\ b[d] # None
    BY <1>3, <1>6, <2>3 DEF Summaries
  <2> QED  BY <2>2, <2>3
<1>10. SummaryType'
  <2>1. \A d \in Days : Summaries(d) \subseteq SUBSET Times
    BY DEF Summaries, OfDay
  <2>2. \A c \in Devices, d \in Days : summary'[c][d] \in {None} \cup SUBSET Times
    BY <1>9, <2>1
  <2>3. summary' = [c \in Devices |-> summary'[c]] /\ \A c \in Devices : summary'[c] = [d \in Days |-> summary'[c][d]]
    BY <1>1, <1>2 DEF TypeOK
  <2>4. \A c \in Devices : summary'[c] \in [Days -> {None} \cup SUBSET Times]
    BY <2>2, <2>3
  <2>5. summary' \in [Devices -> [Days -> {None} \cup SUBSET Times]]
    BY <2>3, <2>4
  <2> QED  BY <1>9, <2>5 DEF SummaryType
<1>11. time' \in Times /\ RouteType' /\ WorkerType'
  BY <1>1, TypeParts DEF RouteType, WorkerType
<1>12. PageType' /\ PageTrue'
  BY <1>1, NoPageLeft
<1>13. CompletedOnly'
  <2> SUFFICES ASSUME NEW c \in Devices, NEW d \in Days, summary'[c][d] # None
               PROVE  d < DayOf(time)
    BY <1>1 DEF CompletedOnly
  <2>1. CASE c # e \/ b[d] = None
    BY <1>6, <2>1 DEF CompletedOnly
  <2>2. CASE c = e /\ b[d] # None
    BY <1>3, <1>4, <2>2, DaysAreNaturals
  <2> QED  BY <2>1, <2>2
<1>14. SummariesCount'
  <2> SUFFICES ASSUME NEW c \in Devices, NEW d \in Days, summary'[c][d] # None,
                      NEW t \in OfDay(stored'[c], d)
               PROVE  t \in summary'[c][d] \cup straddled'[c]
    BY DEF SummariesCount
  <2>1. t \in stored'[c] /\ DayOf(t) = d
    BY DEF OfDay
  <2>2. CASE c # e
    BY <1>5, <1>6, <2>1, <2>2 DEF SummariesCount, OfDay
  <2>3. CASE c = e /\ b[d] = None
    <3>1. summary[e][d] # None /\ summary'[e][d] = summary[e][d] /\ d < DayOf(time)
      BY <1>2, <1>6, <2>3 DEF CompletedOnly
    <3>2. CASE t \in stored[e]
      BY <1>2, <1>5, <2>1, <2>3, <3>1, <3>2 DEF SummariesCount, OfDay
    <3>3. CASE t \in p
      <4>1. page.today <= DayOf(t)
        BY <1>2, <1>4, <2>1, <2>3, <3>3 DEF p, b
      <4> QED  BY <1>5, <2>1, <2>3, <3>1, <3>3, <4>1
    <3> QED  BY <1>5, <2>1, <2>3, <3>2, <3>3
  <2>4. CASE c = e /\ b[d] # None
    <3>1. b[d] # {} /\ summary'[e][d] = b[d]
      BY <1>6, <2>4
    <3>2. CASE t \in stored[e]
      BY <1>3, <1>5, <2>1, <2>4, <3>1, <3>2 DEF OfDay
    <3>3. CASE t \in p
      <4>1. DayOf(t) < page.today
        BY <1>3, <2>1, <2>4
      <4> QED  BY <1>2, <2>1, <2>4, <3>1, <3>3, <4>1 DEF p, b
    <3> QED  BY <1>5, <2>1, <2>4, <3>2, <3>3
  <2> QED  BY <2>2, <2>3, <2>4
<1>15. WorkerTrue'
  <2> SUFFICES ASSUME worker.pc # "idle", worker.device = e PROVE WorkerTrue'
    <3>1. worker.pc = "idle" => WorkerTrue'
      BY <1>1 DEF WorkerTrue
    <3>2. worker.pc # "idle" /\ worker.device # e => WorkerTrue'
      <4> SUFFICES ASSUME worker.pc # "idle", worker.device # e PROVE WorkerTrue'
        OBVIOUS
      <4>1. worker.device \in Devices
        BY DEF WorkerTrue
      <4>2. /\ stored'[worker.device] = stored[worker.device]
            /\ summary'[worker.device] = summary[worker.device]
            /\ straddled[worker.device] \subseteq straddled'[worker.device]
        BY <1>5, <1>6, <4>1
      <4> QED  BY <1>1, <4>2 DEF WorkerTrue, Reached, Safe
    <3> QED  BY <3>1, <3>2
  <2>1. /\ worker.at <= time /\ time <= worker.at + Duration /\ worker.day <= DayOf(worker.at)
        /\ worker.at < First(worker.day) + DAY + Delay
        /\ \A t \in stored[e] : DayOf(t) < Reached => summary[e][DayOf(t)] # None \/ Safe(t)
        /\ worker.at \in Nat /\ worker.day \in Nat /\ worker.from \in Nat /\ Reached \in Nat
        /\ DayOf(worker.at) \in Nat /\ DayOf(worker.at) <= DayOf(time)
    BY <1>4, Numbers, DayMonotone, DayBounds DEF WorkerTrue
  <2>2. ASSUME NEW t \in Nat, page.at <= t + DAY \/ page.at <= t + Delay
        PROVE  Safe(t)
    <3>1. /\ Span \in Nat /\ Delay \in Nat /\ Duration \in Nat /\ DAY \in Nat
          /\ Delay + Duration + DAY <= Span /\ 2 * Duration + DAY <= Span /\ Duration <= DAY
      BY Lengths
    <3>2. worker.at <= page.at + Duration
      BY <1>2, <1>4, <2>1, <3>1
    <3>3. worker.at + Duration <= t + Span
      BY <1>4, <2>1, <2>2, <3>1, <3>2
    <3> QED  BY <3>3 DEF Safe
  <2>3. ASSUME NEW t \in stored'[e], DayOf(t) < Reached
        PROVE  summary'[e][DayOf(t)] # None \/ Safe(t)
    <3>1. CASE t \in stored[e]
      <4> DEFINE d == DayOf(t)
      <4>1. t \in Nat /\ d \in Days /\ t \in OfDay(stored[e], d)
        BY <1>2, <3>1, StoredTimes DEF OfDay
      <4> HIDE DEF d
      <4>2. summary[e][d] # None \/ Safe(t)
        BY <2>1, <2>3, <3>1 DEF d
      <4>3. CASE b[d] = None
        BY <1>6, <4>1, <4>2, <4>3 DEF d
      <4>4. CASE b[d] # None /\ b[d] # {}
        BY <1>6, <4>1, <4>4 DEF d
      <4>5. CASE b[d] # None /\ b[d] = {}
        <5>1. page.at <= t + Delay
          BY <1>3, <4>1, <4>5
        <5> QED  BY <2>2, <4>1, <5>1
      <4> QED  BY <4>3, <4>4, <4>5
    <3>2. CASE t \in p
      <4>1. t \in Nat /\ DayOf(t) \in Days /\ DayOf(t) \in Nat
        BY <1>4, <3>2
      <4>2. CASE DayOf(t) < page.today
        <5>1. b[DayOf(t)] # None /\ t \in b[DayOf(t)]
          BY <1>2, <3>2, <4>2 DEF p, b
        <5> QED  BY <1>6, <4>1, <5>1
      <4>3. CASE page.today <= DayOf(t)
        <5>1. /\ First(DayOf(t)) \in Nat /\ First(DayOf(t)) <= t
              /\ First(page.today) \in Nat /\ page.at < First(page.today) + DAY
          BY <1>2, <1>4, <4>1, DayBounds
        <5>2. First(page.today) <= First(DayOf(t))
          <6>1. CASE page.today = DayOf(t)
            BY <5>1, <6>1
          <6>2. CASE page.today < DayOf(t)
            BY <1>4, <4>1, <5>1, <6>2, DayOrder, Lengths
          <6> QED  BY <1>4, <4>1, <4>3, <6>1, <6>2
        <5>3. page.at <= t + DAY
          BY <1>4, <4>1, <5>1, <5>2, Lengths
        <5> QED  BY <2>2, <4>1, <5>3
      <4> QED  BY <1>4, <4>1, <4>2, <4>3
    <3> QED  BY <1>5, <3>1, <3>2
  <2>4. ASSUME worker.pc = "inserting"
        PROVE  /\ worker.from < worker.day /\ worker.read \in Summaries(worker.from)
               /\ summary'[e][worker.from] = None =>
                    OfDay(stored'[e], worker.from) \subseteq worker.read \cup straddled'[e]
    <3> DEFINE d == worker.from
    <3>1. /\ d < worker.day /\ worker.read \in Summaries(d)
          /\ summary[e][d] = None => OfDay(stored[e], d) \subseteq worker.read \cup straddled[e]
      BY <2>4 DEF WorkerTrue
    <3>2. d \in Days /\ d < DayOf(time) /\ d \in Nat
      <4>1. worker.day \in Days /\ d \in Nat
        BY Numbers DEF TypeOK, Passes
      <4>2. MaxTime \div DAY \in Nat
        BY PowerConstants
      <4> QED  BY <1>4, <2>1, <3>1, <4>1, <4>2 DEF Days
    <3> HIDE DEF d
    <3>3. ASSUME summary'[e][d] = None, NEW t \in OfDay(stored'[e], d)
          PROVE  t \in worker.read \cup straddled'[e]
      <4>1. t \in stored'[e] /\ DayOf(t) = d
        BY DEF OfDay
      <4>2. CASE t \in p
        <5>1. ~(DayOf(t) < page.today)
          <6>1. DayOf(t) < page.today => b[d] # None /\ t \in b[d]
            BY <1>2, <4>1, <4>2 DEF p, b
          <6> QED  BY <1>6, <3>2, <3>3, <6>1
        <5> QED  BY <1>4, <1>5, <3>2, <4>1, <4>2, <5>1
      <4>3. CASE t \in stored[e] /\ b[d] = None
        BY <1>2, <1>5, <1>6, <3>1, <3>2, <3>3, <4>1, <4>3 DEF OfDay
      <4>4. CASE t \in stored[e] /\ b[d] # None
        <5>1. b[d] = {}
          BY <1>6, <3>2, <3>3, <4>4
        <5> QED  BY <1>2, <1>3, <1>5, <3>2, <4>1, <4>4, <5>1 DEF OfDay
      <4> QED  BY <1>5, <4>1, <4>2, <4>3, <4>4
    <3> QED  BY <3>1, <3>3 DEF d
  <2>5. Reached' = Reached /\ \A t : Safe(t)' <=> Safe(t)
    BY <1>1 DEF Reached, Safe
  <2>6. e \in Devices /\ worker'.device = e /\ worker' = worker /\ time' = time
    BY <1>1, <1>2
  <2> HIDE DEF e
  <2> QED  BY <2>1, <2>3, <2>4, <2>5, <2>6 DEF WorkerTrue, Reached, Safe
<1> QED  BY <1>7, <1>8, <1>10, <1>11, <1>12, <1>13, <1>14, <1>15, TypePartsNext

LEMMA MessageStep ==
    ASSUME IInv, NEW e \in Devices, NEW t \in Times, StateMessage(e, t)
    PROVE  IInv'
<1>1. t <= time /\ time <= t + Delay
  BY DEF StateMessage
<1>2. CASE SkipSample(e, t)
  BY <1>2, CacheOnlyStep
<1>3. CASE StoreSample(e, t)
  BY <1>1, <1>3, StoreSampleStep
<1>4. CASE DuplicateSample(e, t)
  BY <1>4, CacheOnlyStep
<1>5. CASE StoreFails(e, t)
  BY <1>1, <1>5, StoreFailsStep
<1> QED  BY <1>2, <1>3, <1>4, <1>5 DEF StateMessage

\* The pages that Next has are sets of moments that have been.
LEMMA PageTimes ==
    \A times \in UNION {kSubset(k, 0 .. time) : k \in 1 .. PAGE} : times \in SUBSET (0 .. time)
  BY DEF kSubset
-----------------------------------------------------------------------------
(* Type correctness and the daily summaries.                               *)

\* Nothing is stored at first, and nobody is at work.
THEOREM InitInvariant == Init => IInv
<1> SUFFICES ASSUME Init PROVE IInv
  OBVIOUS
<1>1. 0 \in Days /\ 0 \in Times
  BY PowerConstants DEF Days, Times
<1>2. time \in Times /\ RouteType /\ StoredType /\ HistoryType
  BY <1>1 DEF Init, RouteType, StoredType, HistoryType
<1>3. SummaryType
  <2>1. [d \in Days |-> None] \in [Days -> {None} \cup SUBSET Times]
    OBVIOUS
  <2>2. summary \in [Devices -> [Days -> {None} \cup SUBSET Times]]
    BY <2>1 DEF Init
  <2> QED  BY <2>2 DEF Init, SummaryType
<1>4. WorkerType /\ WorkerTrue /\ PageType /\ PageTrue
  BY NoPassType, NoPageType DEF Init, WorkerType, WorkerTrue, PageType, PageTrue
<1>5. \A e \in Devices, d \in Days : summary[e][d] = None
  BY DEF Init
<1> QED  BY <1>2, <1>3, <1>4, <1>5, TypeParts DEF IInv, CompletedOnly, SummariesCount

\* Every step of the worker, of the recovery and of the devices preserves the invariant.
THEOREM StepInvariant == IInv /\ [Next]_vars => IInv'
<1> SUFFICES ASSUME IInv, [Next]_vars PROVE IInv'
  OBVIOUS
<1>1. CASE Tick
  BY <1>1, TickStep
<1>2. ASSUME NEW e \in Devices, NEW i \in Ids, Claim(e, i) PROVE IInv'
  BY <1>2, ClaimStep
<1>3. ASSUME NEW e \in Devices, NEW t \in Times, StateMessage(e, t) PROVE IInv'
  BY <1>3, MessageStep
<1>4. CASE ReadDay
  BY <1>4, ReadDayStep
<1>5. CASE InsertSummary
  BY <1>5, InsertSummaryStep
<1>6. CASE Clean
  BY <1>6, CleanStep
<1>7. ASSUME NEW e \in Devices,
             NEW times \in UNION {kSubset(k, 0 .. time) : k \in 1 .. PAGE}, InsertPage(e, times)
      PROVE  IInv'
  <2>1. times \in SUBSET (0 .. time)
    BY PageTimes
  <2> QED  BY <1>7, <2>1, InsertPageStep
<1>8. CASE RebuildDays
  BY <1>8, RebuildDaysStep
<1>9. CASE CommitPage
  BY <1>9, CommitPageStep
<1>10. CASE PassFails \/ PageConflicts \/ PageFails \/ RestartBackend
  BY <1>10, EndSteps
<1>11. CASE UNCHANGED vars
  <2>1. RouteType'
    BY <1>11, TypeParts DEF vars, history, RouteType, IInv
  <2> QED  BY <1>11, <2>1, EndStep DEF vars, tables, history
<1> QED
  BY <1>1, <1>2, <1>3, <1>4, <1>5, <1>6, <1>7, <1>8, <1>9, <1>10, <1>11 DEF Next

THEOREM Inductive == Spec => []IInv
  BY InitInvariant, StepInvariant, PTL DEF Spec

\* Types hold for any fleet, calendar, retention and bounds.
THEOREM TypeCorrect == Spec => []TypeOK
<1>1. IInv => TypeOK
  BY DEF IInv
<1> QED  BY <1>1, Inductive, PTL

\* A summary counts every stored sample of its day that was stored on that day.
THEOREM SummariesCorrect == Spec => []SummariesCount
<1>1. IInv => SummariesCount
  BY DEF IInv
<1> QED  BY <1>1, Inductive, PTL
-----------------------------------------------------------------------------
(* The retention.                                                          *)

\* Only the retention takes samples away.
LEMMA OnlyCleanDeletes ==
    ASSUME IInv, [Next]_vars, ~Clean, NEW e \in Devices
    PROVE  stored[e] \subseteq stored'[e]
<1> USE DEF IInv
<1>1. ASSUME NEW d \in Devices, NEW t \in Times, StateMessage(d, t)
      PROVE  stored[e] \subseteq stored'[e]
  <2> DEFINE c == Channel(route[d]).device
  <2>1. UNCHANGED stored \/ Store(d, c, t)
    BY <1>1 DEF StateMessage, SkipSample, StoreSample, DuplicateSample, StoreFails, tables
  <2> QED  BY <2>1 DEF Store, TypeOK
<1>2. CASE CommitPage
  BY <1>2 DEF CommitPage, TypeOK
<1>3. CASE ~CommitPage /\ \A d \in Devices, t \in Times : ~StateMessage(d, t)
  <2>1. UNCHANGED stored
    BY <1>3 DEF Next, vars, Tick, Claim, ReadDay, InsertSummary, PassFails, InsertPage,
                RebuildDays, PageConflicts, PageFails, RestartBackend, tables
  <2> QED  BY <2>1
<1> QED  BY <1>1, <1>2, <1>3

\* Everything that the retention deletes is of a day before the one of the sample that
\* started the pass, and would not be safe: so the day has its summary.
LEMMA ExpiredSummarised ==
    ASSUME IInv, worker.pc = "cleaning", NEW t \in stored[worker.device], Expired(t)
    PROVE  DayOf(t) \in Days /\ summary[worker.device][DayOf(t)] # None
<1> USE DEF IInv
<1>1. /\ worker.device \in Devices /\ time <= worker.at + Duration
      /\ worker.at < First(worker.day) + DAY + Delay
      /\ DayOf(t) < worker.day => summary[worker.device][DayOf(t)] # None \/ Safe(t)
  BY DEF WorkerTrue, Reached
<1>2. /\ t \in Nat /\ DayOf(t) \in Days /\ DayOf(t) \in Nat
      /\ time \in Nat /\ worker.at \in Nat /\ worker.day \in Nat /\ t + Span < time
  BY <1>1, StoredTimes, Numbers, ExpiredSpan
<1>3. ~Safe(t)
  BY <1>1, <1>2, Lengths DEF Safe
<1>4. DayOf(t) < worker.day
  <2> SUFFICES ASSUME worker.day <= DayOf(t) PROVE FALSE
    BY <1>2
  <2>1. First(DayOf(t)) \in Nat /\ First(DayOf(t)) <= t
    BY <1>2, DayBounds
  <2>2. First(worker.day) \in Nat /\ First(worker.day) <= First(DayOf(t))
    <3>1. CASE worker.day = DayOf(t)
      BY <2>1, <3>1
    <3>2. CASE worker.day < DayOf(t)
      BY <1>2, <2>1, <3>2, DayOrder, Lengths
    <3> QED  BY <1>2, <3>1, <3>2
  <2> QED  BY <1>1, <1>2, <2>1, <2>2, Lengths
<1> QED  BY <1>1, <1>2, <1>3, <1>4

\* No sample is deleted before its day is summarised, unless the summary, too, would be
\* beyond its retention.
THEOREM DeletionCorrect == Spec => SummarisedBeforeDeleted
<1> DEFINE Step == \A e \in Devices : \A t \in stored[e] \ stored'[e] :
                      \/ summary'[e][DayOf(t)] # None
                      \/ DayOf(t) + SUMMARY_KEEP < DayOf(time)
<1>1. ASSUME IInv, [Next]_vars PROVE Step
  <2>1. CASE ~Clean
    BY <1>1, <2>1, OnlyCleanDeletes
  <2>2. CASE Clean
    <3> SUFFICES ASSUME NEW e \in Devices, NEW t \in stored[e] \ stored'[e],
                        ~(DayOf(t) + SUMMARY_KEEP < DayOf(time))
                 PROVE  summary'[e][DayOf(t)] # None
      OBVIOUS
    <3>1. worker.pc = "cleaning" /\ e = worker.device /\ Expired(t)
      BY <1>1, <2>2 DEF Clean, IInv, TypeOK
    <3>2. DayOf(t) \in Days /\ summary[e][DayOf(t)] # None
      BY <1>1, <3>1, ExpiredSummarised
    <3> QED  BY <1>1, <2>2, <3>1, <3>2 DEF Clean, IInv, TypeOK
  <2> QED  BY <2>1, <2>2
<1>2. ASSUME IInv, [Next]_vars PROVE [Step]_vars
  BY <1>1, <1>2
<1>3. SummarisedBeforeDeleted <=> [][Step]_vars
  BY DEF SummarisedBeforeDeleted
<1> HIDE DEF Step
<1> QED  BY <1>2, <1>3, Inductive, PTL DEF Spec
-----------------------------------------------------------------------------
(* The distance of the samples, of devices that keep their routing identity. *)

\* What the worker knows of a channel it has looked up: the device itself, and a latest
\* sample that none of the samples it stored there is after.
LEMMA ChannelKnows ==
    ASSUME IInv, Spacing, NEW e \in Devices, route[e] # None
    PROVE  /\ Channel(route[e]).device = e
           /\ \A s \in sampled[e] :
                Gone(s) \/ (Channel(route[e]).last # None /\ s <= Channel(route[e]).last)
<1> DEFINE i == route[e]
           c == Channel(i).device
<1>1. i \in Ids /\ c \in Devices /\ Channel(i) \in Channels
  BY ChannelType DEF IInv
<1>2. CASE cache[i] # None
  <2>1. Channel(i) = cache[i]
    BY <1>2 DEF Channel
  <2>2. route[c] = i
    BY <1>1, <1>2, <2>1 DEF Spacing, CacheKnows
  <2>3. c = e
    BY <1>1, <2>2 DEF Spacing, RoutesApart
  <2> QED  BY <1>1, <1>2, <2>1, <2>3 DEF Spacing, CacheKnows
<1>3. CASE cache[i] = None
  <2>1. route[c] = i /\ Channel(i).last = Latest(c)
    BY <1>3, ChannelType DEF IInv
  <2>2. c = e
    BY <1>1, <2>1 DEF Spacing, RoutesApart
  <2>3. ASSUME NEW s \in sampled[e], s \in stored[e]
        PROVE  Latest(e) # None /\ s <= Latest(e)
    <3>1. stored[e] \in SUBSET (0 .. MaxTime) /\ MaxTime \in Nat /\ stored[e] # {}
      BY <2>3, PowerConstants DEF IInv, TypeOK, Times
    <3>2. Max(stored[e]) \in stored[e] /\ \A y \in stored[e] : y <= Max(stored[e])
      BY <3>1, MaxOf
    <3>3. Latest(e) = Max(stored[e]) /\ Latest(e) \in Nat
      BY <3>1, <3>2 DEF Latest
    <3> QED  BY <2>3, <3>2, <3>3, NoneIsNothing
  <2> QED  BY <2>1, <2>2, <2>3 DEF Spacing, StoredKnows
<1> QED  BY <1>2, <1>3

\* A sample that is due comes INTERVAL after all that the worker has stored.
LEMMA DueSpaced ==
    ASSUME IInv, Spacing, NEW e \in Devices, route[e] # None, NEW t \in Times,
           time <= t + Delay, Due(Channel(route[e]), t)
    PROVE  \A s \in sampled[e] : s + INTERVAL <= t
<1> SUFFICES ASSUME NEW s \in sampled[e] PROVE s + INTERVAL <= t
  OBVIOUS
<1> DEFINE l == Channel(route[e]).last
<1>1. s \in Nat /\ t \in Nat /\ time \in Nat
  BY StoredTimes, Numbers, DaysAreNaturals DEF IInv
<1>2. CASE Gone(s)
  BY <1>1, <1>2, Lengths DEF Gone
<1>3. CASE l # None /\ s <= l
  <2>1. l \in Nat /\ t >= l + INTERVAL
    BY <1>3, ChannelType, DaysAreNaturals DEF IInv, Due
  <2> QED  BY <1>1, <1>3, <2>1, Lengths
<1> QED  BY <1>2, <1>3, ChannelKnows

\* The steps that touch no sample of the worker and add nothing to the cache.
LEMMA SpacingFrame ==
    ASSUME IInv, Spacing, UNCHANGED <<route, sampled>>, time' \in Times, time <= time',
           UNCHANGED cache \/ cache' = [i \in Ids |-> None],
           \A e \in Devices : \A s \in stored[e] \ stored'[e] : Gone(s)
    PROVE  Spacing'
<1>1. \A e \in Devices : \A s \in sampled[e] : Gone(s) => Gone(s)'
  <2>1. ASSUME NEW e \in Devices, NEW s \in sampled[e], Gone(s) PROVE s + Span < time'
    <3>1. s \in Nat /\ time \in Nat /\ time' \in Nat
      BY StoredTimes, Numbers, DaysAreNaturals DEF IInv
    <3> QED  BY <2>1, <3>1, Lengths DEF Gone
  <2> QED  BY <2>1 DEF Gone, Span
<1>2. RoutesApart' /\ SamplesSpaced'
  BY DEF Spacing, RoutesApart, SamplesSpaced
<1>3. StoredKnows'
  BY <1>1 DEF Spacing, StoredKnows
<1>4. CacheKnows'
  <2>1. CASE cache' = [i \in Ids |-> None]
    BY <2>1 DEF CacheKnows
  <2>2. CASE UNCHANGED cache
    <3> SUFFICES ASSUME NEW i \in Ids, cache[i] # None
                 PROVE  /\ route[cache[i].device] = i
                        /\ \A s \in sampled[cache[i].device] :
                             Gone(s)' \/ (cache[i].last # None /\ s <= cache[i].last)
      BY <2>2 DEF CacheKnows
    <3>1. cache[i].device \in Devices
      BY DEF IInv, TypeOK, Channels
    <3> QED  BY <1>1, <3>1 DEF Spacing, CacheKnows
  <2> QED  BY <2>1, <2>2
<1> QED  BY <1>2, <1>3, <1>4 DEF Spacing

\* A routing identity is given to a device that has none.
LEMMA ClaimSpacing ==
    ASSUME IInv, Spacing, NEW e \in Devices, NEW i \in Ids, Claim(e, i), KeepsRoute
    PROVE  Spacing'
<1> USE DEF Claim, tables, history
<1>1. /\ \A d \in Devices : route[d] # i
      /\ route' = [route EXCEPT ![e] = i] /\ route \in [Devices -> Ids \cup {None}]
      /\ UNCHANGED <<time, cache, stored, sampled>>
  BY DEF IInv, TypeOK
<1>2. route[e] = None
  BY <1>1 DEF KeepsRoute
<1>3. RoutesApart'
  BY <1>1 DEF Spacing, RoutesApart
<1>4. CacheKnows'
  <2> SUFFICES ASSUME NEW j \in Ids, cache[j] # None
               PROVE  route'[cache[j].device] = j
    BY <1>1 DEF Spacing, CacheKnows, Gone
  <2>1. cache[j].device \in Devices /\ route[cache[j].device] = j
    BY DEF IInv, TypeOK, Channels, Spacing, CacheKnows
  <2>2. cache[j].device # e
    BY <1>2, <2>1, PowerConstants
  <2> QED  BY <1>1, <2>1, <2>2
<1> QED  BY <1>1, <1>3, <1>4 DEF Spacing, StoredKnows, SamplesSpaced, Gone

\* The worker handles a state message: it stores nothing, or a sample that is due.
LEMMA MessageSpacing ==
    ASSUME IInv, Spacing, NEW e \in Devices, NEW t \in Times, StateMessage(e, t)
    PROVE  Spacing'
<1> USE DEF IInv
<1> DEFINE i == route[e]
           ch == Channel(i)
<1>1. /\ i # None /\ t <= time /\ time <= t + Delay /\ UNCHANGED <<time, route>>
  BY DEF StateMessage, SkipSample, StoreSample, DuplicateSample, StoreFails
<1>2. /\ i \in Ids /\ ch \in Channels /\ ch.device = e /\ ch.last \in Times \cup {None}
      /\ \A s \in sampled[e] : Gone(s) \/ (ch.last # None /\ s <= ch.last)
  BY <1>1, ChannelType, ChannelKnows
<1>3. t \in Nat /\ t # None /\ \A s \in sampled[e] : s \in Nat
  BY StoredTimes, DayTypes, NoneIsNothing
<1>4. Due(ch, t) => \A s \in sampled[e] : s + INTERVAL <= t
  BY <1>1, DueSpaced
<1>5. /\ stored[e] \subseteq stored'[e]
      /\ \A d \in Devices : stored[d] \subseteq stored'[d]
      /\ \/ UNCHANGED sampled
         \/ sampled' = [sampled EXCEPT ![e] = @ \cup {t}] /\ t \in stored'[e] /\ Due(ch, t)
            /\ cache' = [cache EXCEPT ![i] = [ch EXCEPT !.last = t]]
  <2>1. CASE StoreSample(e, t)
    BY <1>2, <2>1 DEF StoreSample, Store, Recorded, TypeOK
  <2>2. CASE ~StoreSample(e, t)
    <3>1. UNCHANGED stored \/ Store(e, ch.device, t)
      BY <2>2 DEF StateMessage, SkipSample, DuplicateSample, StoreFails, tables
    <3>2. \A d \in Devices : stored[d] \subseteq stored'[d]
      BY <1>2, <3>1 DEF Store, TypeOK
    <3> QED  BY <2>2, <3>2 DEF StateMessage, SkipSample, DuplicateSample, StoreFails, history
  <2> QED  BY <2>1, <2>2
<1>6. \/ cache' = [cache EXCEPT ![i] = ch]
      \/ cache' = [cache EXCEPT ![i] = [ch EXCEPT !.last = t]] /\ Due(ch, t)
  BY DEF StateMessage, SkipSample, StoreSample, DuplicateSample, StoreFails, Recorded
<1> HIDE DEF ch, i
<1>7. /\ cache'[i].device = e
      /\ \A s \in sampled'[e] : Gone(s) \/ (cache'[i].last # None /\ s <= cache'[i].last)
  <2>1. cache \in [Ids -> Channels \cup {None}]
    BY DEF TypeOK
  <2>2. CASE cache' = [cache EXCEPT ![i] = [ch EXCEPT !.last = t]] /\ Due(ch, t)
    <3>1. cache'[i] = [ch EXCEPT !.last = t]
      BY <1>2, <2>1, <2>2
    <3>2. cache'[i].device = e /\ cache'[i].last = t
      BY <1>2, <3>1 DEF Channels
    <3>3. \A s \in sampled'[e] : s \in sampled[e] \/ s = t
      BY <1>5 DEF TypeOK
    <3>4. \A s \in sampled[e] : s <= t
      BY <1>3, <1>4, <2>2, Lengths
    <3> QED  BY <1>3, <3>2, <3>3, <3>4
  <2>3. CASE cache' = [cache EXCEPT ![i] = ch] /\ UNCHANGED sampled
    BY <1>2, <2>1, <2>3
  <2>4. CASE sampled' = [sampled EXCEPT ![e] = @ \cup {t}] /\ Due(ch, t)
            /\ cache' = [cache EXCEPT ![i] = [ch EXCEPT !.last = t]]
    BY <2>2, <2>4
  <2> QED  BY <1>5, <1>6, <2>2, <2>3, <2>4
<1>8. RoutesApart'
  BY <1>1 DEF Spacing, RoutesApart
<1>9. CacheKnows'
  <2> SUFFICES ASSUME NEW j \in Ids, cache'[j] # None
               PROVE  /\ route[cache'[j].device] = j
                      /\ \A s \in sampled'[cache'[j].device] :
                           Gone(s) \/ (cache'[j].last # None /\ s <= cache'[j].last)
    BY <1>1 DEF CacheKnows, Gone
  <2>1. CASE j = i
    BY <1>7, <2>1 DEF i
  <2>2. CASE j # i
    <3>1. cache'[j] = cache[j]
      BY <1>6, <2>2 DEF TypeOK
    <3>2. cache[j].device \in Devices /\ route[cache[j].device] = j
      BY <3>1 DEF TypeOK, Channels, Spacing, CacheKnows
    <3>3. cache[j].device # e
      BY <2>2, <3>2 DEF i
    <3>4. sampled'[cache[j].device] = sampled[cache[j].device]
      BY <1>5, <3>2, <3>3 DEF TypeOK
    <3> QED  BY <3>1, <3>2, <3>4 DEF Spacing, CacheKnows
  <2> QED  BY <2>1, <2>2
<1>10. StoredKnows'
  <2> SUFFICES ASSUME NEW d \in Devices, NEW s \in sampled'[d]
               PROVE  s \in stored'[d] \/ Gone(s)
    BY <1>1 DEF StoredKnows, Gone
  <2>1. CASE s \in sampled[d]
    BY <1>5, <2>1 DEF Spacing, StoredKnows
  <2>2. CASE s \notin sampled[d]
    BY <1>5, <2>2 DEF TypeOK
  <2> QED  BY <2>1, <2>2
<1>11. SamplesSpaced'
  <2>1. CASE UNCHANGED sampled
    BY <2>1 DEF Spacing, SamplesSpaced
  <2>2. CASE sampled' = [sampled EXCEPT ![e] = @ \cup {t}] /\ Due(ch, t)
    <3> SUFFICES ASSUME NEW d \in Devices, NEW s \in sampled'[d], NEW u \in sampled'[d], s < u
                 PROVE  s + INTERVAL <= u
      BY DEF SamplesSpaced
    <3>1. CASE s \in sampled[d] /\ u \in sampled[d]
      BY <3>1 DEF Spacing, SamplesSpaced
    <3>2. CASE s \notin sampled[d] \/ u \notin sampled[d]
      <4>1. d = e /\ (s = t \/ u = t)
        BY <2>2, <3>2 DEF TypeOK
      <4>2. CASE u = t
        <5>1. s \in sampled[e]
          BY <1>3, <2>2, <4>1, <4>2 DEF TypeOK
        <5> QED  BY <1>4, <2>2, <4>2, <5>1
      <4>3. CASE s = t /\ u # t
        <5>1. u \in sampled[e] /\ u \in Nat
          BY <1>3, <2>2, <4>1, <4>3 DEF TypeOK
        <5> QED  BY <1>3, <1>4, <2>2, <4>3, <5>1, Lengths
      <4> QED  BY <4>1, <4>2, <4>3
    <3> QED  BY <3>1, <3>2
  <2> QED  BY <1>5, <2>1, <2>2
<1> QED  BY <1>8, <1>9, <1>10, <1>11 DEF Spacing

LEMMA StepSpacing ==
    IInv /\ Spacing /\ [Next]_vars /\ [KeepsRoute]_vars => Spacing'
<1> SUFFICES ASSUME IInv, Spacing, [Next]_vars, [KeepsRoute]_vars PROVE Spacing'
  OBVIOUS
<1> USE DEF IInv
<1>0. time \in Nat /\ time \in Times
  BY Numbers DEF TypeOK
<1>1. CASE UNCHANGED vars
  BY <1>0, <1>1, SpacingFrame DEF vars, tables, history
<1>2. CASE Tick
  <2>1. time' \in Times /\ time <= time'
    BY <1>0, <1>2, PowerConstants DEF Tick, Times
  <2> QED  BY <1>2, <2>1, SpacingFrame DEF Tick, tables, history
<1>3. ASSUME ~UNCHANGED vars, NEW e \in Devices, NEW i \in Ids, Claim(e, i) PROVE Spacing'
  BY <1>3, ClaimSpacing
<1>4. ASSUME NEW e \in Devices, NEW t \in Times, StateMessage(e, t) PROVE Spacing'
  BY <1>4, MessageSpacing
<1>5. CASE ReadDay \/ InsertSummary \/ PassFails \/ RebuildDays \/ PageConflicts
           \/ PageFails \/ RestartBackend
           \/ (\E e \in Devices, times \in UNION {kSubset(k, 0 .. time) : k \in 1 .. PAGE} :
                 InsertPage(e, times))
  <2>1. UNCHANGED <<time, route, sampled, stored>>
    BY <1>5 DEF ReadDay, InsertSummary, PassFails, RebuildDays, PageConflicts, PageFails,
                RestartBackend, InsertPage, tables, history
  <2>2. UNCHANGED cache \/ cache' = [i \in Ids |-> None]
    BY <1>5 DEF ReadDay, InsertSummary, PassFails, RebuildDays, PageConflicts, PageFails,
                RestartBackend, InsertPage
  <2> QED  BY <1>0, <2>1, <2>2, SpacingFrame
<1>6. CASE Clean
  <2>1. \A e \in Devices : \A s \in stored[e] \ stored'[e] : Gone(s)
    BY <1>6, ExpiredSpan DEF Clean, TypeOK, Gone
  <2> QED  BY <1>0, <1>6, <2>1, SpacingFrame DEF Clean, history
<1>7. CASE CommitPage
  <2>1. \A e \in Devices : stored[e] \subseteq stored'[e]
    BY <1>7 DEF CommitPage, TypeOK
  <2> QED  BY <1>0, <1>7, <2>1, SpacingFrame DEF CommitPage
<1> QED  BY <1>1, <1>2, <1>3, <1>4, <1>5, <1>6, <1>7 DEF Next

THEOREM SpacingInductive == Spec /\ [][KeepsRoute]_vars => []Spacing
<1>1. Init => Spacing
  BY DEF Init, Spacing, RoutesApart, CacheKnows, StoredKnows, SamplesSpaced
<1> QED  BY <1>1, StepSpacing, Inductive, PTL DEF Spec

\* As long as no device changes a routing identity it has, the samples that the worker
\* stores are INTERVAL apart, over restarts, imports and the retention.
THEOREM SpacedCorrect == Spec /\ [][KeepsRoute]_vars => []SamplesSpaced
<1>1. Spacing => SamplesSpaced
  BY DEF Spacing
<1> QED  BY <1>1, SpacingInductive, PTL

-----------------------------------------------------------------------------
(* The channel of a sample, of devices that change their identities as they like. *)

\* What the cache has of a routing identity is the device that has it, or one that has
\* given it up since the back end started.
CacheRoutes ==
    \A i \in Ids : cache[i] # None =>
        route[cache[i].device] = i \/ <<cache[i].device, i>> \in left

\* A sample enters the channel c of another device only through what the cache keeps
\* of an identity that c gave up and the device that measured it has now.
MisplacedByCache ==
    \A c \in Devices, t \in Times : <<c, t>> \in foreign' \ foreign =>
        \E e \in Devices \ {c}, i \in Ids :
            /\ route[e] = i /\ cache[i] # None /\ cache[i].device = c
            /\ <<c, i>> \in left

\* A routing identity moves on: it is free, and the old one is remembered as given up.
LEMMA ClaimRoutes ==
    ASSUME IInv, RoutesApart, CacheRoutes, NEW e \in Devices, NEW i \in Ids, Claim(e, i)
    PROVE  RoutesApart' /\ CacheRoutes'
<1>1. /\ \A d \in Devices : route[d] # i
      /\ route' = [route EXCEPT ![e] = i] /\ route \in [Devices -> Ids \cup {None}]
      /\ UNCHANGED cache
      /\ left \subseteq left' /\ (route[e] # None => <<e, route[e]>> \in left')
  BY DEF Claim, IInv, TypeOK
<1>2. RoutesApart'
  BY <1>1 DEF RoutesApart
<1>3. CacheRoutes'
  <2> SUFFICES ASSUME NEW j \in Ids, cache[j] # None
               PROVE  route'[cache[j].device] = j \/ <<cache[j].device, j>> \in left'
    BY <1>1 DEF CacheRoutes
  <2>1. cache[j].device \in Devices
    BY DEF IInv, TypeOK, Channels
  <2>2. j # None
    BY PowerConstants
  <2> QED  BY <1>1, <2>1, <2>2 DEF CacheRoutes
<1> QED  BY <1>2, <1>3

\* A state message: the cache keeps the device it has, or that of the row.
LEMMA MessageRoutes ==
    ASSUME IInv, RoutesApart, CacheRoutes, NEW e \in Devices, NEW t \in Times,
           StateMessage(e, t)
    PROVE  RoutesApart' /\ CacheRoutes'
<1> DEFINE i == route[e]
           ch == Channel(i)
<1>1. i # None /\ UNCHANGED <<route, left>>
  BY DEF StateMessage, SkipSample, StoreSample, DuplicateSample, StoreFails, history
<1>2. /\ i \in Ids /\ ch \in Channels /\ cache \in [Ids -> Channels \cup {None}]
      /\ cache[i] = None => route[ch.device] = i
      /\ cache[i] # None => ch = cache[i]
  BY <1>1, ChannelType DEF IInv, TypeOK, Channel
<1>3. \/ cache' = [cache EXCEPT ![i] = ch]
      \/ cache' = [cache EXCEPT ![i] = [ch EXCEPT !.last = t]]
  BY DEF StateMessage, SkipSample, StoreSample, DuplicateSample, StoreFails, Recorded
<1> HIDE DEF ch, i
<1>4. cache'[i].device = ch.device /\ \A j \in Ids \ {i} : cache'[j] = cache[j]
  BY <1>2, <1>3 DEF Channels
<1>5. RoutesApart'
  BY <1>1 DEF RoutesApart
<1>6. CacheRoutes'
  <2> SUFFICES ASSUME NEW j \in Ids, cache'[j] # None
               PROVE  route[cache'[j].device] = j \/ <<cache'[j].device, j>> \in left
    BY <1>1 DEF CacheRoutes
  <2> QED  BY <1>2, <1>4 DEF CacheRoutes
<1> QED  BY <1>5, <1>6

LEMMA StepRoutes ==
    IInv /\ RoutesApart /\ CacheRoutes /\ [Next]_vars => RoutesApart' /\ CacheRoutes'
<1> SUFFICES ASSUME IInv, RoutesApart, CacheRoutes, [Next]_vars
             PROVE  RoutesApart' /\ CacheRoutes'
  OBVIOUS
<1>1. ASSUME NEW e \in Devices, NEW i \in Ids, Claim(e, i)
      PROVE  RoutesApart' /\ CacheRoutes'
  BY <1>1, ClaimRoutes
<1>2. ASSUME NEW e \in Devices, NEW t \in Times, StateMessage(e, t)
      PROVE  RoutesApart' /\ CacheRoutes'
  BY <1>2, MessageRoutes
<1>3. CASE RestartBackend
  BY <1>3 DEF RestartBackend, RoutesApart, CacheRoutes
<1>4. CASE UNCHANGED vars \/ Tick \/ ReadDay \/ InsertSummary \/ Clean \/ PassFails
           \/ RebuildDays \/ CommitPage \/ PageConflicts \/ PageFails
           \/ (\E e \in Devices, times \in UNION {kSubset(k, 0 .. time) : k \in 1 .. PAGE} :
                 InsertPage(e, times))
  <2>1. UNCHANGED <<route, cache, left>>
    BY <1>4 DEF vars, Tick, ReadDay, InsertSummary, Clean, PassFails, InsertPage, RebuildDays,
                CommitPage, PageConflicts, PageFails, history
  <2> QED  BY <2>1 DEF RoutesApart, CacheRoutes
<1> QED  BY <1>1, <1>2, <1>3, <1>4 DEF Next

\* Only a state message misplaces a sample, and how.
LEMMA StepMisplaces ==
    IInv /\ RoutesApart /\ CacheRoutes /\ [Next]_vars => MisplacedByCache
<1> SUFFICES ASSUME IInv, RoutesApart, CacheRoutes, [Next]_vars,
                    NEW c \in Devices, NEW s \in Times, <<c, s>> \in foreign' \ foreign
             PROVE  \E e \in Devices \ {c}, i \in Ids :
                        /\ route[e] = i /\ cache[i] # None /\ cache[i].device = c
                        /\ <<c, i>> \in left
  BY DEF MisplacedByCache
<1>1. PICK e \in Devices, t \in Times : StateMessage(e, t)
  BY DEF Next, vars, Tick, Claim, ReadDay, InsertSummary, Clean, PassFails, InsertPage,
         RebuildDays, CommitPage, PageConflicts, PageFails, RestartBackend, history
<1> DEFINE i == route[e]
           d == Channel(i).device
<1>2. i # None
  BY <1>1 DEF StateMessage, SkipSample, StoreSample, DuplicateSample, StoreFails
<1>3. UNCHANGED foreign \/ Store(e, d, t)
  BY <1>1 DEF StateMessage, SkipSample, StoreSample, DuplicateSample, StoreFails, history
<1>4. d = c /\ d # e
  BY <1>3 DEF Store
<1>5. i \in Ids /\ (cache[i] = None => route[d] = i)
  BY <1>2, ChannelType DEF IInv
<1>6. route[d] # i
  BY <1>2, <1>4 DEF RoutesApart
<1>7. cache[i] # None /\ cache[i].device = c
  BY <1>4, <1>5, <1>6 DEF Channel
<1>8. <<c, i>> \in left
  BY <1>4, <1>5, <1>6, <1>7 DEF CacheRoutes
<1> QED  BY <1>4, <1>5, <1>7, <1>8

\* A sample is stored in the channel of the device that measured it, but for the identity
\* that another device gave up since the back end started and that is still cached for
\* that device: the behaviour of MeasuredByDevice's violation is the only way to it.
THEOREM AttributionCorrect == Spec => [][MisplacedByCache]_vars
<1>1. Init => RoutesApart /\ CacheRoutes
  BY DEF Init, RoutesApart, CacheRoutes
<1>2. IInv /\ RoutesApart /\ CacheRoutes /\ [Next]_vars => [MisplacedByCache]_vars
  BY StepMisplaces
<1> QED  BY <1>1, <1>2, StepRoutes, Inductive, PTL DEF Spec
=============================================================================
