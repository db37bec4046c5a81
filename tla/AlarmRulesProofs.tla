-------------------------- MODULE AlarmRulesProofs --------------------------
(***************************************************************************)
(* Proofs about AlarmRules: the rules the owner was told to be in force    *)
(* are kept by the back end, and are what the recovery decides to restore, *)
(* for any number of rules, concurrent requests, restarts of the device,   *)
(* timeouts and commands left behind; but for the rules that were lost to  *)
(* a request that had read its list before they were confirmed.            *)
(***************************************************************************)
EXTENDS AlarmRules, WellFoundedInduction, TLAPS

\* Commands, requests and jobs as the routes and the worker leave them: a command that
\* sets a rule has a value for it, a request that sets one has read the list it will
\* store, and the worker writes only what it has found to differ.
Sent == {m \in Command : m.index # None => m.value \in Values}

Asked ==
    {r \in RequestStates :
        /\ r.pc = "adopting" /\ r.index # None => r.value \in Values
        /\ r.pc = "setting" => r.index \in Indexes /\ r.value \in Values /\ r.seen \in Rules}

Given ==
    {w \in Jobs :
        /\ w.pc # "idle" => w.boot \in Boots
        /\ w.pc \notin {"idle", "queued", "succeeded"} => w.expected \in Rules
        /\ w.pc \in {"sending", "writing"} => w.todo # {}}

TypeInv ==
    /\ TypeOK
    /\ wire \subseteq Sent
    /\ request \in [Requests -> Asked]
    /\ worker \in Given

\* A list that a request has read has the confirmed rules, but for those it is known
\* to lack, and without a stored list the owner was not told anything.
ReadsKnown ==
    /\ \A q \in Requests : request[q].pc = "setting" =>
         \A i \in Indexes \ missing[q] :
            confirmed[i] # None => request[q].seen[i] = confirmed[i]
    /\ stored = None => \A i \in Indexes : confirmed[i] = None

IInv == TypeInv /\ ReadsKnown /\ ConfirmedKept
-----------------------------------------------------------------------------
(* Lemmas about the rules and the parties.                                 *)

\* The rule that is restored next is one of those that differ.
LEMMA NextIndexOf ==
    ASSUME worker.todo \in SUBSET Indexes, worker.todo # {}
    PROVE  NextIndex \in worker.todo
<1>1. worker.todo \in SUBSET Nat
  BY AlarmConstants
<1>2. IsWellFoundedOn(OpToRel(<, Nat), Nat)
  BY NatLessThanWellFounded
<1>3. PICK x \in worker.todo : \A y \in worker.todo : ~(<<y, x>> \in OpToRel(<, Nat))
  BY <1>1, <1>2, WFMin
<1>4. \A y \in worker.todo : ~(y < x)
  BY <1>1, <1>3 DEF OpToRel
<1>5. \A y \in worker.todo : x <= y
  BY <1>1, <1>4
<1> QED  BY <1>5, Zenon DEF NextIndex

\* What the owner was told, and what the lists lack of it.
ToldType ==
    /\ confirmed \in [Indexes -> Values \cup {None}]
    /\ missing \in [Requests -> SUBSET Indexes] /\ lost \subseteq Indexes

LEMMA ToldFrame ==
    ASSUME ToldType, UNCHANGED told
    PROVE  ToldType'
  BY DEF ToldType, told

\* What the parts of the invariant are when a step ends.
LEMMA Gather ==
    ASSUME device' \in Rules, boot' \in Boots, wire' \subseteq Sent,
           stored' \in Rules \cup {None}, request' \in [Requests -> Asked],
           worker' \in Given, verified' \in Boots \cup {None}, ToldType'
    PROVE  TypeInv'
<1>1. Sent \subseteq Command /\ Given \subseteq Jobs /\ Asked \subseteq RequestStates
  BY DEF Sent, Given, Asked
<1>2. wire' \subseteq Command /\ worker' \in Jobs /\ request' \in [Requests -> RequestStates]
  BY <1>1
<1> QED  BY <1>2 DEF TypeInv, TypeOK, ToldType

LEMMA Parts ==
    ASSUME TypeInv
    PROVE  /\ device \in Rules /\ boot \in Boots /\ wire \subseteq Sent
           /\ stored \in Rules \cup {None} /\ request \in [Requests -> Asked]
           /\ worker \in Given /\ verified \in Boots \cup {None}
           /\ ToldType
           /\ \A q \in Requests : request[q] \in Asked /\ request[q] \in RequestStates
           /\ worker \in Jobs
  BY DEF TypeInv, TypeOK, ToldType

LEMMA GetSent == \A p \in Clients : Get(p) \in Sent
  BY DEF Get, Sent, Command

LEMMA SetSent ==
    \A p \in Clients, i \in Indexes, v \in Values : Set(p, i, v) \in Sent
  BY DEF Set, Sent, Command

LEMMA Idle == NoRequest \in Asked /\ NoJob \in Given
<1>1. 0 \in 0 .. MaxBoots
  BY AlarmConstants
<1>2. NoRequest \in RequestStates
  BY DEF NoRequest, RequestStates
<1>3. NoJob \in Jobs
  BY <1>1 DEF NoJob, Jobs
<1> QED  BY <1>2, <1>3 DEF NoRequest, NoJob, Asked, Given
-----------------------------------------------------------------------------
(* Every step preserves the types.                                         *)

\* The device executes a command, for a caller or for nobody any more.
LEMMA ExecuteStep ==
    ASSUME TypeInv, NEW m \in wire, Execute(m)
    PROVE  TypeInv'
<1>1. m \in Sent /\ m \in Command
  BY Parts DEF Sent
<1>2. Executed(m) \in Rules
  <2>1. CASE m.index = None
    BY <2>1, Parts DEF Executed
  <2>2. CASE m.index # None
    <3>1. m.index \in Indexes /\ m.value \in Values /\ device \in Rules
      BY <1>1, <2>2, Parts DEF Sent, Command
    <3> QED  BY <2>2, <3>1 DEF Executed, Rules
  <2> QED  BY <2>1, <2>2
<1> DEFINE x == Executed(m)
<1> HIDE DEF x
<1>3. \A r \in Asked : [r EXCEPT !.answer = x] \in Asked
  <2> SUFFICES ASSUME NEW r \in Asked PROVE [r EXCEPT !.answer = x] \in Asked
    OBVIOUS
  <2>1. r \in RequestStates /\ x \in Rules
    BY <1>2 DEF Asked, x
  <2>2. [r EXCEPT !.answer = x] \in RequestStates
    BY <2>1 DEF RequestStates
  <2> QED  BY <2>1, <2>2 DEF Asked, RequestStates
<1>4. \A w \in Given : [w EXCEPT !.answer = x] \in Given
  <2> SUFFICES ASSUME NEW w \in Given PROVE [w EXCEPT !.answer = x] \in Given
    OBVIOUS
  <2>1. w \in Jobs /\ x \in Rules
    BY <1>2 DEF Given, x
  <2>2. [w EXCEPT !.answer = x] \in Jobs
    BY <2>1 DEF Jobs
  <2> QED  BY <2>1, <2>2 DEF Given, Jobs
<1>5. request' \in [Requests -> Asked]
  BY <1>3, Parts DEF Execute, x
<1>6. worker' \in Given
  BY <1>4, Parts DEF Execute, x
<1>7. device' \in Rules /\ wire' \subseteq Sent
  BY <1>2, Parts DEF Execute
<1>8. UNCHANGED <<boot, stored, verified, told>>
  BY DEF Execute
<1> QED  BY <1>5, <1>6, <1>7, <1>8, ToldFrame, Parts, Gather

LEMMA RestartStep ==
    ASSUME TypeInv, Restart
    PROVE  TypeInv'
<1>1. boot' \in Boots
  <2>1. MaxBoots \in Nat /\ boot \in 1 .. MaxBoots
    BY AlarmConstants, Parts DEF Boots
  <2> QED  BY <2>1 DEF Restart, Boots
<1>2. device' \in Rules
  BY Parts, AlarmConstants DEF Restart, Rules
<1>3. wire' = {} /\ UNCHANGED <<stored, request, worker, verified, told>>
  BY DEF Restart, callers
<1> QED  BY <1>1, <1>2, <1>3, ToldFrame, Parts, Gather

LEMMA GiveUpStep ==
    ASSUME TypeInv, NEW p \in Clients, GiveUp(p)
    PROVE  TypeInv'
<1>1. \A m \in Sent : [m EXCEPT !.by = None] \in Sent
  <2> SUFFICES ASSUME NEW m \in Sent PROVE [m EXCEPT !.by = None] \in Sent
    OBVIOUS
  <2>1. m \in Command
    BY DEF Sent
  <2>2. [m EXCEPT !.by = None] \in Command
    BY <2>1 DEF Command
  <2> QED  BY <2>1, <2>2 DEF Sent, Command
<1> DEFINE mine == {m \in wire : m.by = p}
<1>2. mine \subseteq Sent /\ wire \subseteq Sent
  BY Parts
<1>3. \/ wire' = wire \/ wire' = wire \ mine
      \/ wire' = (wire \ mine) \cup {[m EXCEPT !.by = None] : m \in mine}
  BY DEF GiveUp
<1> HIDE DEF mine
<1>4. wire' \subseteq Sent
  BY <1>1, <1>2, <1>3
<1>5. request' \in [Requests -> Asked] /\ worker' \in Given
  BY Idle, Parts DEF GiveUp
<1>6. UNCHANGED <<device, boot, stored, verified, confirmed, lost>>
  BY DEF GiveUp
<1>7. missing' = missing \/ missing' = [missing EXCEPT ![p] = {}]
  BY DEF GiveUp
<1>8. ToldType'
  BY <1>6, <1>7, Parts DEF ToldType
<1> QED  BY <1>4, <1>5, <1>6, <1>8, Parts, Gather
-----------------------------------------------------------------------------
(* The owner's requests.                                                   *)

\* What the requests of the owner change of the parts.
LEMMA OwnerStep ==
    ASSUME TypeInv, NEW q \in Requests, NEW r \in Asked, request' = [request EXCEPT ![q] = r],
           wire' \subseteq Sent, stored' \in Rules \cup {None},
           verified' \in Boots \cup {None}, ToldType',
           UNCHANGED <<device, boot, worker>>
    PROVE  TypeInv'
<1>1. request' \in [Requests -> Asked]
  BY Parts
<1> QED  BY <1>1, Parts, Gather

LEMMA BeginRequestStep ==
    ASSUME TypeInv, NEW q \in Requests, NEW p \in Proposals, BeginRequest(q, p[1], p[2])
    PROVE  TypeInv'
<1> DEFINE i == p[1]
           v == p[2]
<1>1. \/ i = None /\ v = None
      \/ i \in Indexes /\ v \in Values
  BY DEF Proposals
<1> HIDE DEF i, v
<1>2. q \in Clients
  BY DEF Clients
<1>3. UNCHANGED <<device, boot, stored, worker, verified, confirmed, lost>>
  BY DEF BeginRequest
<1>6. ToldType'
  <2>1. missing' = missing \/ missing' = [missing EXCEPT ![q] = lost]
    BY DEF BeginRequest
  <2> QED  BY <1>3, <2>1, Parts DEF ToldType
<1>4. CASE stored = None
  <2> DEFINE r == [NoRequest EXCEPT !.pc = "adopting", !.index = i, !.value = v]
  <2>1. wire' = wire \cup {Get(q)} /\ request' = [request EXCEPT ![q] = r]
    BY <1>4 DEF BeginRequest, i, v
  <2>2. NoRequest \in RequestStates
    BY Idle DEF Asked
  <2>3. r \in RequestStates /\ r.pc = "adopting" /\ r.index = i /\ r.value = v
    BY <1>1, <2>2 DEF RequestStates
  <2>4. r \in Asked
    BY <1>1, <2>3 DEF Asked
  <2>5. wire' \subseteq Sent
    BY <1>2, <2>1, GetSent, Parts
  <2> HIDE DEF r
  <2> QED  BY <1>3, <1>6, <2>1, <2>4, <2>5, Parts, OwnerStep
<1>5. CASE stored # None /\ i # None
  <2> DEFINE r == [pc |-> "setting", index |-> i, value |-> v, seen |-> stored, answer |-> None]
  <2>1. wire' = wire \cup {Set(q, i, v)} /\ request' = [request EXCEPT ![q] = r]
    BY <1>5 DEF BeginRequest, i, v
  <2>2. i \in Indexes /\ v \in Values /\ stored \in Rules
    BY <1>1, <1>5, Parts
  <2>3. r \in RequestStates
    BY <2>2 DEF RequestStates
  <2>4. r \in Asked
    BY <2>2, <2>3 DEF Asked
  <2>5. wire' \subseteq Sent
    BY <1>2, <2>1, <2>2, SetSent, Parts
  <2> HIDE DEF r
  <2> QED  BY <1>3, <1>6, <2>1, <2>4, <2>5, Parts, OwnerStep
<1> QED  BY <1>4, <1>5 DEF BeginRequest, i

LEMMA AdoptStep ==
    ASSUME TypeInv, NEW q \in Requests, Adopt(q)
    PROVE  TypeInv'
<1> DEFINE r == request[q]
<1>1. /\ r \in RequestStates /\ r \in Asked /\ r.pc = "adopting" /\ r.answer \in Rules
      /\ UNCHANGED <<device, boot, worker, verified, told>>
  BY Parts DEF Adopt, RequestStates
<1>2. CASE request' = [request EXCEPT ![q] = NoRequest] /\ UNCHANGED wire
  <2>1. stored' \in Rules \cup {None}
    BY <1>1, Parts DEF Adopt
  <2> QED  BY <1>1, <1>2, <2>1, Idle, ToldFrame, Parts, OwnerStep
<1>3. CASE /\ stored = None /\ stored' = r.answer /\ r.index # None
           /\ request' = [request EXCEPT ![q] =
                [r EXCEPT !.pc = "setting", !.seen = r.answer, !.answer = None]]
           /\ wire' = wire \cup {Set(q, r.index, r.value)}
  <2> DEFINE n == [r EXCEPT !.pc = "setting", !.seen = r.answer, !.answer = None]
  <2>1. r.index \in Indexes /\ r.value \in Values
    BY <1>1, <1>3 DEF Asked, RequestStates
  <2>2. n \in RequestStates
    BY <1>1 DEF RequestStates
  <2>3. n.pc = "setting" /\ n.index = r.index /\ n.value = r.value /\ n.seen = r.answer
    BY <1>1 DEF RequestStates
  <2> HIDE DEF n
  <2>4. n \in Asked
    BY <1>1, <2>1, <2>2, <2>3 DEF Asked
  <2>5. wire' \subseteq Sent
    BY <1>3, <2>1, SetSent, Parts DEF Clients
  <2>6. request' = [request EXCEPT ![q] = n]
    BY <1>3 DEF n
  <2>7. stored' \in Rules \cup {None}
    BY <1>1, <1>3
  <2> QED  BY <1>1, <2>4, <2>5, <2>6, <2>7, ToldFrame, Parts, OwnerStep
<1> QED  BY <1>2, <1>3 DEF Adopt

LEMMA CommitSetStep ==
    ASSUME TypeInv, NEW q \in Requests, CommitSet(q)
    PROVE  TypeInv'
<1> DEFINE r == request[q]
           n == [NoRequest EXCEPT !.pc = "invalidating"]
<1>1. r \in Asked /\ r.pc = "setting"
  BY Parts DEF CommitSet, Acknowledged
<1>2. r.index \in Indexes /\ r.value \in Values /\ r.seen \in Rules
  BY <1>1 DEF Asked
<1>3. /\ stored' = [r.seen EXCEPT ![r.index] = r.value]
      /\ confirmed' = [confirmed EXCEPT ![r.index] = r.value]
      /\ lost' = missing[q] \ {r.index}
      /\ missing' = [p \in Requests |->
                       IF p = q THEN {}
                       ELSE IF request[p].pc = "setting" THEN missing[p] \cup {r.index}
                       ELSE missing[p]]
      /\ request' = [request EXCEPT ![q] = n]
      /\ UNCHANGED <<device, boot, wire, worker, verified>>
  BY DEF CommitSet, Updated
<1>4. n \in Asked
  <2>1. n = [pc |-> "invalidating", index |-> None, value |-> None, seen |-> None,
             answer |-> None]
    BY DEF NoRequest
  <2>2. n \in RequestStates
    BY <2>1 DEF RequestStates
  <2> QED  BY <2>1, <2>2 DEF Asked
<1>5. stored' \in Rules \cup {None}
  BY <1>2, <1>3 DEF Rules
<1>6. ToldType'
  BY <1>2, <1>3, Parts DEF ToldType
<1> HIDE DEF n
<1> QED  BY <1>3, <1>4, <1>5, <1>6, Parts, OwnerStep

LEMMA InvalidateStep ==
    ASSUME TypeInv, NEW q \in Requests, Invalidate(q)
    PROVE  TypeInv'
<1>1. /\ request' = [request EXCEPT ![q] = NoRequest] /\ verified' = None
      /\ UNCHANGED <<device, boot, wire, stored, worker, told>>
  BY DEF Invalidate
<1>2. wire' \subseteq Sent /\ stored' \in Rules \cup {None}
  BY <1>1, Parts
<1>3. verified' \in Boots \cup {None} /\ ToldType'
  BY <1>1, ToldFrame, Parts
<1> QED  BY <1>1, <1>2, <1>3, Idle, OwnerStep
-----------------------------------------------------------------------------
(* The recovery worker.                                                    *)

\* What the worker's steps change of the parts.
LEMMA WorkerStep ==
    ASSUME TypeInv, worker' \in Given, wire' \subseteq Sent, verified' \in Boots \cup {None},
           UNCHANGED <<device, boot, stored, request, told>>
    PROVE  TypeInv'
  BY ToldFrame, Parts, Gather

\* A job keeps its boot and the list it has read while it goes from step to step.
LEMMA GoesOn ==
    ASSUME TypeInv, worker.pc \notin {"idle", "queued", "succeeded"},
           NEW pc \in {"reading", "restoring", "sending", "writing", "checking", "succeeded"},
           NEW todo \in SUBSET Indexes, NEW answer \in Rules \cup {None},
           pc \in {"sending", "writing"} => todo # {}
    PROVE  [worker EXCEPT !.pc = pc, !.todo = todo, !.answer = answer] \in Given
<1> DEFINE w == [worker EXCEPT !.pc = pc, !.todo = todo, !.answer = answer]
<1>1. worker \in Jobs /\ worker.boot \in Boots /\ worker.expected \in Rules
  BY Parts DEF Given
<1>2. w \in Jobs
  BY <1>1 DEF Jobs
<1>3. w.pc = pc /\ w.boot = worker.boot /\ w.expected = worker.expected /\ w.todo = todo
  BY <1>1 DEF Jobs
<1> HIDE DEF w
<1>4. w \in Given
  BY <1>1, <1>2, <1>3 DEF Given
<1> QED  BY <1>4 DEF w

\* The steps of a job that has read the list.
LEMMA JobStep ==
    ASSUME TypeInv, worker.pc \notin {"idle", "queued", "succeeded"},
           NEW pc \in {"reading", "restoring", "sending", "writing", "checking", "succeeded"},
           NEW todo \in SUBSET Indexes, NEW answer \in Rules \cup {None},
           pc \in {"sending", "writing"} => todo # {},
           worker' = [worker EXCEPT !.pc = pc, !.todo = todo, !.answer = answer],
           wire' \subseteq Sent,
           UNCHANGED <<device, boot, stored, request, verified, told>>
    PROVE  TypeInv'
<1>1. worker' \in Given
  BY GoesOn
<1> QED  BY <1>1, Parts, WorkerStep

\* The worker drops its job.
LEMMA DropStep ==
    ASSUME TypeInv, worker' = NoJob, verified' \in Boots \cup {None},
           UNCHANGED <<device, boot, wire, stored, request, told>>
    PROVE  TypeInv'
<1>1. worker' \in Given /\ wire' \subseteq Sent
  BY Idle, Parts
<1> QED  BY <1>1, WorkerStep

LEMMA ScheduleStep ==
    ASSUME TypeInv, Schedule
    PROVE  TypeInv'
<1> DEFINE w == [NoJob EXCEPT !.pc = "queued", !.boot = boot]
<1>1. NoJob \in Jobs /\ boot \in Boots /\ boot \in 0 .. MaxBoots
  <2>1. MaxBoots \in Nat /\ boot \in 1 .. MaxBoots
    BY AlarmConstants, Parts DEF Boots
  <2> QED  BY <2>1, Idle DEF Given, Boots
<1>2. w \in Jobs /\ w.pc = "queued" /\ w.boot = boot
  BY <1>1 DEF Jobs
<1>3. worker' = w /\ UNCHANGED <<device, boot, wire, stored, request, verified, told>>
  BY DEF Schedule
<1> HIDE DEF w
<1>4. w \in Given
  BY <1>1, <1>2 DEF Given
<1> QED  BY <1>3, <1>4, Parts, WorkerStep

LEMMA StartReconcileStep ==
    ASSUME TypeInv, StartReconcile
    PROVE  TypeInv'
<1>1. /\ worker.pc = "queued" /\ worker \in Jobs /\ worker.boot \in Boots
      /\ UNCHANGED <<device, boot, stored, request, verified, told>>
  BY Parts DEF StartReconcile, Given
<1>2. CASE stored = None /\ worker' = [worker EXCEPT !.pc = "succeeded"] /\ UNCHANGED wire
  <2>1. worker' \in Jobs /\ worker'.pc = "succeeded" /\ worker'.boot = worker.boot
    BY <1>1, <1>2 DEF Jobs
  <2>2. worker' \in Given
    BY <1>1, <2>1 DEF Given
  <2> QED  BY <1>1, <1>2, <2>2, Parts, WorkerStep
<1>3. CASE /\ stored # None /\ wire' = wire \cup {Get(Recovery)}
           /\ worker' = [worker EXCEPT !.pc = "reading", !.expected = stored]
  <2>1. stored \in Rules
    BY <1>3, Parts
  <2>2. /\ worker' \in Jobs /\ worker'.pc = "reading" /\ worker'.boot = worker.boot
        /\ worker'.expected \in Rules
    BY <1>1, <1>3, <2>1 DEF Jobs
  <2>3. worker' \in Given
    BY <1>1, <2>2 DEF Given
  <2>4. wire' \subseteq Sent
    BY <1>3, GetSent, Parts DEF Clients
  <2> QED  BY <1>1, <2>3, <2>4, Parts, WorkerStep
<1> QED  BY <1>2, <1>3 DEF StartReconcile

LEMMA CompareRulesStep ==
    ASSUME TypeInv, CompareRules
    PROVE  TypeInv'
<1>1. /\ worker.pc = "reading" /\ worker \in Jobs
      /\ UNCHANGED <<device, boot, wire, stored, request, verified, told>>
  BY Parts DEF CompareRules
<1>2. worker.todo \in SUBSET Indexes /\ wire' \subseteq Sent
  BY <1>1, Parts DEF Jobs
<1>3. CASE worker' = [worker EXCEPT !.pc = "succeeded", !.answer = None]
  <2>1. worker' = [worker EXCEPT !.pc = "succeeded", !.todo = worker.todo, !.answer = None]
    BY <1>1, <1>3 DEF Jobs
  <2> QED  BY <1>1, <1>2, <2>1, JobStep
<1>4. CASE worker' = [worker EXCEPT !.pc = "restoring", !.answer = None,
                !.todo = {i \in Indexes : worker.answer[i] # worker.expected[i]}]
  <2> DEFINE todo == {i \in Indexes : worker.answer[i] # worker.expected[i]}
  <2>1. todo \in SUBSET Indexes
    OBVIOUS
  <2>2. worker' = [worker EXCEPT !.pc = "restoring", !.todo = todo, !.answer = None]
    BY <1>1, <1>4 DEF Jobs
  <2> HIDE DEF todo
  <2> QED  BY <1>1, <1>2, <2>1, <2>2, JobStep
<1> QED  BY <1>3, <1>4 DEF CompareRules

\* The steps from one rule to the next.
LEMMA RestoreSteps ==
    ASSUME TypeInv, CheckIntent \/ RestoreRule \/ RuleRestored \/ AskAgain \/ ConfirmRules
    PROVE  TypeInv'
<1>1. /\ worker \in Jobs /\ worker.todo \in SUBSET Indexes /\ worker.answer \in Rules \cup {None}
      /\ wire \subseteq Sent /\ verified \in Boots \cup {None}
  BY Parts DEF Jobs
<1>2. CASE CheckIntent
  <2>1. /\ worker.pc = "restoring" /\ worker.todo # {}
        /\ UNCHANGED <<device, boot, wire, stored, request, verified, told>>
    BY <1>2 DEF CheckIntent
  <2>2. CASE worker' = [worker EXCEPT !.pc = "sending"]
    <3>1. worker' = [worker EXCEPT !.pc = "sending", !.todo = worker.todo,
                                   !.answer = worker.answer]
      BY <1>1, <2>2 DEF Jobs
    <3>2. wire' \subseteq Sent
      BY <1>1, <2>1
    <3> QED  BY <1>1, <2>1, <3>1, <3>2, JobStep
  <2>3. CASE worker' = NoJob
    BY <1>1, <2>1, <2>3, DropStep
  <2> QED  BY <1>2, <2>2, <2>3 DEF CheckIntent
<1>3. CASE RestoreRule
  <2>1. /\ worker.pc = "sending"
        /\ UNCHANGED <<device, boot, stored, request, verified, told>>
        /\ wire' = wire \cup {Set(Recovery, NextIndex, worker.expected[NextIndex])}
    BY <1>3 DEF RestoreRule
  <2>2. worker.todo # {} /\ worker.expected \in Rules
    BY <2>1, Parts DEF Given
  <2>3. NextIndex \in Indexes
    BY <1>1, <2>2, NextIndexOf
  <2>4. worker.expected[NextIndex] \in Values
    BY <2>2, <2>3 DEF Rules
  <2>5. wire' \subseteq Sent
    BY <1>1, <2>1, <2>3, <2>4, SetSent DEF Clients
  <2>6. worker' = [worker EXCEPT !.pc = "writing", !.todo = worker.todo,
                                 !.answer = worker.answer]
    BY <1>1, <1>3 DEF RestoreRule, Jobs
  <2> QED  BY <1>1, <2>1, <2>2, <2>5, <2>6, JobStep
<1>4. CASE RuleRestored
  <2> DEFINE todo == worker.todo \ {NextIndex}
  <2>1. /\ worker.pc = "writing"
        /\ UNCHANGED <<device, boot, wire, stored, request, verified, told>>
    BY <1>4 DEF RuleRestored
  <2>2. worker' = [worker EXCEPT !.pc = "restoring", !.todo = todo, !.answer = None]
    BY <1>1, <1>4 DEF RuleRestored, Jobs
  <2>3. todo \in SUBSET Indexes /\ wire' \subseteq Sent
    BY <1>1, <2>1
  <2> HIDE DEF todo
  <2> QED  BY <2>1, <2>2, <2>3, JobStep
<1>5. CASE AskAgain
  <2>1. /\ worker.pc = "restoring" /\ wire' = wire \cup {Get(Recovery)}
        /\ UNCHANGED <<device, boot, stored, request, verified, told>>
    BY <1>5 DEF AskAgain
  <2>2. worker' = [worker EXCEPT !.pc = "checking", !.todo = worker.todo,
                                 !.answer = worker.answer]
    BY <1>1, <1>5 DEF AskAgain, Jobs
  <2>3. wire' \subseteq Sent
    BY <1>1, <2>1, GetSent DEF Clients
  <2> QED  BY <1>1, <2>1, <2>2, <2>3, JobStep
<1>6. CASE ConfirmRules
  <2>1. /\ worker.pc = "checking"
        /\ UNCHANGED <<device, boot, wire, stored, request, verified, told>>
    BY <1>6 DEF ConfirmRules
  <2>2. CASE worker' = [worker EXCEPT !.pc = "succeeded", !.answer = None]
    <3>1. worker' = [worker EXCEPT !.pc = "succeeded", !.todo = worker.todo, !.answer = None]
      BY <1>1, <2>2 DEF Jobs
    <3>2. wire' \subseteq Sent
      BY <1>1, <2>1
    <3> QED  BY <1>1, <2>1, <3>1, <3>2, JobStep
  <2>3. CASE worker' = NoJob
    BY <1>1, <2>1, <2>3, DropStep
  <2> QED  BY <1>6, <2>2, <2>3 DEF ConfirmRules
<1> QED  BY <1>2, <1>3, <1>4, <1>5, <1>6

LEMMA RecordVerifiedStep ==
    ASSUME TypeInv, RecordVerified
    PROVE  TypeInv'
<1>1. worker.boot \in Boots
  BY Parts DEF RecordVerified, Given
<1> QED  BY <1>1, DropStep DEF RecordVerified

LEMMA VerificationExpiresStep ==
    ASSUME TypeInv, VerificationExpires
    PROVE  TypeInv'
<1>1. /\ verified' = None
      /\ UNCHANGED <<device, boot, wire, stored, request, worker, told>>
  BY DEF VerificationExpires, callers
<1> QED  BY <1>1, Parts, WorkerStep
-----------------------------------------------------------------------------
(* Type correctness.                                                       *)

\* No list is stored and no command is on its way at first.
THEOREM InitTypes == Init => TypeInv
<1> SUFFICES ASSUME Init PROVE TypeInv
  OBVIOUS
<1>1. boot \in Boots
  <2>1. MaxBoots \in Nat /\ MaxBoots # 0
    BY AlarmConstants
  <2> QED  BY <2>1 DEF Init, Boots
<1>2. request \in [Requests -> Asked] /\ worker \in Given
  BY Idle DEF Init
<1>3. request \in [Requests -> RequestStates] /\ worker \in Jobs
  BY <1>2 DEF Asked, Given
<1>4. ToldType
  BY DEF Init, ToldType
<1> QED  BY <1>1, <1>2, <1>3, <1>4 DEF Init, TypeInv, TypeOK, ToldType

THEOREM StepTypes == TypeInv /\ [Next]_vars => TypeInv'
<1> SUFFICES ASSUME TypeInv, [Next]_vars PROVE TypeInv'
  OBVIOUS
<1>1. ASSUME NEW m \in wire, Execute(m) PROVE TypeInv'
  BY <1>1, ExecuteStep
<1>2. CASE Restart
  BY <1>2, RestartStep
<1>3. ASSUME NEW p \in Clients, GiveUp(p) PROVE TypeInv'
  BY <1>3, GiveUpStep
<1>4. ASSUME NEW q \in Requests, NEW p \in Proposals, BeginRequest(q, p[1], p[2])
      PROVE  TypeInv'
  BY <1>4, BeginRequestStep
<1>5. ASSUME NEW q \in Requests, Adopt(q) \/ CommitSet(q) \/ Invalidate(q) PROVE TypeInv'
  BY <1>5, AdoptStep, CommitSetStep, InvalidateStep
<1>6. CASE Schedule \/ VerificationExpires \/ StartReconcile \/ CompareRules \/ RecordVerified
  BY <1>6, ScheduleStep, VerificationExpiresStep, StartReconcileStep, CompareRulesStep,
     RecordVerifiedStep
<1>7. CASE CheckIntent \/ RestoreRule \/ RuleRestored \/ AskAgain \/ ConfirmRules
  BY <1>7, RestoreSteps
<1>8. CASE UNCHANGED vars
  <2>1. UNCHANGED <<device, boot, wire, stored, request, worker, verified, told>>
    BY <1>8 DEF vars, callers
  <2> QED  BY <2>1, Parts, WorkerStep
<1> QED  BY <1>1, <1>2, <1>3, <1>4, <1>5, <1>6, <1>7, <1>8 DEF Next

THEOREM TypesInductive == Spec => []TypeInv
  BY InitTypes, StepTypes, PTL DEF Spec

\* Types hold for any number of rules, concurrent requests and restarts.
THEOREM TypeCorrect == Spec => []TypeOK
<1>1. TypeInv => TypeOK
  BY DEF TypeInv
<1> QED  BY <1>1, TypesInductive, PTL
-----------------------------------------------------------------------------
(* What the owner was told.                                                *)

\* Only an adoption and an acknowledged rule change the stored list, and only the latter
\* tells the owner something.
LEMMA StoredFrame ==
    ASSUME [Next]_vars, \A q \in Requests : ~Adopt(q) /\ ~CommitSet(q)
    PROVE  UNCHANGED <<stored, confirmed, lost>>
<1>1. ASSUME NEW m \in wire, Execute(m) PROVE UNCHANGED <<stored, told>>
  BY <1>1 DEF Execute
<1>2. ASSUME NEW p \in Clients, GiveUp(p) PROVE UNCHANGED <<stored, confirmed, lost>>
  BY <1>2 DEF GiveUp
<1>3. ASSUME NEW q \in Requests, NEW p \in Proposals, BeginRequest(q, p[1], p[2])
      PROVE  UNCHANGED <<stored, confirmed, lost>>
  BY <1>3 DEF BeginRequest
<1>4. CASE Restart \/ Schedule \/ VerificationExpires \/ StartReconcile \/ CompareRules
           \/ CheckIntent \/ RestoreRule \/ RuleRestored \/ AskAgain \/ ConfirmRules
           \/ RecordVerified \/ UNCHANGED vars \/ \E q \in Requests : Invalidate(q)
  <2>1. UNCHANGED <<stored, told>>
    BY <1>4 DEF Restart, Schedule, VerificationExpires, StartReconcile, CompareRules,
                CheckIntent, RestoreRule, RuleRestored, AskAgain, ConfirmRules,
                RecordVerified, Invalidate, vars
  <2> QED  BY <2>1 DEF told
<1> QED  BY <1>1, <1>2, <1>3, <1>4 DEF Next, told

\* A request that sets a rule keeps the list it has read and what that list lacks, or it
\* begins and has read the list that is stored.
LEMMA SettingFrame ==
    ASSUME TypeInv, [Next]_vars, \A q \in Requests : ~Adopt(q) /\ ~CommitSet(q),
           NEW q \in Requests, request'[q].pc = "setting"
    PROVE  \/ /\ request[q].pc = "setting" /\ request'[q].seen = request[q].seen
              /\ missing'[q] = missing[q]
           \/ stored # None /\ request'[q].seen = stored /\ missing'[q] = lost
<1>0. /\ request \in [Requests -> RequestStates] /\ request[q] \in RequestStates
      /\ missing \in [Requests -> SUBSET Indexes]
  BY Parts DEF TypeInv, TypeOK
<1>1. CASE UNCHANGED <<request, missing>>
  BY <1>1
<1>2. ASSUME NEW m \in wire, Execute(m)
      PROVE  /\ request'[q].pc = request[q].pc /\ request'[q].seen = request[q].seen
             /\ missing'[q] = missing[q]
  <2>1. request'[q] = request[q] \/ request'[q] = [request[q] EXCEPT !.answer = Executed(m)]
    BY <1>2 DEF Execute
  <2>2. UNCHANGED missing
    BY <1>2 DEF Execute, told
  <2> QED  BY <1>0, <2>1, <2>2 DEF RequestStates
<1>3. ASSUME NEW p \in Clients, GiveUp(p)
      PROVE  request'[q] = request[q] /\ missing'[q] = missing[q]
  <2>1. \/ UNCHANGED <<request, missing>>
        \/ request' = [request EXCEPT ![p] = NoRequest] /\ missing' = [missing EXCEPT ![p] = {}]
    BY <1>3 DEF GiveUp
  <2>2. NoRequest.pc = "idle"
    BY DEF NoRequest
  <2> QED  BY <1>0, <2>1, <2>2
<1>4. ASSUME NEW p \in Requests, NEW x \in Proposals, BeginRequest(p, x[1], x[2])
      PROVE  \/ request'[q] = request[q] /\ missing'[q] = missing[q]
             \/ stored # None /\ request'[q].seen = stored /\ missing'[q] = lost
  <2>1. CASE p # q
    BY <1>0, <1>4, <2>1 DEF BeginRequest
  <2>2. CASE p = q
    <3>1. CASE /\ request' = [request EXCEPT ![q] = [pc |-> "setting", index |-> x[1],
                            value |-> x[2], seen |-> stored, answer |-> None]]
               /\ stored # None /\ missing' = [missing EXCEPT ![q] = lost]
      BY <1>0, <3>1
    <3>2. CASE request' = [request EXCEPT ![q] =
                 [NoRequest EXCEPT !.pc = "adopting", !.index = x[1], !.value = x[2]]]
      <4>1. request'[q] = [NoRequest EXCEPT !.pc = "adopting", !.index = x[1], !.value = x[2]]
        BY <1>0, <3>2
      <4>2. request'[q].pc = "adopting"
        BY <4>1 DEF NoRequest
      <4> QED  BY <4>2
    <3> QED  BY <1>4, <2>2, <3>1, <3>2 DEF BeginRequest
  <2> QED  BY <2>1, <2>2
<1>5. ASSUME NEW p \in Requests, Invalidate(p)
      PROVE  request'[q] = request[q] /\ missing'[q] = missing[q]
  <2>1. /\ request' = [request EXCEPT ![p] = NoRequest] /\ NoRequest.pc = "idle"
        /\ UNCHANGED missing
    BY <1>5 DEF Invalidate, NoRequest, told
  <2> QED  BY <1>0, <2>1
<1>6. CASE Restart \/ Schedule \/ VerificationExpires \/ StartReconcile \/ CompareRules
           \/ CheckIntent \/ RestoreRule \/ RuleRestored \/ AskAgain \/ ConfirmRules
           \/ RecordVerified \/ UNCHANGED vars
  <2>1. UNCHANGED <<request, told>>
    BY <1>6 DEF Restart, Schedule, VerificationExpires, StartReconcile, CompareRules,
                CheckIntent, RestoreRule, RuleRestored, AskAgain, ConfirmRules,
                RecordVerified, vars, callers
  <2> QED  BY <1>1, <2>1 DEF told
<1> QED  BY <1>2, <1>3, <1>4, <1>5, <1>6 DEF Next

\* The device's rules become the owner's list: the owner was not told anything yet.
LEMMA AdoptKept ==
    ASSUME IInv, TypeInv', NEW q \in Requests, Adopt(q)
    PROVE  IInv'
<1>1. /\ request \in [Requests -> RequestStates] /\ request[q].pc = "adopting"
      /\ request[q].answer \in Rules /\ UNCHANGED <<confirmed, missing, lost>>
  BY Parts DEF IInv, TypeInv, TypeOK, Adopt, RequestStates, told
<1>2. \A p \in Requests \ {q} : request'[p] = request[p]
  BY <1>1 DEF Adopt
<1>3. CASE stored # None
  <2>1. request'[q].pc = "idle" /\ UNCHANGED stored
    BY <1>1, <1>3 DEF Adopt, NoRequest
  <2>2. ReadsKnown' /\ ConfirmedKept'
    BY <1>1, <1>2, <2>1 DEF IInv, ReadsKnown, ConfirmedKept
  <2> QED  BY <2>2 DEF IInv
<1>4. CASE stored = None
  <2>1. \A i \in Indexes : confirmed'[i] = None
    BY <1>1, <1>4 DEF IInv, ReadsKnown
  <2>2. ReadsKnown' /\ ConfirmedKept'
    BY <2>1 DEF ReadsKnown, ConfirmedKept
  <2> QED  BY <2>2 DEF IInv
<1> QED  BY <1>3, <1>4

\* A list with one rule replaced is stored: the rules it lacks are lost, the other
\* requests lack the rule.
LEMMA CommitSetKept ==
    ASSUME IInv, TypeInv', NEW q \in Requests, CommitSet(q)
    PROVE  IInv'
<1> DEFINE i == request[q].index
           v == request[q].value
<1>1. /\ request \in [Requests -> RequestStates] /\ request[q] \in Asked
      /\ confirmed \in [Indexes -> Values \cup {None}]
  BY Parts DEF IInv, TypeInv, TypeOK
<1>2. /\ request[q].pc = "setting"
      /\ stored' = [request[q].seen EXCEPT ![i] = v]
      /\ confirmed' = [confirmed EXCEPT ![i] = v]
      /\ lost' = missing[q] \ {i}
      /\ \A p \in Requests \ {q} :
           request[p].pc = "setting" => missing'[p] = missing[p] \cup {i}
      /\ request' = [request EXCEPT ![q] = [NoRequest EXCEPT !.pc = "invalidating"]]
  BY DEF CommitSet, Acknowledged, Updated
<1>3. i \in Indexes /\ v \in Values /\ request[q].seen \in Rules
  BY <1>1, <1>2 DEF Asked
<1>4. /\ stored'[i] = v /\ confirmed'[i] = v
      /\ \A j \in Indexes \ {i} :
           stored'[j] = request[q].seen[j] /\ confirmed'[j] = confirmed[j]
  BY <1>1, <1>2, <1>3 DEF Rules
<1>5. stored' # None
  <2>1. stored' \in Rules
    BY <1>2, <1>3 DEF Rules
  <2> QED  BY <2>1, AlarmConstants DEF Rules
<1>6. request'[q].pc = "invalidating" /\ \A p \in Requests \ {q} : request'[p] = request[p]
  BY <1>1, <1>2 DEF NoRequest
<1> HIDE DEF i, v
<1>7. ReadsKnown'
  <2>1. ASSUME NEW p \in Requests, request'[p].pc = "setting",
               NEW j \in Indexes \ missing'[p], confirmed'[j] # None
        PROVE  request'[p].seen[j] = confirmed'[j]
    <3>1. /\ p # q /\ request[p].pc = "setting" /\ request'[p] = request[p]
          /\ j \notin missing[p] /\ j # i
      BY <1>2, <1>6, <2>1
    <3> QED  BY <1>4, <2>1, <3>1 DEF IInv, ReadsKnown
  <2> QED  BY <1>5, <2>1 DEF ReadsKnown
<1>8. ConfirmedKept'
  <2>1. ASSUME NEW j \in Indexes \ lost', confirmed'[j] # None
        PROVE  stored'[j] = confirmed'[j]
    <3>1. CASE j = i
      BY <1>4, <3>1
    <3>2. CASE j # i
      <4>1. j \notin missing[q]
        BY <1>2, <2>1, <3>2
      <4> QED  BY <1>2, <1>4, <2>1, <3>2, <4>1 DEF IInv, ReadsKnown
    <3> QED  BY <3>1, <3>2
  <2> QED  BY <2>1 DEF ConfirmedKept
<1> QED  BY <1>7, <1>8 DEF IInv

LEMMA KeptStep ==
    IInv /\ [Next]_vars => IInv'
<1> SUFFICES ASSUME IInv, [Next]_vars PROVE IInv'
  OBVIOUS
<1>1. TypeInv /\ TypeInv' /\ ReadsKnown /\ ConfirmedKept
  BY StepTypes DEF IInv
<1>2. CASE \A q \in Requests : ~Adopt(q) /\ ~CommitSet(q)
  <2>1. UNCHANGED <<stored, confirmed, lost>>
    BY <1>2, StoredFrame
  <2>2. ASSUME NEW q \in Requests, request'[q].pc = "setting",
               NEW i \in Indexes \ missing'[q], confirmed'[i] # None
        PROVE  request'[q].seen[i] = confirmed'[i]
    <3>1. CASE /\ request[q].pc = "setting" /\ request'[q].seen = request[q].seen
               /\ missing'[q] = missing[q]
      BY <1>1, <2>1, <2>2, <3>1 DEF ReadsKnown
    <3>2. CASE stored # None /\ request'[q].seen = stored /\ missing'[q] = lost
      BY <1>1, <2>1, <2>2, <3>2 DEF ConfirmedKept
    <3> QED  BY <1>1, <1>2, <2>2, <3>1, <3>2, SettingFrame
  <2>3. ReadsKnown' /\ ConfirmedKept'
    BY <1>1, <2>1, <2>2 DEF ReadsKnown, ConfirmedKept
  <2> QED  BY <1>1, <2>3 DEF IInv
<1>3. ASSUME NEW q \in Requests, Adopt(q) \/ CommitSet(q) PROVE IInv'
  BY <1>1, <1>3, AdoptKept, CommitSetKept
<1> QED  BY <1>2, <1>3

THEOREM Inductive == Spec => []IInv
<1>1. Init => IInv
  BY InitTypes DEF Init, IInv, ReadsKnown, ConfirmedKept, NoRequest
<1> QED  BY <1>1, KeptStep, PTL DEF Spec

\* A rule the owner was told to be in force stays in the list the back end keeps, unless
\* it is lost to a request that had read its list before the rule was confirmed.
THEOREM ConfirmedCorrect == Spec => []ConfirmedKept
<1>1. IInv => ConfirmedKept
  BY DEF IInv
<1> QED  BY <1>1, Inductive, PTL

\* The recovery decides to write a rule only when it is the one the owner was last told,
\* with the same exception.
THEOREM RestoresCorrect == Spec => RestoresIntended
<1> DEFINE Step == worker.pc = "restoring" /\ worker'.pc = "sending"
                      /\ confirmed[NextIndex] # None /\ NextIndex \notin lost
                      => worker.expected[NextIndex] = confirmed[NextIndex]
<1>1. ASSUME IInv, [Next]_vars PROVE Step
  <2> SUFFICES ASSUME worker.pc = "restoring", worker'.pc = "sending",
                      confirmed[NextIndex] # None, NextIndex \notin lost
               PROVE  worker.expected[NextIndex] = confirmed[NextIndex]
    OBVIOUS
  <2>1. worker \in Jobs
    BY <1>1, Parts DEF IInv
  <2>2. CheckIntent
    <3>1. ASSUME NEW m \in wire, Execute(m) PROVE FALSE
      <4>1. worker' = worker \/ worker' = [worker EXCEPT !.answer = Executed(m)]
        BY <3>1 DEF Execute
      <4> QED  BY <2>1, <4>1 DEF Jobs
    <3>2. ASSUME NEW p \in Clients, GiveUp(p) PROVE FALSE
      BY <3>2 DEF GiveUp, NoJob
    <3>3. ~UNCHANGED worker
      OBVIOUS
    <3>4. ~(Restart \/ VerificationExpires \/ UNCHANGED vars)
      BY <3>3 DEF Restart, VerificationExpires, vars, callers
    <3>5. \A q \in Requests : ~Adopt(q) /\ ~CommitSet(q) /\ ~Invalidate(q)
      BY <3>3 DEF Adopt, CommitSet, Invalidate
    <3>6. \A q \in Requests, p \in Proposals : ~BeginRequest(q, p[1], p[2])
      BY <3>3 DEF BeginRequest
    <3>7. ~(Schedule \/ StartReconcile \/ CompareRules \/ RestoreRule \/ RuleRestored
             \/ ConfirmRules \/ RecordVerified)
      BY DEF Schedule, StartReconcile, CompareRules, RestoreRule, RuleRestored,
             ConfirmRules, RecordVerified
    <3>8. ~AskAgain
      BY <2>1 DEF AskAgain, Jobs
    <3> QED  BY <1>1, <3>1, <3>2, <3>4, <3>5, <3>6, <3>7, <3>8 DEF Next
  <2>3. worker.todo # {} /\ stored = worker.expected
    BY <2>2 DEF CheckIntent, StillIntended, NoJob
  <2>4. NextIndex \in Indexes
    BY <2>1, <2>3, NextIndexOf DEF Jobs
  <2> QED  BY <1>1, <2>3, <2>4 DEF IInv, ConfirmedKept
<1>2. RestoresIntended <=> [][Step]_vars
  BY DEF RestoresIntended
<1> HIDE DEF Step
<1>3. IInv /\ [Next]_vars => [Step]_vars
  BY <1>1
<1> QED  BY <1>2, <1>3, Inductive, PTL DEF Spec
=============================================================================
