----------------------------- MODULE AlarmRules -----------------------------
(***************************************************************************)
(* The alarm rules of one device: the copy on the device, the owner's copy *)
(* in device_alarm_configurations, the routes that change both, and the    *)
(* AlarmRuleRecoveryCoordinator that writes the owner's copy back after a  *)
(* reset.  The owner does not change here (see DeviceTransfer for that).   *)
(*                                                                         *)
(* Routes and worker talk to the device with send_command: the command     *)
(* travels on "wire", the device executes the commands in any order, and a *)
(* caller that gives up may leave a command behind that is executed later. *)
(* A session reads and writes the row without a lock.                      *)
(***************************************************************************)
EXTENDS Naturals, FiniteSets

CONSTANTS
    Indexes,            \* rule numbers, 0 .. 5 in the code
    Values,             \* contents of a rule
    Factory,            \* the contents after a reset of the device
    Requests,           \* slots for concurrent requests of the owner
    Recovery,           \* the recovery worker
    None,
    MaxBoots, MaxSets, MaxDisturbances      \* model bounds

ASSUME AlarmConstants ==
    /\ Indexes \subseteq Nat /\ IsFiniteSet(Indexes) /\ Indexes # {}
    /\ Factory \in Values
    /\ Recovery \notin Requests
    /\ None \notin Values \cup Requests \cup {Recovery} \cup [Indexes -> Values]
    /\ MaxBoots \in Nat \ {0} /\ MaxSets \in Nat /\ MaxDisturbances \in Nat

VARIABLES
    device,         \* rules on the device
    boot,           \* its boot_count
    wire,           \* commands the device has not executed
    stored,         \* device_alarm_configurations.rules
    request,        \* requests of the owner in flight
    worker,         \* the recovery worker with the job it was given
    verified,       \* boot_count in _verified, None when absent or older than 300 s
    confirmed,      \* history: rules the owner was last told to be in force
    missing,        \* history: confirmed rules that the list a request has read lacks
    lost,           \* history: confirmed rules that the stored list lacks
    sets,           \* requests started, for the bound
    disturbances    \* timeouts, for the bound

callers == <<request, worker>>
told    == <<confirmed, missing, lost>>
bounds  == <<sets, disturbances>>
vars    == <<device, boot, wire, stored, callers, verified, told, bounds>>

Rules   == [Indexes -> Values]
Clients == Requests \cup {Recovery}
Command == [by: Clients \cup {None}, index: Indexes \cup {None},
            value: Values \cup {None}]

\* "index" is None in a get_alarm_rules.
Get(p)       == [by |-> p, index |-> None, value |-> None]
Set(p, i, v) == [by |-> p, index |-> i, value |-> v]

NoRequest == [pc |-> "idle", index |-> None, value |-> None, seen |-> None,
              answer |-> None]
NoJob     == [pc |-> "idle", boot |-> 0, expected |-> None, todo |-> {},
              answer |-> None]

Boots == 1 .. MaxBoots

RequestStates ==
    [pc: {"idle", "adopting", "setting", "invalidating"},
     index: Indexes \cup {None}, value: Values \cup {None},
     seen: Rules \cup {None}, answer: Rules \cup {None}]

Jobs ==
    [pc: {"idle", "queued", "reading", "restoring", "sending",
          "writing", "checking", "succeeded"},
     boot: 0 .. MaxBoots, expected: Rules \cup {None},
     todo: SUBSET Indexes, answer: Rules \cup {None}]

TypeOK ==
    /\ device \in Rules /\ boot \in Boots
    /\ wire \subseteq Command
    /\ stored \in Rules \cup {None}
    /\ request \in [Requests -> RequestStates]
    /\ worker \in Jobs
    /\ verified \in Boots \cup {None}
    /\ confirmed \in [Indexes -> Values \cup {None}]
    /\ missing \in [Requests -> SUBSET Indexes] /\ lost \subseteq Indexes

Init ==
    /\ device \in Rules
    /\ boot = 1
    /\ wire = {}
    /\ stored = None
    /\ request = [q \in Requests |-> NoRequest]
    /\ worker = NoJob
    /\ verified = None
    /\ confirmed = [i \in Indexes |-> None]
    /\ missing = [q \in Requests |-> {}] /\ lost = {}
    /\ sets = 0 /\ disturbances = 0
-----------------------------------------------------------------------------
(* The device and the way to it.                                           *)

\* The rules after command m.
Executed(m) == IF m.index = None THEN device
               ELSE [device EXCEPT ![m.index] = m.value]

\* The device executes a command and its answer reaches the caller that still
\* waits for it.
Execute(m) ==
    /\ device' = Executed(m)
    /\ wire' = wire \ {m}
    /\ request' = [q \in Requests |->
                     IF m.by = q THEN [request[q] EXCEPT !.answer = Executed(m)]
                     ELSE request[q]]
    /\ worker' = IF m.by = Recovery
                 THEN [worker EXCEPT !.answer = Executed(m)] ELSE worker
    /\ UNCHANGED <<boot, stored, verified, told, bounds>>

\* The device starts again, with its rules or, after a reset, without them.
Restart ==
    /\ boot < MaxBoots
    /\ boot' = boot + 1
    /\ device' \in {device, [i \in Indexes |-> Factory]}
    /\ wire' = {}
    /\ UNCHANGED <<stored, callers, verified, told, bounds>>

Waiting(p) ==
    \/ p \in Requests /\ request[p].pc \in {"adopting", "setting"}
                      /\ request[p].answer = None
    \/ p = Recovery /\ worker.pc \in {"reading", "writing", "checking"}
                    /\ worker.answer = None

\* send_command raises TimeoutError or the device refuses.  The route answers
\* with an error, the worker drops its job; a command that is still on its way
\* may be executed all the same.
GiveUp(p) ==
    /\ Waiting(p)
    /\ LET mine == {m \in wire : m.by = p} IN
         \/ mine = {} /\ UNCHANGED <<wire, disturbances>>
         \/ /\ mine # {}
            /\ disturbances < MaxDisturbances
            /\ disturbances' = disturbances + 1
            /\ \/ wire' = wire \ mine
               \/ wire' = (wire \ mine) \cup {[m EXCEPT !.by = None] : m \in mine}
    /\ IF p = Recovery
       THEN worker' = NoJob /\ UNCHANGED <<request, missing>>
       ELSE /\ request' = [request EXCEPT ![p] = NoRequest]
            /\ missing' = [missing EXCEPT ![p] = {}]
            /\ UNCHANGED worker
    /\ UNCHANGED <<device, boot, stored, verified, confirmed, lost, sets>>
-----------------------------------------------------------------------------
(* The owner's requests.                                                   *)

\* get_alarm_rules and the first part of set_alarm_rule (index and value are
\* None in the former): _configuration finds the row or asks the device.
BeginRequest(q, i, v) ==
    /\ request[q].pc = "idle" /\ sets < MaxSets
    /\ sets' = sets + 1
    /\ \/ /\ stored = None
          /\ wire' = wire \cup {Get(q)}
          /\ request' = [request EXCEPT ![q] =
                [NoRequest EXCEPT !.pc = "adopting", !.index = i, !.value = v]]
          /\ UNCHANGED missing
       \/ /\ stored # None /\ i # None
          /\ wire' = wire \cup {Set(q, i, v)}
          /\ request' = [request EXCEPT ![q] =
                [pc |-> "setting", index |-> i, value |-> v, seen |-> stored,
                 answer |-> None]]
          /\ missing' = [missing EXCEPT ![q] = lost]
    /\ UNCHANGED <<device, boot, stored, worker, verified, confirmed, lost, disturbances>>

\* The device's rules become the owner's copy; the insert fails when another
\* request was faster.  set_alarm_rule goes on with its command.
Adopt(q) ==
    /\ request[q].pc = "adopting" /\ request[q].answer # None
    /\ LET r == request[q] IN
         \/ /\ stored # None
            /\ request' = [request EXCEPT ![q] = NoRequest]
            /\ UNCHANGED <<stored, wire>>
         \/ /\ stored = None
            /\ stored' = r.answer
            /\ IF r.index = None
               THEN request' = [request EXCEPT ![q] = NoRequest]
                    /\ UNCHANGED wire
               ELSE /\ request' = [request EXCEPT ![q] =
                          [r EXCEPT !.pc = "setting", !.seen = r.answer,
                                    !.answer = None]]
                    /\ wire' = wire \cup {Set(q, r.index, r.value)}
    /\ UNCHANGED <<device, boot, worker, verified, told, bounds>>

\* Mutants of Updated: everything the device has is stored; only the rule that
\* was set is.
UpdatedFromDevice(r) == r.answer
UpdatedAlone(r) == [i \in {r.index} |-> r.value]

\* "updated": the rules read when the request began, with one replaced.
Updated(r) == [r.seen EXCEPT ![r.index] = r.value]

Acknowledged(q) == request[q].pc = "setting" /\ request[q].answer # None

\* set_alarm_rule after the device's acknowledgement.  The other lists that have
\* been read do not know of the rule.
CommitSet(q) ==
    /\ Acknowledged(q)
    /\ stored' = Updated(request[q])
    /\ LET i == request[q].index IN
         /\ confirmed' = [confirmed EXCEPT ![i] = request[q].value]
         /\ lost' = missing[q] \ {i}
         /\ missing' = [p \in Requests |->
                          IF p = q THEN {}
                          ELSE IF request[p].pc = "setting" THEN missing[p] \cup {i}
                          ELSE missing[p]]
    /\ request' = [request EXCEPT ![q] = [NoRequest EXCEPT !.pc = "invalidating"]]
    /\ UNCHANGED <<device, boot, wire, worker, verified, bounds>>

Invalidate(q) ==
    /\ request[q].pc = "invalidating"
    /\ verified' = None
    /\ request' = [request EXCEPT ![q] = NoRequest]
    /\ UNCHANGED <<device, boot, wire, stored, worker, told, bounds>>
-----------------------------------------------------------------------------
(* AlarmRuleRecoveryCoordinator.                                           *)

\* schedule, for a state message of the running boot: nothing to do while a
\* job for the device is queued or the boot is verified.
Schedule ==
    /\ worker.pc = "idle"
    /\ verified # boot
    /\ worker' = [NoJob EXCEPT !.pc = "queued", !.boot = boot]
    /\ UNCHANGED <<device, boot, wire, stored, request, verified, told, bounds>>

\* Mutant of VerificationExpires: _verified is kept for the whole boot.
VerificationKept == verified # None /\ UNCHANGED vars

\* A verification counts for 300 seconds.
VerificationExpires ==
    /\ verified # None
    /\ verified' = None
    /\ UNCHANGED <<device, boot, wire, stored, callers, told, bounds>>

\* _reconcile: without a configuration there is nothing to restore.
StartReconcile ==
    /\ worker.pc = "queued"
    /\ \/ /\ stored = None
          /\ worker' = [worker EXCEPT !.pc = "succeeded"]
          /\ UNCHANGED wire
       \/ /\ stored # None
          /\ worker' = [worker EXCEPT !.pc = "reading", !.expected = stored]
          /\ wire' = wire \cup {Get(Recovery)}
    /\ UNCHANGED <<device, boot, stored, request, verified, told, bounds>>

CompareRules ==
    /\ worker.pc = "reading" /\ worker.answer # None
    /\ worker' =
         IF worker.answer = worker.expected
         THEN [worker EXCEPT !.pc = "succeeded", !.answer = None]
         ELSE [worker EXCEPT !.pc = "restoring", !.answer = None,
                 !.todo = {i \in Indexes :
                             worker.answer[i] # worker.expected[i]}]
    /\ UNCHANGED <<device, boot, wire, stored, request, verified, told, bounds>>

NextIndex == CHOOSE i \in worker.todo : \A j \in worker.todo : i <= j

\* Mutant of StillIntended: the row is not read again.
AlwaysIntended == TRUE

\* The row is read again before each rule.
StillIntended == stored = worker.expected

CheckIntent ==
    /\ worker.pc = "restoring" /\ worker.todo # {}
    /\ worker' = IF StillIntended THEN [worker EXCEPT !.pc = "sending"] ELSE NoJob
    /\ UNCHANGED <<device, boot, wire, stored, request, verified, told, bounds>>

\* The command leaves after that read, and without a lock.
RestoreRule ==
    /\ worker.pc = "sending"
    /\ worker' = [worker EXCEPT !.pc = "writing"]
    /\ wire' = wire \cup {Set(Recovery, NextIndex, worker.expected[NextIndex])}
    /\ UNCHANGED <<device, boot, stored, request, verified, told, bounds>>

RuleRestored ==
    /\ worker.pc = "writing" /\ worker.answer # None
    /\ worker' = [worker EXCEPT !.pc = "restoring", !.answer = None,
                                !.todo = @ \ {NextIndex}]
    /\ UNCHANGED <<device, boot, wire, stored, request, verified, told, bounds>>

AskAgain ==
    /\ worker.pc = "restoring" /\ worker.todo = {}
    /\ worker' = [worker EXCEPT !.pc = "checking"]
    /\ wire' = wire \cup {Get(Recovery)}
    /\ UNCHANGED <<device, boot, stored, request, verified, told, bounds>>

ConfirmRules ==
    /\ worker.pc = "checking" /\ worker.answer # None
    /\ worker' = IF worker.answer = worker.expected
                 THEN [worker EXCEPT !.pc = "succeeded", !.answer = None]
                 ELSE NoJob
    /\ UNCHANGED <<device, boot, wire, stored, request, verified, told, bounds>>

\* _run after a reconciliation that returned True.
RecordVerified ==
    /\ worker.pc = "succeeded"
    /\ verified' = worker.boot
    /\ worker' = NoJob
    /\ UNCHANGED <<device, boot, wire, stored, request, told, bounds>>
-----------------------------------------------------------------------------
RecoveryStep ==
    \/ StartReconcile \/ CompareRules \/ CheckIntent \/ RestoreRule
    \/ RuleRestored \/ AskAgain \/ ConfirmRules \/ RecordVerified

RequestStep(q) == Adopt(q) \/ CommitSet(q) \/ Invalidate(q)

Proposals == {<<None, None>>} \cup (Indexes \X Values)

Next ==
    \/ \E m \in wire : Execute(m)
    \/ Restart
    \/ \E p \in Clients : GiveUp(p)
    \/ \E q \in Requests, p \in Proposals : BeginRequest(q, p[1], p[2])
    \/ \E q \in Requests : Adopt(q)
    \/ \E q \in Requests : CommitSet(q)
    \/ \E q \in Requests : Invalidate(q)
    \/ Schedule
    \/ VerificationExpires
    \/ StartReconcile
    \/ CompareRules
    \/ CheckIntent
    \/ RestoreRule
    \/ RuleRestored
    \/ AskAgain
    \/ ConfirmRules
    \/ RecordVerified

\* Threads run, the device executes what reaches it, callers time out, state
\* messages keep coming and verifications age.  Nothing obliges the owner to
\* send a request, the device to restart or a command to get lost.
Fairness ==
    /\ WF_vars(\E m \in wire : Execute(m))
    /\ \A p \in Clients : WF_vars(GiveUp(p) /\ {m \in wire : m.by = p} = {})
    /\ \A q \in Requests : WF_vars(RequestStep(q))
    /\ WF_vars(Schedule) /\ WF_vars(VerificationExpires) /\ WF_vars(RecoveryStep)

Spec == Init /\ [][Next]_vars /\ Fairness
-----------------------------------------------------------------------------
(* Correctness.                                                            *)

\* A rule the owner was told to be in force is what the back end keeps, whatever
\* times out and is executed later.  Each request writes the whole list it has
\* read: a rule is lost only to a request that had read its list before the rule
\* was confirmed, and then until the owner sets it again.
ConfirmedKept ==
    \A i \in Indexes \ lost : confirmed[i] # None => stored[i] = confirmed[i]

\* "Ownership and intended rules may change while MQTT is in flight": the worker
\* decides to write a rule only if it is the one the owner was last told, unless
\* the stored list has lost that one.
RestoresIntended ==
    [][worker.pc = "restoring" /\ worker'.pc = "sending"
          /\ confirmed[NextIndex] # None /\ NextIndex \notin lost
          => worker.expected[NextIndex] = confirmed[NextIndex]]_vars

\* Once owner, resets and timeouts leave the device alone, it ends up with the
\* owner's rules, although the worker may record a verification after the
\* invalidation it missed or be overtaken by a command left behind.
Reconciled == <>[](stored # None => device = stored)
=============================================================================
