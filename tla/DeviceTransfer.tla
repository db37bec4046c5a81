--------------------------- MODULE DeviceTransfer ---------------------------
(***************************************************************************)
(* The ownership of one SmartMonitor device: the reset challenge, the      *)
(* staged transfer, the broker-gated finalizer, the membership routes, the *)
(* adoption of alarm rules and the attribution of measurements, as they    *)
(* run concurrently against PostgreSQL with                                *)
(* SM015_TRANSFER_STAGING_ENABLED set.                                     *)
(*                                                                         *)
(* A transaction that locks the device row is one step.  What the code     *)
(* does before it takes the lock is a step of its own: the clock is read   *)
(* there ("current"), the broker is called there, and the answer may be    *)
(* stale when the lock is granted.  Rows of other devices are never read   *)
(* by these transactions, so one device is enough.  Users are the active,  *)
(* verified accounts: no code path revokes either flag.                    *)
(***************************************************************************)
EXTENDS Naturals, FiniteSets

CONSTANTS
    Users,              \* active accounts with a verified address
    Requests,           \* concurrent transfer requests
    Workers,            \* concurrent runs of the broker worker
    MqttIds,            \* routing identities the device may report
    None,               \* SQL NULL
    CHALLENGE_LIFETIME, TRANSFER_DELAY, DEVICE_MEMBER_LIMIT,
    LockWait,           \* longest time between reading the clock and the lock
    CommandTimeout,     \* longest time a device command keeps a request open
    SampleTimes,        \* timestamps the device puts on its measurements
    Adopters,           \* accounts that open the alarm-rule screen
    MaxTime, MaxChallenges, MaxTransfers, MaxGeneration    \* model bounds

ASSUME ConstantsAssumption ==
    /\ CHALLENGE_LIFETIME \in Nat /\ TRANSFER_DELAY \in Nat
    /\ DEVICE_MEMBER_LIMIT \in Nat
    /\ LockWait \in Nat /\ CommandTimeout \in Nat
    /\ MaxTime \in Nat /\ MaxChallenges \in Nat
    /\ MaxTransfers \in Nat /\ MaxGeneration \in Nat
    /\ SampleTimes \subseteq 0 .. MaxTime /\ Adopters \subseteq Users
    /\ None \notin Users \cup MqttIds \cup Nat

\* A request outlives neither its lock wait nor its command by as much as the
\* delay that separates the pre-notice from the switch (one minute).
ASSUME LatencyAssumption == LockWait + CommandTimeout < TRANSFER_DELAY

VARIABLES
    now,            \* the server's clock
    mqttId,         \* devices.mqtt_device_id
    role,           \* device_memberships.role, "none" where there is no row
    challenges,     \* device_reset_challenges, by id
    nChallenges,
    transfers,      \* device_transfers, by id
    nTransfers,
    notices,        \* device_transfer_notices
    alarmOwner,     \* device_alarm_configurations.owner_user_id
    measurements,   \* power_measurements with their attribution
    generation,     \* completed physical resets of the device
    proofs,         \* reset proofs the device has signed
    issuing,        \* clock read by an issue_reset_challenge in flight
    staging,        \* a stage_verified_transfer in flight
    worker,         \* a complete_due_transfer_from_broker in flight
    adopting        \* start of an alarm-rule adoption in flight

dbVars  == <<mqttId, role, challenges, nChallenges, transfers, nTransfers,
             notices, alarmOwner, measurements>>
devVars == <<generation, proofs>>
opVars  == <<issuing, staging, worker, adopting>>
vars    == <<now, dbVars, devVars, opVars>>
-----------------------------------------------------------------------------
Time         == 0 .. (MaxTime + CHALLENGE_LIFETIME + TRANSFER_DELAY)
ChallengeIds == 1 .. MaxChallenges
TransferIds  == 1 .. MaxTransfers
Generations  == 1 .. MaxGeneration
Roles        == {"none", "member", "owner"}

StoredChallenge == [by: Users, expires: Time, consumed: BOOLEAN,
                    issued: Time]
StoredTransfer(states, receipts) ==
    [state: states, prev: Users, next: Users, challenge: ChallengeIds,
     gen: Generations, requested: Time, notBefore: Time, effective: Time,
     receipt: receipts]
PendingTransfer   == StoredTransfer({"pending"}, {None})
CompletedTransfer == StoredTransfer({"completed"}, MqttIds)
Measurement  == [at: Time, owner: Users, epoch: TransferIds \cup {0}]
Notice       == [transfer: TransferIds, user: Users,
                 phase: {"pending", "completed"}]
StageRequest == [challenge: ChallengeIds, gen: Generations, current: Time,
                 tagged: BOOLEAN, consumed: BOOLEAN]
WorkerRun    == [transfer: TransferIds, mqtt: MqttIds, current: Time]

NoChallenge == [by |-> None, expires |-> 0, consumed |-> FALSE, issued |-> 0]
NoTransfer  == [state |-> "absent", prev |-> None, next |-> None,
                challenge |-> 0, gen |-> 0, requested |-> 0,
                notBefore |-> 0, effective |-> 0, receipt |-> None]

ChallengeRow == {NoChallenge} \cup StoredChallenge
TransferRow == {NoTransfer} \cup PendingTransfer \cup CompletedTransfer

ASSUME NoneIsNoRequest == None \notin StageRequest \cup WorkerRun

\* Shapes of every table and of every request in flight.
TypeOK ==
    /\ now \in 0 .. MaxTime
    /\ mqttId \in MqttIds
    /\ role \in [Users -> Roles]
    /\ challenges \in [ChallengeIds -> ChallengeRow]
    /\ nChallenges \in 0 .. MaxChallenges
    /\ transfers \in [TransferIds -> TransferRow]
    /\ nTransfers \in 0 .. MaxTransfers
    /\ notices \subseteq Notice
    /\ alarmOwner \in Users \cup {None}
    /\ measurements \subseteq Measurement
    /\ generation \in 0 .. MaxGeneration
    /\ proofs \subseteq Generations \X ChallengeIds
    /\ issuing \in [Users -> (0 .. MaxTime) \cup {None}]
    /\ staging \in [Requests -> StageRequest \cup {None}]
    /\ worker \in [Workers -> WorkerRun \cup {None}]
    /\ adopting \in [Users -> (0 .. MaxTime) \cup {None}]
-----------------------------------------------------------------------------
\* pending_transfer: the device has a transfer in state "pending".
Pending == \E t \in TransferIds : transfers[t].state = "pending"

Completed == {t \in TransferIds : transfers[t].state = "completed"}

\* Mutant of NotBefore: the order is ascending.
NotBeforeAscending(s, t) ==
    \/ transfers[t].effective < transfers[s].effective
    \/ transfers[s].effective = transfers[t].effective /\ s <= t

\* ORDER BY effective_at DESC, id DESC: t comes no earlier than s.
NotBefore(s, t) ==
    \/ transfers[s].effective < transfers[t].effective
    \/ transfers[s].effective = transfers[t].effective /\ s <= t

\* latest_completed_transfer: first row of the completed transfers in that
\* order, 0 when there is none (the epoch of the original owner).
Latest == IF Completed = {} THEN 0
          ELSE CHOOSE t \in Completed : \A s \in Completed : NotBefore(s, t)

IsOwner(u) == role[u] = "owner"

\* Mutant of ActiveTransferAccess: the pending transfer is not looked up.
AccessWhilePending(u) == Latest # 0 => IsOwner(u) /\ transfers[Latest].next = u

\* require_active_transfer_access and active_transfer_access_allowed.
ActiveTransferAccess(u) ==
    /\ ~Pending
    /\ Latest # 0 => IsOwner(u) /\ transfers[Latest].next = u

\* Mutant of GenerationUnused: the last generation is accepted again.
GenerationNotOlder(g) == \A t \in TransferIds : transfers[t].gen <= g

\* reset_generation > max(device_transfers.reset_generation).
GenerationUnused(g) == \A t \in TransferIds : transfers[t].gen < g
-----------------------------------------------------------------------------
Init ==
    /\ now = 0
    /\ mqttId \in MqttIds
    /\ \E o \in Users : role = [u \in Users |-> IF u = o THEN "owner" ELSE "none"]
    /\ challenges = [c \in ChallengeIds |-> NoChallenge]
    /\ nChallenges = 0
    /\ transfers = [t \in TransferIds |-> NoTransfer]
    /\ nTransfers = 0
    /\ notices = {}
    /\ alarmOwner = None
    /\ measurements = {}
    /\ generation = 0
    /\ proofs = {}
    /\ issuing = [u \in Users |-> None]
    /\ staging = [q \in Requests |-> None]
    /\ worker = [w \in Workers |-> None]
    /\ adopting = [u \in Users |-> None]

\* Time passes, but not beyond what a request in flight may take.
Tick ==
    /\ now < MaxTime
    /\ \A u \in Users :
          /\ issuing[u] # None => now < issuing[u] + LockWait
          /\ adopting[u] # None => now < adopting[u] + CommandTimeout
    /\ \A q \in Requests :
          staging[q] # None => now < staging[q].current + LockWait
    /\ now' = now + 1
    /\ UNCHANGED <<dbVars, devVars, opVars>>
-----------------------------------------------------------------------------
(* The device itself.                                                      *)

\* A completed factory reset.
PhysicalReset ==
    /\ generation < MaxGeneration
    /\ generation' = generation + 1
    /\ UNCHANGED <<now, dbVars, proofs, opVars>>

\* The device signs a challenge that reached it for its last reset.  The
\* answer takes time: it never comes in the instant the challenge is stored.
SignChallenge(c) ==
    /\ c <= nChallenges /\ now > challenges[c].issued
    /\ generation > 0
    /\ proofs' = proofs \cup {<<generation, c>>}
    /\ UNCHANGED <<now, dbVars, generation, opVars>>
-----------------------------------------------------------------------------
(* POST /device-transfers/challenges                                       *)

\* create_transfer_challenge up to the clock read of issue_reset_challenge.
BeginIssue(u) ==
    /\ issuing[u] = None /\ nChallenges < MaxChallenges
    /\ ~IsOwner(u)
    /\ ~Pending
    /\ issuing' = [issuing EXCEPT ![u] = now]
    /\ UNCHANGED <<now, dbVars, devVars, staging, worker, adopting>>

\* No pending transfer, no unconsumed challenge that outlives "current".
MayIssue(current) ==
    /\ ~Pending
    /\ \A c \in ChallengeIds :
          c <= nChallenges /\ ~challenges[c].consumed
             => challenges[c].expires <= current

\* issue_reset_challenge under the device lock.
CommitIssue(u) ==
    /\ issuing[u] # None
    /\ \/ /\ MayIssue(issuing[u])
          /\ nChallenges < MaxChallenges
          /\ nChallenges' = nChallenges + 1
          /\ challenges' = [challenges EXCEPT ![nChallenges + 1] =
                [by |-> u, expires |-> issuing[u] + CHALLENGE_LIFETIME,
                 consumed |-> FALSE, issued |-> now]]
       \/ /\ ~MayIssue(issuing[u])
          /\ UNCHANGED <<nChallenges, challenges>>
    /\ issuing' = [issuing EXCEPT ![u] = None]
    /\ UNCHANGED <<now, mqttId, role, transfers, nTransfers, notices,
                   alarmOwner, measurements, devVars, staging, worker, adopting>>
-----------------------------------------------------------------------------
(* POST /device-transfers/requests                                         *)

\* create_transfer_request up to the clock read of stage_verified_transfer;
\* only the account that asked for a challenge may use it.  The body names a
\* generation and carries a tag, which is a valid proof only if the device has
\* signed that generation and challenge ("tagged").  The route loads the
\* challenge into its session, and the locking SELECT of
\* stage_verified_transfer does not refresh a loaded object: the consumption
\* it will check is the one read here ("consumed").
BeginStage(q, c, g) ==
    /\ staging[q] = None /\ nTransfers < MaxTransfers
    /\ c <= nChallenges
    /\ staging' = [staging EXCEPT ![q] =
                     [challenge |-> c, gen |-> g, current |-> now,
                      tagged |-> <<g, c>> \in proofs,
                      consumed |-> challenges[c].consumed]]
    /\ UNCHANGED <<now, dbVars, devVars, issuing, worker, adopting>>

\* The unique index on device_transfers.challenge_id.
ChallengeUnused(c) == \A t \in TransferIds : transfers[t].challenge # c

\* Mutant of StageAccepted: the pending transfer is not looked up.
StageAcceptedTwice(r) ==
    /\ \E o \in Users : IsOwner(o)
    /\ ~IsOwner(challenges[r.challenge].by)
    /\ GenerationUnused(r.gen)
    /\ ~r.consumed
    /\ challenges[r.challenge].expires > r.current
    /\ r.tagged
    /\ ChallengeUnused(r.challenge)

\* The checks of stage_verified_transfer under the device lock, the last of
\* them made by the database when the row is inserted.
StageAccepted(r) ==
    /\ \E o \in Users : IsOwner(o)
    /\ ~IsOwner(challenges[r.challenge].by)
    /\ ~Pending
    /\ GenerationUnused(r.gen)
    /\ ~r.consumed
    /\ challenges[r.challenge].expires > r.current
    /\ r.tagged
    /\ ChallengeUnused(r.challenge)

\* The row stage_verified_transfer inserts.
PendingRow(r, o) ==
    [state |-> "pending", prev |-> o, next |-> challenges[r.challenge].by,
     challenge |-> r.challenge, gen |-> r.gen, requested |-> r.current,
     notBefore |-> r.current + TRANSFER_DELAY, effective |-> 0,
     receipt |-> None]

CommitStage(q) ==
    /\ staging[q] # None
    /\ LET r == staging[q] IN
       \/ /\ StageAccepted(r)
          /\ nTransfers < MaxTransfers
          /\ \E o \in Users :
               /\ IsOwner(o)
               /\ transfers' = [transfers EXCEPT ![nTransfers + 1] =
                                  PendingRow(r, o)]
               /\ notices' = notices \cup
                    {[transfer |-> nTransfers + 1, user |-> o,
                      phase |-> "pending"]}
          /\ nTransfers' = nTransfers + 1
          /\ challenges' = [challenges EXCEPT ![r.challenge].consumed = TRUE]
       \/ /\ ~StageAccepted(r)
          /\ UNCHANGED <<transfers, notices, nTransfers, challenges>>
    /\ staging' = [staging EXCEPT ![q] = None]
    /\ UNCHANGED <<now, mqttId, role, nChallenges, alarmOwner, measurements,
                   devVars, issuing, worker, adopting>>
-----------------------------------------------------------------------------
(* complete_due_transfer_from_broker and complete_due_transfer.  A call    *)
(* for a transfer already completed only re-reads it and changes nothing.  *)

\* Reads the clock, the transfer and the routing identity without a lock and
\* asks the broker to attest that identity.
StartAttest(w, t) ==
    /\ worker[w] = None
    /\ transfers[t].state = "pending"
    /\ now >= transfers[t].notBefore
    /\ worker' = [worker EXCEPT ![w] =
                     [transfer |-> t, mqtt |-> mqttId, current |-> now]]
    /\ UNCHANGED <<now, dbVars, devVars, issuing, staging, adopting>>

\* The re-checks under the locks of device and transfer, first the worker's
\* then the finalizer's.  The receipt it stores carries the same "current",
\* so its age is zero and its order after the request is the first conjunct
\* of the last line.
Completable(r) ==
    /\ transfers[r.transfer].state = "pending"
    /\ mqttId = r.mqtt
    /\ transfers[r.transfer].requested < transfers[r.transfer].notBefore
    /\ r.current >= transfers[r.transfer].notBefore
    /\ {u \in Users : IsOwner(u)} = {transfers[r.transfer].prev}
    /\ r.current >= transfers[r.transfer].requested

\* Mutant of CompletedRow: the receipt is not part of the transaction.
CompletedRowWithoutReceipt(r) ==
    [transfers[r.transfer] EXCEPT !.state = "completed",
                                  !.effective = r.current]

\* The transfer row after the switch, with the receipt of its transaction.
CompletedRow(r) ==
    [transfers[r.transfer] EXCEPT !.state = "completed",
                                  !.effective = r.current,
                                  !.receipt = r.mqtt]

\* Mutant of CompletionNotices: the previous owner is not told.
NewOwnerNoticeOnly(t) ==
    {[transfer |-> t, user |-> transfers[t].next, phase |-> "completed"]}

\* Who is told that transfer t is done.
CompletionNotices(t) ==
    {[transfer |-> t, user |-> u, phase |-> "completed"] :
        u \in {transfers[t].prev, transfers[t].next}}

\* The atomic switch: every membership is dropped, the new owner's is
\* created, the alarm configuration is deleted, both parties are told.
CompleteTransfer(w) ==
    /\ worker[w] # None
    /\ LET r == worker[w]
           t == r.transfer
       IN /\ Completable(r)
          /\ role' = [u \in Users |->
                        IF u = transfers[t].next THEN "owner" ELSE "none"]
          /\ alarmOwner' = None
          /\ transfers' = [transfers EXCEPT ![t] = CompletedRow(r)]
          /\ notices' = notices \cup CompletionNotices(t)
    /\ worker' = [worker EXCEPT ![w] = None]
    /\ UNCHANGED <<now, mqttId, challenges, nChallenges, nTransfers,
                   measurements, devVars, issuing, staging, adopting>>

\* The broker refuses, a re-check fails or the process stops: the receipt and
\* the switch are rolled back together.
AbandonTransfer(w) ==
    /\ worker[w] # None
    /\ worker' = [worker EXCEPT ![w] = None]
    /\ UNCHANGED <<now, dbVars, devVars, issuing, staging, adopting>>
-----------------------------------------------------------------------------
(* Routes of devices.py that change rows of the device, under its lock.    *)

\* claim_device for a registered device: only its owner passes, and the
\* routing identity of the association proof replaces the stored one.
ClaimDevice(u, m) ==
    /\ ~Pending
    /\ IsOwner(u)
    /\ ActiveTransferAccess(u)
    /\ mqttId' = m
    /\ UNCHANGED <<now, role, challenges, nChallenges, transfers, nTransfers,
                   notices, alarmOwner, measurements, devVars, opVars>>

Members == {u \in Users : role[u] = "member"}

\* add_device_member, after _require_owner with lock_device.
AddDeviceMember(o, u) ==
    /\ IsOwner(o) /\ ActiveTransferAccess(o)
    /\ role[u] = "none"
    /\ Cardinality(Members) < DEVICE_MEMBER_LIMIT
    /\ role' = [role EXCEPT ![u] = "member"]
    /\ UNCHANGED <<now, mqttId, challenges, nChallenges, transfers, nTransfers,
                   notices, alarmOwner, measurements, devVars, opVars>>

\* remove_device_member: only rows with role "member" can be removed.
RemoveDeviceMember(o, u) ==
    /\ IsOwner(o) /\ ActiveTransferAccess(o)
    /\ role[u] = "member"
    /\ role' = [role EXCEPT ![u] = "none"]
    /\ UNCHANGED <<now, mqttId, challenges, nChallenges, transfers, nTransfers,
                   notices, alarmOwner, measurements, devVars, opVars>>
-----------------------------------------------------------------------------
(* _configuration of device_alarm_configuration.py: the first read of the  *)
(* rules asks the device for them and stores the answer as the owner's.    *)

\* Mutant of BeginAdoptRules: the rules are asked for during a transfer too.
BeginAdoptWhilePending(u) ==
    /\ adopting[u] = None
    /\ IsOwner(u)
    /\ alarmOwner = None
    /\ adopting' = [adopting EXCEPT ![u] = now]
    /\ UNCHANGED <<now, dbVars, devVars, issuing, staging, worker>>

BeginAdoptRules(u) ==
    /\ adopting[u] = None
    /\ IsOwner(u) /\ ActiveTransferAccess(u)
    /\ alarmOwner = None
    /\ adopting' = [adopting EXCEPT ![u] = now]
    /\ UNCHANGED <<now, dbVars, devVars, issuing, staging, worker>>

\* The device answered.  Nothing is checked again; a row that appeared in the
\* meantime makes the insert fail on the primary key.
StoreAdoptedRules(u) ==
    /\ adopting[u] # None
    /\ alarmOwner' = IF alarmOwner = None THEN u ELSE alarmOwner
    /\ adopting' = [adopting EXCEPT ![u] = None]
    /\ UNCHANGED <<now, mqttId, role, challenges, nChallenges, transfers,
                   nTransfers, notices, measurements, devVars, issuing,
                   staging, worker>>

\* No usable answer from the device.
AdoptRulesFails(u) ==
    /\ adopting[u] # None
    /\ adopting' = [adopting EXCEPT ![u] = None]
    /\ UNCHANGED <<now, dbVars, devVars, issuing, staging, worker>>
-----------------------------------------------------------------------------
(* _persist_power_channel_measurement with resolve_owner_epoch,            *)
(* require_measurement_in_epoch and attach_measurement_owner in one        *)
(* transaction.  "at" is the device's timestamp: NTP keeps it out of the   *)
(* future, delivery may delay it.                                          *)

\* resolve_owner_epoch succeeds and names u.
OwnerEpochIs(u) ==
    /\ ~Pending
    /\ {o \in Users : IsOwner(o)} = {u}
    /\ Latest # 0 => transfers[Latest].next = u

\* Mutant of InEpoch: a delayed measurement goes to whoever owns the device.
InAnyEpoch(at) == TRUE

\* require_measurement_in_epoch.
InEpoch(at) == Latest # 0 => at >= transfers[Latest].effective

\* Mutant of AttributedTo: epoch_transfer_id is left NULL.
AttributedToAccount(u, at) == [at |-> at, owner |-> u, epoch |-> 0]

\* attach_measurement_owner.
AttributedTo(u, at) == [at |-> at, owner |-> u, epoch |-> Latest]

PersistMeasurement(u, at) ==
    /\ at <= now
    /\ OwnerEpochIs(u)
    /\ InEpoch(at)
    /\ \A m \in measurements : m.at # at
    /\ measurements' = measurements \cup {AttributedTo(u, at)}
    /\ UNCHANGED <<now, mqttId, role, challenges, nChallenges, transfers,
                   nTransfers, notices, alarmOwner, devVars, opVars>>
-----------------------------------------------------------------------------
Next ==
    \/ Tick
    \/ PhysicalReset
    \/ \E c \in ChallengeIds : SignChallenge(c)
    \/ \E u \in Users : BeginIssue(u)
    \/ \E u \in Users : CommitIssue(u)
    \/ \E q \in Requests, c \in ChallengeIds, g \in Generations :
          BeginStage(q, c, g)
    \/ \E q \in Requests : CommitStage(q)
    \/ \E w \in Workers, t \in TransferIds : StartAttest(w, t)
    \/ \E w \in Workers : CompleteTransfer(w)
    \/ \E w \in Workers : AbandonTransfer(w)
    \/ \E u \in Users, m \in MqttIds : ClaimDevice(u, m)
    \/ \E o, u \in Users : AddDeviceMember(o, u)
    \/ \E o, u \in Users : RemoveDeviceMember(o, u)
    \/ \E u \in Adopters : BeginAdoptRules(u)
    \/ \E u \in Users : StoreAdoptedRules(u)
    \/ \E u \in Users : AdoptRulesFails(u)
    \/ \E u \in Users, at \in SampleTimes : PersistMeasurement(u, at)

Spec == Init /\ [][Next]_vars
-----------------------------------------------------------------------------
(* Correctness.                                                            *)

\* The transfers of the device form one chain of owners, whatever requests,
\* workers and members do meanwhile: there is exactly one owner, each row
\* takes over from the owner its predecessor installed, only the last row
\* may be pending, and it still names the current owner as previous.  The
\* finalizer's "previous owner is inconsistent" is therefore never raised.
OwnershipChain ==
    /\ \E o \in Users :
         /\ {u \in Users : IsOwner(u)} = {o}
         /\ \A t \in TransferIds :
              /\ transfers[t].state = "pending" =>
                    t = nTransfers /\ transfers[t].prev = o
                    /\ transfers[t].next # o
              /\ t = nTransfers /\ transfers[t].state = "completed" =>
                    transfers[t].next = o
    /\ \A t \in TransferIds :
         /\ transfers[t].state = "absent" <=> t > nTransfers
         /\ (t > 1 /\ t <= nTransfers) =>
               transfers[t].prev = transfers[t - 1].next

\* "ORDER BY effective_at DESC" names the transfer that was completed last,
\* although effective_at is a clock value read before the lock was granted.
\* Access control, history bounds and attribution all rest on this order.
LatestIsLast == Completed # {} => \A t \in Completed : t <= Latest

\* One physical reset moves the device at most once: the generations of the
\* transfers strictly increase and no challenge serves two of them.
ResetUsedOnce ==
    \A s, t \in TransferIds :
        s < t /\ t <= nTransfers =>
            /\ transfers[s].gen < transfers[t].gen
            /\ transfers[t].gen <= generation
            /\ transfers[s].challenge # transfers[t].challenge

\* Ownership epochs do not overlap in time: what a later epoch recorded was
\* measured after everything an earlier epoch recorded, however late MQTT
\* delivered it and however long a request waited for the device lock.
EpochsDisjoint ==
    \A m, n \in measurements : m.epoch < n.epoch => m.at < n.at

\* Alarm thresholds never outlive their owner: a configuration whose owner is
\* not the device's owner would lock the new owner out of the alarm routes
\* ("Alarm configuration owner mismatch") with no route to remove it.
AlarmConfigurationOfOwner == alarmOwner # None => IsOwner(alarmOwner)

\* The old owner is warned while the transfer is pending, and both parties
\* are told when it is done, exactly then.
NoticesMatchTransfers ==
    notices =
        {[transfer |-> t, user |-> transfers[t].prev, phase |-> "pending"] :
            t \in 1 .. nTransfers} \cup
        {[transfer |-> t, user |-> transfers[t].prev, phase |-> "completed"] :
            t \in Completed} \cup
        {[transfer |-> t, user |-> transfers[t].next, phase |-> "completed"] :
            t \in Completed}

\* While a transfer is pending the device is frozen: no membership, routing
\* identity or measurement changes in a step that leaves it pending, and only
\* the switch itself changes the memberships when it ends.
FrozenWhilePending ==
    [][Pending => /\ UNCHANGED <<mqttId, measurements, nTransfers>>
                  /\ Pending' => UNCHANGED role]_vars

\* The whole protocol implements OwnershipEpochs: the owner row is the owner,
\* the latest completed transfer the epoch, the pending one names the heir.
Owner == CHOOSE u \in Users : IsOwner(u)
Heir  == IF Pending
         THEN transfers[CHOOSE t \in TransferIds :
                          transfers[t].state = "pending"].next
         ELSE None

Epochs == INSTANCE OwnershipEpochs WITH
              Accounts <- Users, Nobody <- None,
              Instants <- SampleTimes, owner <- Owner,
              epoch <- Latest, heir <- Heir, log <- measurements

ImplementsEpochs == Epochs!Spec

\* _completed_ownership_epochs accepts the chain it reads: every request was
\* made strictly inside the period of the owner it removes, so the archive of
\* a former owner is never refused as "Ownership archive inconsistent".
ArchiveConsistent ==
    \A t \in Completed :
        /\ transfers[t].requested < transfers[t].notBefore
        /\ transfers[t].notBefore <= transfers[t].effective
        /\ t - 1 \in Completed =>
              transfers[t].requested > transfers[t - 1].effective
=============================================================================
