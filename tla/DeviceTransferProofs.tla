------------------------ MODULE DeviceTransferProofs ------------------------
(***************************************************************************)
(* Proofs about DeviceTransfer for any number of accounts, requests,       *)
(* workers, transfers and any clock, from the assumptions on its constants.*)
(***************************************************************************)
EXTENDS DeviceTransfer, TLAPS

\* Rows up to the counter are stored ones, and a request in flight names such
\* a challenge and a clock value of the past.
RequestsGrounded ==
    /\ \A c \in ChallengeIds :
          c <= nChallenges => challenges[c] \in StoredChallenge
    /\ \A q \in Requests :
          staging[q] # None => /\ staging[q].challenge <= nChallenges
                               /\ staging[q].current <= now

TypeInv == TypeOK /\ RequestsGrounded
-----------------------------------------------------------------------------
(* Typing of the rows the actions write.                                   *)

LEMMA StoredChallengeType ==
    ASSUME NEW u \in Users, NEW i \in 0 .. MaxTime, NEW n \in 0 .. MaxTime
    PROVE  [by |-> u, expires |-> i + CHALLENGE_LIFETIME,
            consumed |-> FALSE, issued |-> n] \in StoredChallenge
BY ConstantsAssumption DEF ConstantsAssumption, StoredChallenge, Time

LEMMA ConsumedChallengeType ==
    ASSUME NEW c \in StoredChallenge
    PROVE  [c EXCEPT !.consumed = TRUE] \in StoredChallenge
BY DEF StoredChallenge

LEMMA PendingRowType ==
    ASSUME TypeInv, NEW q \in Requests, staging[q] # None,
           NEW o \in Users
    PROVE  PendingRow(staging[q], o) \in PendingTransfer
<1> DEFINE r == staging[q]
<1>1. r \in StageRequest /\ r.current \in 0 .. MaxTime
  BY ConstantsAssumption
  DEF TypeInv, TypeOK, RequestsGrounded, StageRequest, Time, ConstantsAssumption
<1>2. challenges[r.challenge].by \in Users
  BY <1>1 DEF TypeInv, TypeOK, RequestsGrounded, StageRequest, StoredChallenge
<1>3. r.current + TRANSFER_DELAY \in Time /\ r.current \in Time /\ 0 \in Time
  BY <1>1, ConstantsAssumption DEF Time, ConstantsAssumption
<1>4. r.challenge \in ChallengeIds /\ r.gen \in Generations
  BY <1>1 DEF StageRequest
<1>. QED
  BY <1>2, <1>3, <1>4 DEF PendingRow, PendingTransfer, StoredTransfer

LEMMA CompletedRowType ==
    ASSUME TypeOK, NEW w \in Workers, worker[w] # None,
           Completable(worker[w])
    PROVE  CompletedRow(worker[w]) \in CompletedTransfer
<1> DEFINE r == worker[w]
<1>1. r \in WorkerRun
  BY DEF TypeOK
<1>2. r.transfer \in TransferIds /\ r.mqtt \in MqttIds /\ r.current \in Time
  BY <1>1 DEF WorkerRun
<1>3. transfers[r.transfer].state = "pending" /\ transfers[r.transfer] \in TransferRow
  BY <1>2 DEF TypeOK, Completable
<1>4. transfers[r.transfer] \in PendingTransfer
  BY <1>3 DEF TransferRow, NoTransfer, PendingTransfer, CompletedTransfer,
              StoredTransfer
<1>. QED
  BY <1>2, <1>4 DEF CompletedRow, PendingTransfer, CompletedTransfer,
                    StoredTransfer
-----------------------------------------------------------------------------
(* The shapes of all tables and requests.                                  *)

LEMMA InitTypeInv == Init => TypeInv
<1>. SUFFICES ASSUME Init PROVE TypeInv
  OBVIOUS
<1>1. TypeOK
  BY ConstantsAssumption
  DEF Init, TypeOK, ConstantsAssumption, Roles, ChallengeRow, TransferRow
<1>2. RequestsGrounded
  BY DEF Init, RequestsGrounded, ChallengeIds
<1>. QED
  BY <1>1, <1>2 DEF TypeInv

\* A stored challenge joins the table, or nothing happens but the request ends.
LEMMA CommitIssueType ==
    ASSUME TypeInv, NEW u \in Users, CommitIssue(u)
    PROVE  TypeInv'
<1>. USE DEF TypeInv, TypeOK, RequestsGrounded
<1>1. issuing[u] \in 0 .. MaxTime
  BY DEF CommitIssue
<1>2. now \in 0 .. MaxTime
  OBVIOUS
<1>3. [by |-> u, expires |-> issuing[u] + CHALLENGE_LIFETIME,
       consumed |-> FALSE, issued |-> now] \in StoredChallenge
  BY <1>1, <1>2, StoredChallengeType
<1>4. issuing' \in [Users -> (0 .. MaxTime) \cup {None}]
  BY DEF CommitIssue
<1>5. CASE UNCHANGED <<nChallenges, challenges>>
  BY <1>4, <1>5 DEF CommitIssue, devVars
<1>6. CASE /\ nChallenges < MaxChallenges
           /\ nChallenges' = nChallenges + 1
           /\ challenges' = [challenges EXCEPT ![nChallenges + 1] =
                 [by |-> u, expires |-> issuing[u] + CHALLENGE_LIFETIME,
                  consumed |-> FALSE, issued |-> now]]
  <2>1. challenges' \in [ChallengeIds -> ChallengeRow] /\ nChallenges' \in 0 .. MaxChallenges
    BY <1>3, <1>6, ConstantsAssumption
    DEF ChallengeRow, ChallengeIds, ConstantsAssumption
  <2>2. RequestsGrounded'
    BY <1>3, <1>6, ConstantsAssumption
    DEF CommitIssue, devVars, ChallengeIds, ConstantsAssumption, StageRequest
  <2>. QED
    BY <1>4, <1>6, <2>1, <2>2 DEF CommitIssue, devVars
<1>. QED
  BY <1>5, <1>6 DEF CommitIssue

LEMMA CommitStageType ==
    ASSUME TypeInv, NEW q \in Requests, CommitStage(q)
    PROVE  TypeInv'
<1>. USE DEF TypeInv, TypeOK, RequestsGrounded
<1>. DEFINE r == staging[q]
<1>1. r \in StageRequest /\ r.challenge \in ChallengeIds /\ r.challenge <= nChallenges
  BY DEF CommitStage, StageRequest
<1>2. staging' \in [Requests -> StageRequest \cup {None}]
  BY DEF CommitStage
<1>3. CASE UNCHANGED <<transfers, notices, nTransfers, challenges>>
  BY <1>2, <1>3 DEF CommitStage, devVars
<1>4. ASSUME NEW o \in Users,
             nTransfers < MaxTransfers,
             transfers' = [transfers EXCEPT ![nTransfers + 1] = PendingRow(r, o)],
             notices' = notices \cup
                {[transfer |-> nTransfers + 1, user |-> o, phase |-> "pending"]},
             nTransfers' = nTransfers + 1,
             challenges' = [challenges EXCEPT ![r.challenge].consumed = TRUE]
      PROVE  TypeInv'
  <2>1. nTransfers + 1 \in TransferIds /\ nTransfers' \in 0 .. MaxTransfers
    BY <1>4, ConstantsAssumption DEF TransferIds, ConstantsAssumption
  <2>2. PendingRow(r, o) \in TransferRow
    BY PendingRowType DEF CommitStage, TransferRow
  <2>3. transfers' \in [TransferIds -> TransferRow]
    BY <1>4, <2>1, <2>2
  <2>4. [challenges[r.challenge] EXCEPT !.consumed = TRUE] \in StoredChallenge
    <3>1. challenges[r.challenge] \in StoredChallenge
      BY <1>1
    <3>. QED
      BY <3>1, ConsumedChallengeType
  <2>5. challenges' = [challenges EXCEPT ![r.challenge] =
                         [challenges[r.challenge] EXCEPT !.consumed = TRUE]]
    BY <1>4
  <2>6. challenges' \in [ChallengeIds -> ChallengeRow]
    BY <2>4, <2>5 DEF ChallengeRow
  <2>7. \A c \in ChallengeIds : c <= nChallenges => challenges'[c] \in StoredChallenge
    BY <1>1, <2>4, <2>5
  <2>8. notices' \subseteq Notice
    BY <1>4, <2>1 DEF Notice
  <2>. QED
    BY <1>2, <2>1, <2>3, <2>6, <2>7, <2>8 DEF CommitStage, devVars
<1>. QED
  BY <1>3, <1>4 DEF CommitStage

LEMMA CompleteTransferType ==
    ASSUME TypeInv, NEW w \in Workers, CompleteTransfer(w)
    PROVE  TypeInv'
<1>. USE DEF TypeInv, TypeOK, RequestsGrounded
<1>. DEFINE r == worker[w]
            t == r.transfer
<1>1. r \in WorkerRun /\ t \in TransferIds
  BY DEF CompleteTransfer, WorkerRun
<1>2. transfers' \in [TransferIds -> TransferRow]
  BY <1>1, CompletedRowType DEF CompleteTransfer, TransferRow
<1>3. role' \in [Users -> Roles] /\ alarmOwner' \in Users \cup {None}
  BY DEF CompleteTransfer, Roles
<1>4. transfers[t] \in PendingTransfer
  BY <1>1 DEF CompleteTransfer, Completable, TransferRow, NoTransfer,
              CompletedTransfer, PendingTransfer, StoredTransfer
<1>5. notices' \subseteq Notice
  BY <1>1, <1>4 DEF CompleteTransfer, CompletionNotices, Notice,
                    PendingTransfer, StoredTransfer
<1>6. worker' \in [Workers -> WorkerRun \cup {None}]
  BY DEF CompleteTransfer
<1>. QED
  BY <1>2, <1>3, <1>5, <1>6 DEF CompleteTransfer, devVars

\* The epoch a measurement is given is a transfer by LatestIs below.
LEMMA TypeInvStep ==
    ASSUME TypeInv, Latest \in TransferIds \cup {0}, [Next]_vars
    PROVE  TypeInv'
<1>. USE DEF TypeInv, TypeOK, RequestsGrounded
<1>1. CASE UNCHANGED vars
  BY <1>1 DEF vars, dbVars, devVars, opVars
<1>2. CASE Tick
  BY <1>2, ConstantsAssumption
  DEF Tick, dbVars, devVars, opVars, ConstantsAssumption, StageRequest, Time
<1>3. CASE PhysicalReset
  BY <1>3, ConstantsAssumption
  DEF PhysicalReset, dbVars, opVars, ConstantsAssumption
<1>4. ASSUME NEW c \in ChallengeIds, SignChallenge(c) PROVE TypeInv'
  BY <1>4 DEF SignChallenge, dbVars, opVars, Generations
<1>5. ASSUME NEW u \in Users, BeginIssue(u) PROVE TypeInv'
  BY <1>5 DEF BeginIssue, dbVars, devVars
<1>6. ASSUME NEW u \in Users, CommitIssue(u) PROVE TypeInv'
  BY <1>6, CommitIssueType
<1>7. ASSUME NEW q \in Requests, NEW c \in ChallengeIds, NEW g \in Generations,
             BeginStage(q, c, g)
      PROVE  TypeInv'
  <2> DEFINE r == [challenge |-> c, gen |-> g, current |-> now,
                   tagged |-> <<g, c>> \in proofs,
                   consumed |-> challenges[c].consumed]
  <2>1. now \in Time
    BY ConstantsAssumption DEF ConstantsAssumption, Time
  <2>2. challenges[c].consumed \in BOOLEAN
    BY <1>7 DEF BeginStage, StoredChallenge
  <2>3. r \in StageRequest
    BY <2>1, <2>2 DEF StageRequest
  <2>4. staging' = [staging EXCEPT ![q] = r]
    BY <1>7 DEF BeginStage
  <2>. QED
    BY <1>7, <2>3, <2>4 DEF BeginStage, dbVars, devVars
<1>8. ASSUME NEW q \in Requests, CommitStage(q) PROVE TypeInv'
  BY <1>8, CommitStageType
<1>9. ASSUME NEW w \in Workers, NEW t \in TransferIds, StartAttest(w, t)
      PROVE  TypeInv'
  BY <1>9, ConstantsAssumption
  DEF StartAttest, dbVars, devVars, WorkerRun, Time, ConstantsAssumption
<1>10. ASSUME NEW w \in Workers, CompleteTransfer(w) PROVE TypeInv'
  BY <1>10, CompleteTransferType
<1>11. ASSUME NEW w \in Workers, AbandonTransfer(w) PROVE TypeInv'
  BY <1>11 DEF AbandonTransfer, dbVars, devVars
<1>12. ASSUME NEW u \in Users, NEW m \in MqttIds, ClaimDevice(u, m) PROVE TypeInv'
  BY <1>12 DEF ClaimDevice, devVars, opVars
<1>13. ASSUME NEW o \in Users, NEW u \in Users,
              AddDeviceMember(o, u) \/ RemoveDeviceMember(o, u)
       PROVE  TypeInv'
  BY <1>13 DEF AddDeviceMember, RemoveDeviceMember, devVars, opVars, Roles
<1>14. ASSUME NEW u \in Users,
              BeginAdoptRules(u) \/ StoreAdoptedRules(u) \/ AdoptRulesFails(u)
       PROVE  TypeInv'
  BY <1>14 DEF BeginAdoptRules, StoreAdoptedRules, AdoptRulesFails, dbVars, devVars
<1>15. ASSUME NEW u \in Users, NEW at \in SampleTimes, PersistMeasurement(u, at)
       PROVE  TypeInv'
  BY <1>15, ConstantsAssumption
  DEF PersistMeasurement, AttributedTo, devVars, opVars, Measurement, Time,
      ConstantsAssumption
<1>. QED
  BY <1>1, <1>2, <1>3, <1>4, <1>5, <1>6, <1>7, <1>8, <1>9, <1>10, <1>11,
     <1>12, <1>13, <1>14, <1>15, ConstantsAssumption
  DEF Next, ConstantsAssumption
-----------------------------------------------------------------------------
(* The inductive invariant.                                                *)

\* The id of the last completed transfer, 0 when there is none.
LastCompleted ==
    IF nTransfers > 0 /\ transfers[nTransfers].state = "pending"
    THEN nTransfers - 1 ELSE nTransfers

\* No request in flight is older than Tick allows.
RequestsTimely ==
    /\ \A q \in Requests :
          staging[q] # None => now <= staging[q].current + LockWait
    /\ \A w \in Workers : worker[w] # None => worker[w].current <= now
    /\ \A u \in Users :
          adopting[u] # None =>
             adopting[u] <= now /\ now <= adopting[u] + CommandTimeout

\* A transfer is due a delay after its request and takes effect no earlier;
\* it was requested no more than a lock wait before its predecessors' end.
TransfersTimely ==
    \A t \in TransferIds : t <= nTransfers =>
        /\ transfers[t].requested <= now
        /\ transfers[t].notBefore = transfers[t].requested + TRANSFER_DELAY
        /\ transfers[t].state = "completed" =>
              /\ transfers[t].notBefore <= transfers[t].effective
              /\ transfers[t].effective <= now
        /\ \A s \in TransferIds :
              s < t => transfers[s].effective <= transfers[t].requested + LockWait

Structure == OwnershipChain /\ RequestsTimely /\ TransfersTimely

\* A measurement lies between the start of its epoch and the moment the next
\* transfer was staged.
MeasurementsTimely ==
    \A m \in measurements :
        /\ m.epoch <= LastCompleted
        /\ m.at <= now
        /\ m.epoch # 0 => m.at >= transfers[m.epoch].effective
        /\ m.epoch < nTransfers =>
              m.at <= transfers[m.epoch + 1].requested + LockWait

\* An adoption in flight is the owner's, and began before the transfer that
\* is pending now was staged.
AdoptionsTimely ==
    \A u \in Users :
        adopting[u] # None =>
            /\ IsOwner(u)
            /\ Pending => adopting[u] <= transfers[nTransfers].requested + LockWait

\* Generations in proofs, requests and transfers are completed resets.
ResetsHappened ==
    /\ \A p \in proofs : p[1] <= generation
    /\ \A q \in Requests :
          staging[q] # None /\ staging[q].tagged => staging[q].gen <= generation
    /\ \A t \in TransferIds : t <= nTransfers => transfers[t].gen <= generation

IInv == /\ TypeInv
        /\ Structure
        /\ MeasurementsTimely
        /\ AdoptionsTimely /\ AlarmConfigurationOfOwner
        /\ ResetsHappened /\ ResetUsedOnce
        /\ NoticesMatchTransfers
-----------------------------------------------------------------------------
(* What the invariant says about the transfers.                            *)

LEMMA ChainFacts ==
    ASSUME TypeInv, OwnershipChain
    PROVE  /\ \A t \in TransferIds : t <= nTransfers =>
                 transfers[t] \in PendingTransfer \cup CompletedTransfer
           /\ \A t \in TransferIds :
                 t < nTransfers => transfers[t].state = "completed"
           /\ Pending <=> nTransfers > 0 /\ transfers[nTransfers].state = "pending"
           /\ Completed = 1 .. LastCompleted
           /\ LastCompleted \in 0 .. nTransfers
           /\ ~Pending => LastCompleted = nTransfers
           /\ Pending => LastCompleted = nTransfers - 1
<1>. USE ConstantsAssumption DEF TransferIds, ConstantsAssumption
<1>1. nTransfers \in 0 .. MaxTransfers
  BY DEF TypeInv, TypeOK
<1>2. \A t \in TransferIds : t <= nTransfers =>
         transfers[t] \in PendingTransfer \cup CompletedTransfer
  BY <1>1 DEF TypeInv, TypeOK, OwnershipChain, TransferRow, NoTransfer
<1>3. \A t \in TransferIds : t <= nTransfers =>
         transfers[t].state \in {"pending", "completed"}
  BY <1>2 DEF PendingTransfer, CompletedTransfer, StoredTransfer
<1>4. \A t \in TransferIds :
         transfers[t].state = "pending" => t = nTransfers
  BY DEF OwnershipChain
<1>5. \A t \in TransferIds :
         t < nTransfers => transfers[t].state = "completed"
  BY <1>1, <1>3, <1>4
<1>6. Pending <=> nTransfers > 0 /\ transfers[nTransfers].state = "pending"
  BY <1>1, <1>4 DEF Pending
<1>7. LastCompleted \in 0 .. nTransfers
  BY <1>1 DEF LastCompleted
<1>8. \A t \in TransferIds : t > nTransfers => transfers[t].state = "absent"
  BY DEF OwnershipChain
<1>9. Completed = 1 .. LastCompleted
  BY <1>1, <1>3, <1>5, <1>7, <1>8 DEF Completed, LastCompleted
<1>10. /\ ~Pending => LastCompleted = nTransfers
       /\ Pending => LastCompleted = nTransfers - 1
  BY <1>6 DEF LastCompleted
<1>. QED
  BY <1>2, <1>5, <1>6, <1>7, <1>9, <1>10

\* The delay separates consecutive transfers: effective_at increases.
LEMMA EffectiveIncreases ==
    ASSUME TypeInv, Structure,
           NEW s \in Completed, NEW t \in Completed, s < t
    PROVE  /\ transfers[s].effective < transfers[t].effective
           /\ \A x \in Nat : x <= transfers[t].requested + LockWait
                              => x < transfers[t].effective
<1>1. s \in TransferIds /\ t \in TransferIds /\ t <= nTransfers
  <2>1. s \in TransferIds /\ t \in TransferIds
    BY DEF Completed
  <2>2. t \in 1 .. LastCompleted /\ LastCompleted \in 0 .. nTransfers
    BY ChainFacts DEF Structure
  <2>3. nTransfers \in Nat
    BY ConstantsAssumption DEF TypeInv, TypeOK, ConstantsAssumption
  <2>. QED
    BY <2>1, <2>2, <2>3
<1>2. transfers[s] \in CompletedTransfer /\ transfers[t] \in CompletedTransfer
  BY <1>1 DEF Completed, TypeInv, TypeOK, TransferRow, NoTransfer,
              PendingTransfer, CompletedTransfer, StoredTransfer
<1>3. /\ transfers[s].effective \in Nat /\ transfers[t].effective \in Nat
      /\ transfers[t].requested \in Nat
  BY <1>2, ConstantsAssumption
  DEF CompletedTransfer, StoredTransfer, Time, ConstantsAssumption
<1>4. /\ transfers[s].effective <= transfers[t].requested + LockWait
      /\ transfers[t].requested + TRANSFER_DELAY <= transfers[t].effective
  BY <1>1 DEF Structure, TransfersTimely, Completed
<1>. QED
  BY <1>3, <1>4, ConstantsAssumption, LatencyAssumption
  DEF ConstantsAssumption, LatencyAssumption

\* The first row in descending order of effective_at is the last one
\* completed.
LEMMA LatestIs ==
    ASSUME TypeInv, Structure
    PROVE  Latest = LastCompleted /\ Latest \in TransferIds \cup {0}
<1>1. Completed = 1 .. LastCompleted /\ LastCompleted \in 0 .. nTransfers
  BY ChainFacts DEF Structure
<1>2. nTransfers \in 0 .. MaxTransfers
  BY DEF TypeInv, TypeOK
<1>3. CASE LastCompleted = 0
  BY <1>1, <1>3 DEF Latest
<1>4. CASE LastCompleted # 0
  <2> DEFINE k == LastCompleted
  <2>1. k \in Completed
    BY <1>1, <1>2, <1>4
  <2>2. \A s \in Completed : s # k => s < k
    BY <1>1, <1>2
  <2>3. \A s \in Completed : NotBefore(s, k)
    <3> SUFFICES ASSUME NEW s \in Completed PROVE NotBefore(s, k)
      OBVIOUS
    <3>1. CASE s = k
      BY <1>1, <1>2, <3>1 DEF NotBefore
    <3>2. CASE s # k
      BY <2>1, <2>2, <3>2, EffectiveIncreases DEF NotBefore
    <3>. QED
      BY <3>1, <3>2
  <2> DEFINE l == CHOOSE t \in Completed : \A s \in Completed : NotBefore(s, t)
  <2>4. l \in Completed /\ NotBefore(k, l)
    BY <2>1, <2>3
  <2>5. ~ (l < k)
    <3> SUFFICES ASSUME l < k PROVE FALSE
      OBVIOUS
    <3>1. transfers[l].effective < transfers[k].effective
      BY <2>1, <2>4, EffectiveIncreases
    <3>2. transfers[l].effective \in Nat /\ transfers[k].effective \in Nat
      BY <2>1, <2>4, ConstantsAssumption
      DEF Completed, TypeInv, TypeOK, TransferRow, NoTransfer, PendingTransfer,
          CompletedTransfer, StoredTransfer, Time, ConstantsAssumption
    <3>3. l \in Nat /\ k \in Nat
      BY <1>1, <1>2, <2>4
    <3>. QED
      BY <2>4, <3>1, <3>2, <3>3 DEF NotBefore
  <2>6. l = k
    BY <2>2, <2>4, <2>5
  <2>7. Latest = l
    BY <2>1 DEF Latest
  <2>. QED
    BY <1>1, <1>2, <1>4, <2>6, <2>7, ConstantsAssumption
    DEF TransferIds, ConstantsAssumption
<1>. QED
  BY <1>3, <1>4
-----------------------------------------------------------------------------
(* Every step stages a transfer, completes one, or touches neither the     *)
(* transfers nor the owner.                                                *)

Stages(q, o) ==
    /\ staging[q] # None
    /\ StageAccepted(staging[q])
    /\ nTransfers < MaxTransfers
    /\ IsOwner(o)
    /\ transfers' = [transfers EXCEPT ![nTransfers + 1] = PendingRow(staging[q], o)]
    /\ notices' = notices \cup
          {[transfer |-> nTransfers + 1, user |-> o, phase |-> "pending"]}
    /\ nTransfers' = nTransfers + 1
    /\ staging' = [staging EXCEPT ![q] = None]
    /\ UNCHANGED <<now, role, alarmOwner, measurements, devVars, issuing,
                   worker, adopting>>

SameOwner ==
    /\ UNCHANGED <<transfers, nTransfers, notices>>
    /\ \A u \in Users : IsOwner(u)' <=> IsOwner(u)

LEMMA StepKinds ==
    ASSUME TypeInv, OwnershipChain, [Next]_vars
    PROVE  \/ \E q \in Requests, o \in Users : Stages(q, o)
           \/ \E w \in Workers : CompleteTransfer(w)
           \/ SameOwner
<1>1. CASE UNCHANGED vars
  BY <1>1 DEF vars, dbVars, SameOwner, IsOwner
<1>2. CASE Tick \/ PhysicalReset
  BY <1>2 DEF Tick, PhysicalReset, dbVars, SameOwner, IsOwner
<1>3. ASSUME NEW c \in ChallengeIds, SignChallenge(c) PROVE SameOwner
  BY <1>3 DEF SignChallenge, dbVars, SameOwner, IsOwner
<1>4. ASSUME NEW u \in Users, BeginIssue(u) \/ CommitIssue(u) PROVE SameOwner
  BY <1>4 DEF BeginIssue, CommitIssue, dbVars, SameOwner, IsOwner
<1>5. ASSUME NEW q \in Requests, NEW c \in ChallengeIds, NEW g \in Generations,
             BeginStage(q, c, g)
      PROVE  SameOwner
  BY <1>5 DEF BeginStage, dbVars, SameOwner, IsOwner
<1>6. ASSUME NEW q \in Requests, CommitStage(q)
      PROVE  SameOwner \/ \E o \in Users : Stages(q, o)
  BY <1>6 DEF CommitStage, Stages, SameOwner, IsOwner
<1>7. ASSUME NEW w \in Workers, NEW t \in TransferIds, StartAttest(w, t)
      PROVE  SameOwner
  BY <1>7 DEF StartAttest, dbVars, SameOwner, IsOwner
<1>8. ASSUME NEW w \in Workers, AbandonTransfer(w) PROVE SameOwner
  BY <1>8 DEF AbandonTransfer, dbVars, SameOwner, IsOwner
<1>9. ASSUME NEW u \in Users, NEW m \in MqttIds, ClaimDevice(u, m)
      PROVE  SameOwner
  BY <1>9 DEF ClaimDevice, SameOwner, IsOwner
<1>10. ASSUME NEW o \in Users, NEW u \in Users,
              AddDeviceMember(o, u) \/ RemoveDeviceMember(o, u)
       PROVE  SameOwner
  BY <1>10 DEF TypeInv, TypeOK, AddDeviceMember, RemoveDeviceMember, SameOwner,
               IsOwner
<1>11. ASSUME NEW u \in Users,
              BeginAdoptRules(u) \/ StoreAdoptedRules(u) \/ AdoptRulesFails(u)
       PROVE  SameOwner
  BY <1>11 DEF BeginAdoptRules, StoreAdoptedRules, AdoptRulesFails, dbVars,
               SameOwner, IsOwner
<1>12. ASSUME NEW u \in Users, NEW at \in SampleTimes, PersistMeasurement(u, at)
       PROVE  SameOwner
  BY <1>12 DEF PersistMeasurement, SameOwner, IsOwner
<1>. QED
  BY <1>1, <1>2, <1>3, <1>4, <1>5, <1>6, <1>7, <1>8, <1>9, <1>10, <1>11,
     <1>12, ConstantsAssumption
  DEF Next, ConstantsAssumption

\* What a completed switch leaves of the transfer it completes.
LEMMA CompleteFacts ==
    ASSUME TypeInv, Structure, NEW w \in Workers, CompleteTransfer(w)
    PROVE  /\ worker[w].transfer = nTransfers /\ nTransfers \in TransferIds
           /\ Pending
           /\ transfers[nTransfers] \in PendingTransfer
           /\ worker[w].current \in Time /\ worker[w].current <= now
           /\ worker[w].mqtt \in MqttIds
           /\ transfers[nTransfers].notBefore <= worker[w].current
           /\ IsOwner(transfers[nTransfers].prev)
           /\ transfers[nTransfers].prev # transfers[nTransfers].next
           /\ transfers' = [transfers EXCEPT ![nTransfers] =
                               [transfers[nTransfers] EXCEPT
                                  !.state = "completed",
                                  !.effective = worker[w].current,
                                  !.receipt = worker[w].mqtt]]
           /\ \A u \in Users :
                 IsOwner(u)' <=> u = transfers[nTransfers].next
           /\ nTransfers' = nTransfers /\ now' = now
<1>1. worker[w] \in WorkerRun /\ Completable(worker[w])
  BY DEF CompleteTransfer, TypeInv, TypeOK
<1>2. worker[w].transfer \in TransferIds /\ worker[w].current \in Time
      /\ worker[w].mqtt \in MqttIds
  BY <1>1 DEF WorkerRun
<1>3. transfers[worker[w].transfer].state = "pending"
  BY <1>1 DEF Completable
<1>4. worker[w].transfer = nTransfers /\ Pending
      /\ IsOwner(transfers[nTransfers].prev)
      /\ transfers[nTransfers].prev # transfers[nTransfers].next
  BY <1>2, <1>3 DEF Structure, OwnershipChain, Pending
<1>5. transfers[nTransfers] \in PendingTransfer
  BY <1>2, <1>3, <1>4
  DEF TypeInv, TypeOK, TransferRow, NoTransfer, CompletedTransfer,
      PendingTransfer, StoredTransfer
<1>6. worker[w].current <= now /\ transfers[nTransfers].notBefore <= worker[w].current
  <2>1. transfers[nTransfers].notBefore \in Nat /\ worker[w].current \in Nat
    BY <1>2, <1>5, ConstantsAssumption
    DEF PendingTransfer, StoredTransfer, Time, ConstantsAssumption
  <2>2. worker[w].current >= transfers[nTransfers].notBefore
    BY <1>1, <1>4 DEF Completable
  <2>. QED
    BY <2>1, <2>2 DEF CompleteTransfer, Structure, RequestsTimely
<1>7. transfers' = [transfers EXCEPT ![nTransfers] =
                               [transfers[nTransfers] EXCEPT
                                  !.state = "completed",
                                  !.effective = worker[w].current,
                                  !.receipt = worker[w].mqtt]]
  BY <1>4 DEF CompleteTransfer, CompletedRow
<1>8. \A u \in Users : IsOwner(u)' <=> u = transfers[nTransfers].next
  BY <1>4 DEF CompleteTransfer, IsOwner
<1>. QED
  BY <1>2, <1>4, <1>5, <1>6, <1>7, <1>8 DEF CompleteTransfer

\* What staging adds to the transfers.
LEMMA StageFacts ==
    ASSUME TypeInv, OwnershipChain,
           NEW q \in Requests, NEW o \in Users, Stages(q, o)
    PROVE  /\ nTransfers + 1 \in TransferIds /\ nTransfers \in Nat
           /\ nTransfers' = nTransfers + 1
           /\ ~Pending
           /\ \A t \in TransferIds : t <= nTransfers => transfers[t].state = "completed"
           /\ \A t \in TransferIds : t # nTransfers + 1 => transfers'[t] = transfers[t]
           /\ transfers'[nTransfers + 1] = PendingRow(staging[q], o)
           /\ PendingRow(staging[q], o) \in PendingTransfer
           /\ staging[q] \in StageRequest
           /\ staging[q].current <= now
           /\ {u \in Users : IsOwner(u)} = {o}
           /\ PendingRow(staging[q], o).next # o
           /\ nTransfers > 0 => transfers[nTransfers].next = o
<1>. USE DEF Stages
<1>1. nTransfers \in 0 .. MaxTransfers /\ nTransfers + 1 \in TransferIds
  BY ConstantsAssumption
  DEF TypeInv, TypeOK, TransferIds, ConstantsAssumption
<1>2. ~Pending /\ ~IsOwner(challenges[staging[q].challenge].by)
  BY DEF StageAccepted
<1>3. \A t \in TransferIds : t <= nTransfers => transfers[t].state = "completed"
  BY <1>1, <1>2, ChainFacts DEF TransferIds, Pending, PendingTransfer,
     CompletedTransfer, StoredTransfer
<1>4. PendingRow(staging[q], o) \in PendingTransfer
  BY PendingRowType
<1>5. /\ \A t \in TransferIds : t # nTransfers + 1 => transfers'[t] = transfers[t]
      /\ transfers'[nTransfers + 1] = PendingRow(staging[q], o)
  BY <1>1 DEF TypeInv, TypeOK
<1>6. staging[q] \in StageRequest /\ staging[q].current <= now
  BY DEF TypeInv, TypeOK, RequestsGrounded
<1>7. {u \in Users : IsOwner(u)} = {o}
  BY DEF OwnershipChain
<1>8. nTransfers > 0 => transfers[nTransfers].next = o
  <2>1. nTransfers > 0 => nTransfers \in TransferIds
    BY <1>1 DEF TransferIds
  <2>. QED
    BY <1>1, <1>3, <1>7, <2>1 DEF OwnershipChain
<1>9. PendingRow(staging[q], o).next # o
  BY <1>2, <1>7 DEF PendingRow
<1>. QED
  BY <1>1, <1>2, <1>3, <1>4, <1>5, <1>6, <1>7, <1>8, <1>9

LEMMA ChainStep ==
    ASSUME TypeInv, Structure, [Next]_vars
    PROVE  OwnershipChain'
<1>. USE DEF Structure
<1>1. nTransfers \in Nat /\ TransferIds \subseteq Nat /\ MaxTransfers \in Nat
  BY ConstantsAssumption
  DEF TypeInv, TypeOK, TransferIds, ConstantsAssumption
<1>2. PICK o \in Users :
         /\ {u \in Users : IsOwner(u)} = {o}
         /\ \A t \in TransferIds :
              /\ transfers[t].state = "pending" =>
                    t = nTransfers /\ transfers[t].prev = o
                    /\ transfers[t].next # o
              /\ t = nTransfers /\ transfers[t].state = "completed" =>
                    transfers[t].next = o
  BY DEF OwnershipChain
<1>3. \A t \in TransferIds :
         /\ transfers[t].state = "absent" <=> t > nTransfers
         /\ (t > 1 /\ t <= nTransfers) =>
               transfers[t].prev = transfers[t - 1].next
  BY DEF OwnershipChain
<1>4. ASSUME NEW q \in Requests, NEW p \in Users, Stages(q, p)
      PROVE  OwnershipChain'
  <2> DEFINE n == nTransfers + 1
  <2>1. p = o /\ role' = role
    BY <1>4, <1>2 DEF Stages
  <2>2. /\ n \in TransferIds /\ nTransfers' = n
        /\ \A t \in TransferIds : t <= nTransfers => transfers[t].state = "completed"
        /\ \A t \in TransferIds : t # n => transfers'[t] = transfers[t]
        /\ transfers'[n].state = "pending" /\ transfers'[n].prev = o
        /\ transfers'[n].next # o
        /\ nTransfers > 0 => transfers[nTransfers].next = o
    <3>1. transfers'[n] = PendingRow(staging[q], o) /\ transfers'[n].next # o
      BY <1>4, <2>1, StageFacts
    <3>2. transfers'[n].state = "pending" /\ transfers'[n].prev = o
      BY <3>1 DEF PendingRow
    <3>. QED
      BY <1>4, <2>1, <3>1, <3>2, StageFacts
  <2>3. {u \in Users : IsOwner(u)'} = {o}
    BY <1>2, <2>1 DEF IsOwner
  <2>4. \A t \in TransferIds :
          /\ transfers'[t].state = "pending" =>
                t = n /\ transfers'[t].prev = o /\ transfers'[t].next # o
          /\ t = n /\ transfers'[t].state = "completed" => transfers'[t].next = o
    BY <1>1, <1>3, <2>2
  <2>5. ASSUME NEW t \in TransferIds
        PROVE /\ transfers'[t].state = "absent" <=> t > n
              /\ (t > 1 /\ t <= n) => transfers'[t].prev = transfers'[t - 1].next
    <3>1. CASE t = n
      <4>1. t > 1 => t - 1 = nTransfers /\ nTransfers # n /\ nTransfers > 0
                     /\ nTransfers \in TransferIds
        BY <1>1, <2>2, <3>1 DEF TransferIds
      <4>. QED
        BY <1>1, <2>2, <3>1, <4>1
    <3>2. CASE t # n
      <4>1. t > 1 /\ t <= n => t - 1 \in TransferIds /\ t - 1 # n
        BY <1>1, <3>2 DEF TransferIds
      <4>. QED
        BY <1>1, <1>3, <2>2, <3>2, <4>1
    <3>. QED
      BY <3>1, <3>2
  <2>. QED
    BY <2>2, <2>3, <2>4, <2>5 DEF OwnershipChain
<1>5. ASSUME NEW w \in Workers, CompleteTransfer(w)
      PROVE  OwnershipChain'
  <2> DEFINE n == nTransfers
             h == transfers[n].next
  <2>1. /\ n \in TransferIds /\ nTransfers' = n /\ h \in Users
        /\ transfers[n].state = "pending"
        /\ \A t \in TransferIds : t # n => transfers'[t] = transfers[t]
        /\ transfers'[n].state = "completed"
        /\ transfers'[n].next = h /\ transfers'[n].prev = transfers[n].prev
        /\ \A u \in Users : IsOwner(u)' <=> u = h
    <3>1. transfers[n] \in PendingTransfer /\ n \in TransferIds
      BY <1>5, CompleteFacts
    <3>2. transfers' = [transfers EXCEPT ![n] =
                               [transfers[n] EXCEPT
                                  !.state = "completed",
                                  !.effective = worker[w].current,
                                  !.receipt = worker[w].mqtt]]
      BY <1>5, CompleteFacts
    <3>3. transfers \in [TransferIds -> TransferRow]
      BY DEF TypeInv, TypeOK
    <3>4. /\ transfers'[n].state = "completed"
          /\ transfers'[n].next = h /\ transfers'[n].prev = transfers[n].prev
          /\ transfers[n].state = "pending" /\ h \in Users
      BY <3>1, <3>2, <3>3 DEF PendingTransfer, StoredTransfer
    <3>. QED
      BY <1>5, CompleteFacts, <3>1, <3>2, <3>3, <3>4
  <2>2. {u \in Users : IsOwner(u)'} = {h}
    BY <2>1
  <2>3. \A t \in TransferIds :
          /\ transfers'[t].state = "pending" =>
                t = n /\ transfers'[t].prev = h /\ transfers'[t].next # h
          /\ t = n /\ transfers'[t].state = "completed" => transfers'[t].next = h
    BY <1>2, <2>1
  <2>4. \A t \in TransferIds :
              /\ transfers'[t].state = "absent" <=> t > n
              /\ (t > 1 /\ t <= n) => transfers'[t].prev = transfers'[t - 1].next
    <3>1. \A t \in TransferIds : transfers'[t].next = transfers[t].next
                                /\ transfers'[t].prev = transfers[t].prev
                                /\ (transfers'[t].state = "absent"
                                       <=> transfers[t].state = "absent")
      BY <2>1
    <3>2. \A t \in TransferIds : t > 1 => t - 1 \in TransferIds
      BY <1>1 DEF TransferIds
    <3>. QED
      BY <1>3, <3>1, <3>2
  <2>. QED
    BY <2>1, <2>2, <2>3, <2>4 DEF OwnershipChain
<1>6. ASSUME SameOwner PROVE OwnershipChain'
  BY <1>6 DEF SameOwner, OwnershipChain
<1>. QED
  BY <1>4, <1>5, <1>6, StepKinds

\* Tick stops at the age a request may reach.
LEMMA RequestsTimelyStep ==
    ASSUME TypeInv, RequestsTimely, [Next]_vars
    PROVE  RequestsTimely'
<1>. USE DEF RequestsTimely
<1>1. /\ now \in Nat
      /\ \A q \in Requests : staging[q] # None => staging[q].current \in Nat
      /\ \A w \in Workers : worker[w] # None => worker[w].current \in Nat
      /\ \A u \in Users : adopting[u] # None => adopting[u] \in Nat
      /\ LockWait \in Nat /\ CommandTimeout \in Nat
  BY ConstantsAssumption
  DEF TypeInv, TypeOK, StageRequest, WorkerRun, Time, ConstantsAssumption
<1>2. CASE UNCHANGED <<now, staging, worker, adopting>>
  BY <1>2
<1>3. CASE Tick
  BY <1>1, <1>3 DEF Tick, opVars
<1>4. ASSUME NEW q \in Requests, NEW c \in ChallengeIds, NEW g \in Generations,
             BeginStage(q, c, g)
      PROVE  RequestsTimely'
  BY <1>1, <1>4 DEF BeginStage, TypeInv, TypeOK
<1>5. ASSUME NEW q \in Requests, CommitStage(q) PROVE RequestsTimely'
  BY <1>1, <1>5 DEF CommitStage, TypeInv, TypeOK
<1>6. ASSUME NEW w \in Workers, NEW t \in TransferIds,
             StartAttest(w, t)
      PROVE  RequestsTimely'
  BY <1>1, <1>6 DEF StartAttest, TypeInv, TypeOK
<1>7. ASSUME NEW w \in Workers, CompleteTransfer(w) \/ AbandonTransfer(w)
      PROVE  RequestsTimely'
  BY <1>1, <1>7 DEF CompleteTransfer, AbandonTransfer, TypeInv, TypeOK
<1>8. ASSUME NEW u \in Users,
             BeginAdoptRules(u) \/ StoreAdoptedRules(u) \/ AdoptRulesFails(u)
      PROVE  RequestsTimely'
  BY <1>1, <1>8
  DEF BeginAdoptRules, StoreAdoptedRules, AdoptRulesFails, TypeInv, TypeOK
<1>9. CASE UNCHANGED vars
  BY <1>2, <1>9 DEF vars, opVars
<1>10. CASE PhysicalReset
  BY <1>2, <1>10 DEF PhysicalReset, opVars
<1>11. ASSUME NEW c \in ChallengeIds, SignChallenge(c) PROVE RequestsTimely'
  BY <1>2, <1>11 DEF SignChallenge, opVars
<1>12. ASSUME NEW u \in Users, BeginIssue(u) \/ CommitIssue(u) PROVE RequestsTimely'
  BY <1>2, <1>12 DEF BeginIssue, CommitIssue
<1>13. ASSUME NEW u \in Users, NEW m \in MqttIds, ClaimDevice(u, m)
       PROVE  RequestsTimely'
  BY <1>2, <1>13 DEF ClaimDevice, opVars
<1>14. ASSUME NEW o \in Users, NEW u \in Users,
              AddDeviceMember(o, u) \/ RemoveDeviceMember(o, u)
       PROVE  RequestsTimely'
  BY <1>2, <1>14 DEF AddDeviceMember, RemoveDeviceMember, opVars
<1>15. ASSUME NEW u \in Users, NEW at \in SampleTimes, PersistMeasurement(u, at)
       PROVE  RequestsTimely'
  BY <1>2, <1>15 DEF PersistMeasurement, opVars
<1>. QED
  BY <1>3, <1>4, <1>5, <1>6, <1>7, <1>8, <1>9, <1>10, <1>11, <1>12, <1>13,
     <1>14, <1>15, ConstantsAssumption
  DEF Next, ConstantsAssumption

\* Only Tick moves the clock, and it moves forward.
LEMMA ClockStep ==
    ASSUME TypeInv, [Next]_vars
    PROVE  now \in Nat /\ now' \in Nat /\ now <= now'
<1>1. now \in Nat
  BY ConstantsAssumption DEF TypeInv, TypeOK, ConstantsAssumption
<1>2. now' = now \/ now' = now + 1
  BY DEF Next, vars, Tick, PhysicalReset, SignChallenge, BeginIssue,
         CommitIssue, BeginStage, CommitStage, StartAttest, CompleteTransfer,
         AbandonTransfer, ClaimDevice, AddDeviceMember, RemoveDeviceMember,
         BeginAdoptRules, StoreAdoptedRules, AdoptRulesFails,
         PersistMeasurement
<1>. QED
  BY <1>1, <1>2

\* The numbers of a stored transfer.
LEMMA TransferNumbers ==
    ASSUME TypeInv, NEW t \in TransferIds
    PROVE  /\ transfers[t].requested \in Nat /\ transfers[t].notBefore \in Nat
           /\ transfers[t].effective \in Nat
           /\ LockWait \in Nat /\ TRANSFER_DELAY \in Nat
           /\ CommandTimeout \in Nat /\ now \in Nat /\ nTransfers \in Nat
BY ConstantsAssumption
DEF TypeInv, TypeOK, TransferRow, NoTransfer, PendingTransfer,
    CompletedTransfer, StoredTransfer, Time, ConstantsAssumption

LEMMA TransfersTimelyStep ==
    ASSUME TypeInv, Structure, [Next]_vars
    PROVE  TransfersTimely'
<1>. USE DEF Structure
<1>1. now \in Nat /\ now' \in Nat /\ now <= now'
  BY ClockStep
<1>2. TransferIds \subseteq Nat
  BY DEF TransferIds
<1>3. CASE SameOwner
  BY <1>1, <1>3, TransferNumbers DEF SameOwner, TransfersTimely
<1>4. ASSUME NEW q \in Requests, NEW o \in Users, Stages(q, o)
      PROVE  TransfersTimely'
  <2> DEFINE n == nTransfers + 1
             c == staging[q].current
  <2>1. /\ n \in TransferIds /\ nTransfers' = n /\ nTransfers \in Nat
        /\ \A t \in TransferIds : t # n => transfers'[t] = transfers[t]
        /\ \A t \in TransferIds : t <= nTransfers => transfers[t].state = "completed"
        /\ transfers'[n] = PendingRow(staging[q], o)
        /\ c <= now
    BY <1>4, StageFacts
  <2>2. c \in Nat /\ now <= c + LockWait
    <3>1. staging[q] \in StageRequest
      BY <1>4, StageFacts
    <3>2. c \in Nat
      BY <3>1, ConstantsAssumption DEF StageRequest, Time, ConstantsAssumption
    <3>3. now <= c + LockWait
      BY <1>4 DEF Stages, RequestsTimely
    <3>. QED
      BY <3>2, <3>3
  <2>3. /\ transfers'[n].requested = c
        /\ transfers'[n].notBefore = c + TRANSFER_DELAY
        /\ transfers'[n].state = "pending"
    BY <2>1 DEF PendingRow
  <2>4. \A s \in TransferIds : s < n => transfers'[s].effective <= c + LockWait
    BY <1>1, <1>2, <2>1, <2>2, TransferNumbers DEF TransfersTimely
  <2>5. ASSUME NEW t \in TransferIds, t <= n
        PROVE  /\ transfers'[t].requested <= now'
               /\ transfers'[t].notBefore = transfers'[t].requested + TRANSFER_DELAY
               /\ transfers'[t].state = "completed" =>
                     /\ transfers'[t].notBefore <= transfers'[t].effective
                     /\ transfers'[t].effective <= now'
               /\ \A s \in TransferIds :
                     s < t => transfers'[s].effective
                                <= transfers'[t].requested + LockWait
    <3>1. CASE t = n
      BY <1>1, <2>1, <2>2, <2>3, <2>4, <3>1
    <3>2. CASE t # n
      <4>1. t <= nTransfers
        BY <1>2, <2>1, <2>5, <3>2
      <4>2. transfers'[t] = transfers[t]
        BY <2>1, <3>2
      <4>3. \A s \in TransferIds : s < t => transfers'[s] = transfers[s]
        BY <1>2, <2>1, <4>1
      <4>. QED
        BY <1>1, <4>1, <4>2, <4>3, TransferNumbers DEF TransfersTimely
    <3>. QED
      BY <3>1, <3>2
  <2>. QED
    BY <2>1, <2>5 DEF TransfersTimely
<1>5. ASSUME NEW w \in Workers, CompleteTransfer(w)
      PROVE  TransfersTimely'
  <2> DEFINE n == nTransfers
             e == worker[w].current
  <2>1. /\ n \in TransferIds /\ nTransfers' = n /\ now' = now
        /\ transfers[n].notBefore <= e /\ e <= now
        /\ transfers[n] \in PendingTransfer
        /\ transfers' = [transfers EXCEPT ![n] =
                             [transfers[n] EXCEPT !.state = "completed",
                                                  !.effective = e,
                                                  !.receipt = worker[w].mqtt]]
    BY <1>5, CompleteFacts
  <2>2. transfers \in [TransferIds -> TransferRow]
    BY DEF TypeInv, TypeOK
  <2>3. /\ \A t \in TransferIds : t # n => transfers'[t] = transfers[t]
        /\ transfers'[n].effective = e
        /\ transfers'[n].requested = transfers[n].requested
        /\ transfers'[n].notBefore = transfers[n].notBefore
    BY <2>1, <2>2 DEF PendingTransfer, StoredTransfer
  <2>4. ASSUME NEW t \in TransferIds, t <= n
        PROVE  /\ transfers'[t].requested <= now'
               /\ transfers'[t].notBefore = transfers'[t].requested + TRANSFER_DELAY
               /\ transfers'[t].state = "completed" =>
                     /\ transfers'[t].notBefore <= transfers'[t].effective
                     /\ transfers'[t].effective <= now'
               /\ \A s \in TransferIds :
                     s < t => transfers'[s].effective
                                <= transfers'[t].requested + LockWait
    <3>1. \A s \in TransferIds : s < t => s # n
      BY <1>2, <2>1, <2>4
    <3>2. transfers'[t].requested = transfers[t].requested
          /\ transfers'[t].notBefore = transfers[t].notBefore
      BY <2>3
    <3>3. transfers'[t].state = "completed" =>
                     /\ transfers'[t].notBefore <= transfers'[t].effective
                     /\ transfers'[t].effective <= now'
      BY <2>1, <2>3, <2>4 DEF TransfersTimely
    <3>. QED
      BY <2>1, <2>3, <2>4, <3>1, <3>2, <3>3 DEF TransfersTimely
  <2>. QED
    BY <2>1, <2>4 DEF TransfersTimely
<1>. QED
  BY <1>3, <1>4, <1>5, StepKinds
-----------------------------------------------------------------------------
(* Measurements and their epochs.                                          *)

\* A row of the last epoch is older than a transfer staged now; a row of the
\* epoch a switch opens does not exist yet.
LEMMA MeasurementsStep ==
    ASSUME TypeInv, Structure, MeasurementsTimely, [Next]_vars
    PROVE  MeasurementsTimely'
<1>. USE DEF Structure
<1>1. /\ now \in Nat /\ now' \in Nat /\ now <= now' /\ LockWait \in Nat
      /\ nTransfers \in Nat
  BY ClockStep, ConstantsAssumption
  DEF TypeInv, TypeOK, ConstantsAssumption
<1>2. TransferIds \subseteq Nat /\ MaxTransfers \in Nat
  BY ConstantsAssumption DEF TransferIds, ConstantsAssumption
<1>3. LastCompleted \in 0 .. nTransfers
  BY ChainFacts
<1>4. \A m \in measurements : /\ m.at \in Nat /\ m.epoch \in Nat
                               /\ m.epoch \in TransferIds \cup {0}
  BY ConstantsAssumption
  DEF TypeInv, TypeOK, Measurement, Time, TransferIds, ConstantsAssumption
<1>5. CASE SameOwner /\ measurements' = measurements
  <2>1. LastCompleted' = LastCompleted
    BY <1>5 DEF SameOwner, LastCompleted
  <2>. QED
    BY <1>1, <1>4, <1>5, <2>1 DEF SameOwner, MeasurementsTimely
<1>6. ASSUME NEW u \in Users, NEW at \in SampleTimes, PersistMeasurement(u, at)
      PROVE  MeasurementsTimely'
  <2>1. UNCHANGED <<transfers, nTransfers, now>> /\ LastCompleted' = LastCompleted
    BY <1>6 DEF PersistMeasurement, LastCompleted
  <2>2. ~Pending /\ at <= now /\ InEpoch(at)
        /\ measurements' = measurements \cup {AttributedTo(u, at)}
    BY <1>6 DEF PersistMeasurement, OwnerEpochIs
  <2>3. Latest = LastCompleted /\ LastCompleted = nTransfers
    BY <2>2, LatestIs, ChainFacts
  <2>4. /\ AttributedTo(u, at).at = at
        /\ AttributedTo(u, at).epoch = nTransfers
    BY <2>3 DEF AttributedTo
  <2>5. nTransfers # 0 => at >= transfers[nTransfers].effective
    BY <2>2, <2>3 DEF InEpoch
  <2>. QED
    BY <1>1, <2>1, <2>2, <2>3, <2>4, <2>5 DEF MeasurementsTimely
<1>7. ASSUME NEW q \in Requests, NEW o \in Users, Stages(q, o)
      PROVE  MeasurementsTimely'
  <2> DEFINE n == nTransfers + 1
             c == staging[q].current
  <2>1. /\ n \in TransferIds /\ nTransfers' = n /\ ~Pending
        /\ \A t \in TransferIds : t # n => transfers'[t] = transfers[t]
        /\ transfers'[n] = PendingRow(staging[q], o)
    BY <1>7, StageFacts
  <2>2. transfers'[n].state = "pending" /\ transfers'[n].requested = c
    BY <2>1 DEF PendingRow
  <2>3. LastCompleted = nTransfers /\ LastCompleted' = nTransfers
    BY <1>1, <2>1, <2>2, ChainFacts DEF LastCompleted
  <2>4. now <= c + LockWait /\ measurements' = measurements /\ now' = now
    BY <1>7 DEF Stages, RequestsTimely
  <2>5. c \in Nat
    <3>1. staging[q] \in StageRequest
      BY <1>7, StageFacts
    <3>. QED
      BY <3>1, ConstantsAssumption DEF StageRequest, Time, ConstantsAssumption
  <2>6. ASSUME NEW m \in measurements
        PROVE  /\ m.epoch <= nTransfers
               /\ m.at <= now
               /\ m.epoch # 0 => m.at >= transfers'[m.epoch].effective
               /\ m.epoch < n => m.at <= transfers'[m.epoch + 1].requested + LockWait
    <3>1. m.epoch \in Nat /\ m.epoch <= nTransfers /\ m.at \in Nat /\ m.at <= now
      <4>1. m.epoch <= LastCompleted /\ m.at <= now
        BY DEF MeasurementsTimely
      <4>. QED
        BY <1>4, <2>3, <4>1
    <3>2. m.epoch # 0 => m.at >= transfers'[m.epoch].effective
      BY <1>1, <1>4, <2>1, <3>1 DEF MeasurementsTimely
    <3>3. CASE m.epoch = nTransfers
      BY <1>1, <2>2, <2>4, <2>5, <3>1, <3>2, <3>3
    <3>4. CASE m.epoch # nTransfers
      <4>1. m.epoch < nTransfers /\ m.epoch + 1 \in TransferIds /\ m.epoch + 1 # n
        BY <1>1, <1>2, <2>1, <3>1, <3>4 DEF TransferIds
      <4>. QED
        BY <2>1, <3>1, <3>2, <4>1 DEF MeasurementsTimely
    <3>. QED
      BY <3>3, <3>4
  <2>. QED
    BY <2>1, <2>3, <2>4, <2>6 DEF MeasurementsTimely
<1>8. ASSUME NEW w \in Workers, CompleteTransfer(w)
      PROVE  MeasurementsTimely'
  <2> DEFINE n == nTransfers
  <2>1. /\ n \in TransferIds /\ nTransfers' = n /\ now' = now /\ Pending
        /\ transfers[n] \in PendingTransfer
        /\ transfers' = [transfers EXCEPT ![n] =
                             [transfers[n] EXCEPT !.state = "completed",
                                                  !.effective = worker[w].current,
                                                  !.receipt = worker[w].mqtt]]
    BY <1>8, CompleteFacts
  <2>2. transfers \in [TransferIds -> TransferRow]
    BY DEF TypeInv, TypeOK
  <2>3. /\ \A t \in TransferIds : t # n => transfers'[t] = transfers[t]
        /\ transfers'[n].requested = transfers[n].requested
        /\ transfers'[n].state = "completed"
    BY <2>1, <2>2 DEF PendingTransfer, StoredTransfer
  <2>4. LastCompleted = n - 1 /\ LastCompleted' = n
    BY <2>1, <2>3, ChainFacts DEF LastCompleted
  <2>5. measurements' = measurements
    BY <1>8 DEF CompleteTransfer
  <2>6. ASSUME NEW m \in measurements
        PROVE  /\ m.epoch <= n
               /\ m.at <= now
               /\ m.epoch # 0 => m.at >= transfers'[m.epoch].effective
               /\ m.epoch < n => m.at <= transfers'[m.epoch + 1].requested + LockWait
    <3>1. m.epoch \in Nat /\ m.epoch <= n - 1 /\ m.at <= now
      BY <1>2, <1>4, <2>4 DEF MeasurementsTimely
    <3>2. m.epoch # 0 => m.epoch \in TransferIds /\ m.epoch # n
      BY <1>1, <1>4, <3>1
    <3>3. m.epoch + 1 \in TransferIds
      BY <1>1, <1>2, <2>1, <3>1 DEF TransferIds
    <3>4. transfers'[m.epoch + 1].requested = transfers[m.epoch + 1].requested
      BY <2>3, <3>3
    <3>. QED
      BY <1>1, <2>3, <3>1, <3>2, <3>4 DEF MeasurementsTimely
  <2>. QED
    BY <2>1, <2>4, <2>5, <2>6 DEF MeasurementsTimely
<1>9. \/ \E u \in Users, at \in SampleTimes : PersistMeasurement(u, at)
      \/ measurements' = measurements
  BY DEF Next, vars, dbVars, Tick, PhysicalReset, SignChallenge, BeginIssue,
         CommitIssue, BeginStage, CommitStage, StartAttest, CompleteTransfer,
         AbandonTransfer, ClaimDevice, AddDeviceMember, RemoveDeviceMember,
         BeginAdoptRules, StoreAdoptedRules, AdoptRulesFails
<1>. QED
  BY <1>5, <1>6, <1>7, <1>8, <1>9, StepKinds

\* What the invariant says about two measurements.
LEMMA EpochsDisjointInv ==
    ASSUME TypeInv, Structure, MeasurementsTimely
    PROVE  EpochsDisjoint
<1>. SUFFICES ASSUME NEW m \in measurements, NEW n \in measurements,
                     m.epoch < n.epoch
              PROVE  m.at < n.at
  BY DEF EpochsDisjoint
<1>1. /\ m.epoch \in Nat /\ n.epoch \in TransferIds /\ n.epoch \in Nat
      /\ m.at \in Nat /\ n.at \in Nat /\ MaxTransfers \in Nat
  BY ConstantsAssumption
  DEF TypeInv, TypeOK, Measurement, Time, TransferIds, ConstantsAssumption
<1>2. /\ n.epoch <= LastCompleted /\ LastCompleted \in 0 .. nTransfers
      /\ nTransfers \in Nat /\ Completed = 1 .. LastCompleted
  BY ChainFacts, TransferNumbers, <1>1 DEF Structure, MeasurementsTimely
<1> DEFINE s == m.epoch + 1
<1>3. s \in TransferIds /\ s <= n.epoch /\ s \in Completed /\ n.epoch \in Completed
  BY <1>1, <1>2 DEF TransferIds
<1>4. m.at <= transfers[s].requested + LockWait
  BY <1>1, <1>2 DEF MeasurementsTimely
<1>5. transfers[s].requested + LockWait < transfers[s].effective
  <2>1. transfers[s].requested + TRANSFER_DELAY <= transfers[s].effective
    BY <1>2, <1>3 DEF Structure, TransfersTimely, Completed
  <2>2. /\ transfers[s].requested \in Nat /\ transfers[s].effective \in Nat
        /\ LockWait \in Nat /\ TRANSFER_DELAY \in Nat /\ CommandTimeout \in Nat
    BY <1>3, TransferNumbers
  <2>. QED
    BY <2>1, <2>2, LatencyAssumption DEF LatencyAssumption
<1>6. transfers[s].effective <= transfers[n.epoch].effective
  <2>1. transfers[s].effective \in Nat
    BY <1>3, TransferNumbers
  <2>2. CASE s = n.epoch
    BY <2>1, <2>2
  <2>3. CASE s # n.epoch
    <3>1. s < n.epoch
      BY <1>1, <1>3, <2>3
    <3>2. transfers[s].effective < transfers[n.epoch].effective
      BY <1>3, <3>1, EffectiveIncreases
    <3>3. transfers[n.epoch].effective \in Nat
      BY <1>1, TransferNumbers
    <3>. QED
      BY <2>1, <3>2, <3>3
  <2>. QED
    BY <2>2, <2>3
<1>7. transfers[n.epoch].effective <= n.at
  BY <1>1 DEF MeasurementsTimely, TransferIds
<1>. QED
  BY <1>1, <1>3, <1>4, <1>5, <1>6, <1>7, TransferNumbers
-----------------------------------------------------------------------------
(* The adoption of alarm rules.                                            *)

\* No adoption survives until the switch: it would be older than a command.
LEMMA NoAdoptionAtSwitch ==
    ASSUME TypeInv, Structure, AdoptionsTimely,
           NEW w \in Workers, CompleteTransfer(w), NEW u \in Users
    PROVE  adopting[u] = None
<1>. SUFFICES ASSUME adopting[u] # None PROVE FALSE
  OBVIOUS
<1>1. /\ nTransfers \in TransferIds /\ Pending
      /\ worker[w].current \in Time /\ worker[w].current <= now
      /\ transfers[nTransfers].notBefore <= worker[w].current
  BY CompleteFacts
<1>2. /\ transfers[nTransfers].notBefore =
             transfers[nTransfers].requested + TRANSFER_DELAY
      /\ adopting[u] <= transfers[nTransfers].requested + LockWait
      /\ now <= adopting[u] + CommandTimeout
  BY <1>1, TransferNumbers
  DEF AdoptionsTimely, Structure, TransfersTimely, RequestsTimely
<1>3. worker[w].current \in Nat /\ adopting[u] \in Nat
  BY <1>1, ConstantsAssumption
  DEF TypeInv, TypeOK, Time, ConstantsAssumption
<1>. QED
  BY <1>1, <1>2, <1>3, TransferNumbers, LatencyAssumption
  DEF LatencyAssumption

LEMMA AdoptionsStep ==
    ASSUME TypeInv, Structure, AdoptionsTimely, AlarmConfigurationOfOwner,
           [Next]_vars
    PROVE  AdoptionsTimely' /\ AlarmConfigurationOfOwner'
<1>. USE DEF Structure
<1>1. adopting \in [Users -> (0 .. MaxTime) \cup {None}]
      /\ alarmOwner \in Users \cup {None} /\ None \notin Users
  BY ConstantsAssumption DEF TypeInv, TypeOK, ConstantsAssumption
<1>2. CASE SameOwner /\ UNCHANGED <<adopting, alarmOwner>>
  BY <1>1, <1>2
  DEF SameOwner, AdoptionsTimely, AlarmConfigurationOfOwner, Pending
<1>3. ASSUME NEW q \in Requests, NEW o \in Users, Stages(q, o)
      PROVE  AdoptionsTimely' /\ AlarmConfigurationOfOwner'
  <2> DEFINE n == nTransfers + 1
             c == staging[q].current
  <2>1. UNCHANGED <<role, adopting, alarmOwner>> /\ now <= c + LockWait
    BY <1>3 DEF Stages, RequestsTimely
  <2>2. transfers'[n] = PendingRow(staging[q], o) /\ nTransfers' = n
        /\ staging[q] \in StageRequest
    BY <1>3, StageFacts
  <2>3. transfers'[n].requested = c /\ c \in Nat
    BY <2>2, ConstantsAssumption
    DEF PendingRow, StageRequest, Time, ConstantsAssumption
  <2>4. ASSUME NEW u \in Users, adopting[u] # None
        PROVE  adopting[u] <= c + LockWait
    <3>1. adopting[u] <= now /\ adopting[u] \in Nat
      BY <1>1, <2>4, ConstantsAssumption DEF RequestsTimely, ConstantsAssumption
    <3>. QED
      BY <2>1, <2>3, <3>1, ConstantsAssumption, ClockStep DEF ConstantsAssumption
  <2>. QED
    BY <2>1, <2>2, <2>3, <2>4
    DEF AdoptionsTimely, AlarmConfigurationOfOwner, IsOwner
<1>4. ASSUME NEW w \in Workers, CompleteTransfer(w)
      PROVE  AdoptionsTimely' /\ AlarmConfigurationOfOwner'
  <2>1. adopting' = adopting /\ alarmOwner' = None
    BY <1>4 DEF CompleteTransfer
  <2>2. \A u \in Users : adopting[u] = None
    BY <1>4, NoAdoptionAtSwitch
  <2>. QED
    BY <2>1, <2>2 DEF AdoptionsTimely, AlarmConfigurationOfOwner
<1>5. ASSUME NEW u \in Users, BeginAdoptRules(u)
      PROVE  AdoptionsTimely' /\ AlarmConfigurationOfOwner'
  <2>1. ~Pending /\ IsOwner(u) /\ adopting' = [adopting EXCEPT ![u] = now]
        /\ UNCHANGED <<role, transfers, nTransfers, alarmOwner>>
    BY <1>5 DEF BeginAdoptRules, ActiveTransferAccess, dbVars
  <2>. QED
    BY <1>1, <2>1 DEF AdoptionsTimely, AlarmConfigurationOfOwner, Pending, IsOwner
<1>6. ASSUME NEW u \in Users, StoreAdoptedRules(u) \/ AdoptRulesFails(u)
      PROVE  AdoptionsTimely' /\ AlarmConfigurationOfOwner'
  <2>1. /\ UNCHANGED <<role, transfers, nTransfers>>
        /\ adopting' = [adopting EXCEPT ![u] = None]
        /\ adopting[u] # None
        /\ alarmOwner' \in {alarmOwner, u}
    BY <1>6 DEF StoreAdoptedRules, AdoptRulesFails, dbVars
  <2>2. IsOwner(u)
    BY <2>1 DEF AdoptionsTimely
  <2>. QED
    BY <1>1, <2>1, <2>2
    DEF AdoptionsTimely, AlarmConfigurationOfOwner, Pending, IsOwner
<1>7. \/ \E u \in Users : \/ BeginAdoptRules(u)
                          \/ StoreAdoptedRules(u) \/ AdoptRulesFails(u)
      \/ \E w \in Workers : CompleteTransfer(w)
      \/ UNCHANGED <<adopting, alarmOwner>>
  BY ConstantsAssumption
  DEF Next, vars, dbVars, opVars, Tick, PhysicalReset, SignChallenge,
      BeginIssue, CommitIssue, BeginStage, CommitStage, StartAttest,
      AbandonTransfer, ClaimDevice, AddDeviceMember, RemoveDeviceMember,
      PersistMeasurement, ConstantsAssumption
<1>. QED
  BY <1>2, <1>3, <1>4, <1>5, <1>6, <1>7, StepKinds
-----------------------------------------------------------------------------
(* Physical resets.                                                        *)

LEMMA ResetsStep ==
    ASSUME TypeInv, Structure, ResetsHappened, ResetUsedOnce, [Next]_vars
    PROVE  ResetsHappened' /\ ResetUsedOnce'
<1>. USE DEF Structure
<1>1. /\ generation \in Nat /\ nTransfers \in Nat /\ TransferIds \subseteq Nat
      /\ Generations \subseteq Nat
  BY ConstantsAssumption
  DEF TypeInv, TypeOK, TransferIds, Generations, ConstantsAssumption
<1>2. CASE SameOwner /\ UNCHANGED <<generation, proofs, staging>>
  BY <1>2 DEF SameOwner, ResetsHappened, ResetUsedOnce
<1>3. ASSUME NEW q \in Requests, NEW o \in Users, Stages(q, o)
      PROVE  ResetsHappened' /\ ResetUsedOnce'
  <2> DEFINE n == nTransfers + 1
             r == staging[q]
  <2>1. /\ n \in TransferIds /\ nTransfers' = n
        /\ \A t \in TransferIds : t # n => transfers'[t] = transfers[t]
        /\ transfers'[n] = PendingRow(r, o)
    BY <1>3, StageFacts
  <2>2. transfers'[n].gen = r.gen /\ transfers'[n].challenge = r.challenge
    BY <2>1 DEF PendingRow
  <2>3. /\ \A t \in TransferIds : transfers[t].gen < r.gen
        /\ \A t \in TransferIds : transfers[t].challenge # r.challenge
        /\ r.gen <= generation
    BY <1>3 DEF Stages, StageAccepted, GenerationUnused, ChallengeUnused,
                ResetsHappened
  <2>4. UNCHANGED <<generation, proofs>> /\ staging' = [staging EXCEPT ![q] = None]
    BY <1>3 DEF Stages, devVars
  <2>5. staging \in [Requests -> StageRequest \cup {None}]
    BY DEF TypeInv, TypeOK
  <2>6. \A t \in TransferIds : t <= n /\ t # n => t <= nTransfers
    BY <1>1
  <2>7. ResetsHappened'
    BY <2>1, <2>2, <2>3, <2>4, <2>5, <2>6 DEF ResetsHappened
  <2>8. ResetUsedOnce'
    <3> SUFFICES ASSUME NEW s \in TransferIds, NEW t \in TransferIds,
                        s < t, t <= n
                 PROVE  /\ transfers'[s].gen < transfers'[t].gen
                        /\ transfers'[t].gen <= generation
                        /\ transfers'[s].challenge # transfers'[t].challenge
      BY <2>1, <2>4 DEF ResetUsedOnce
    <3>1. s # n /\ transfers'[s] = transfers[s]
      BY <1>1, <2>1
    <3>2. CASE t = n
      BY <2>2, <2>3, <3>1, <3>2
    <3>3. CASE t # n
      <4>1. t <= nTransfers /\ transfers'[t] = transfers[t]
        BY <2>1, <2>6, <3>3
      <4>. QED
        BY <3>1, <4>1 DEF ResetUsedOnce
    <3>. QED
      BY <3>2, <3>3
  <2>. QED
    BY <2>7, <2>8
<1>4. ASSUME NEW w \in Workers, CompleteTransfer(w)
      PROVE  ResetsHappened' /\ ResetUsedOnce'
  <2>1. /\ nTransfers \in TransferIds /\ nTransfers' = nTransfers
        /\ transfers[nTransfers] \in PendingTransfer
        /\ transfers' = [transfers EXCEPT ![nTransfers] =
                             [transfers[nTransfers] EXCEPT
                                !.state = "completed",
                                !.effective = worker[w].current,
                                !.receipt = worker[w].mqtt]]
    BY <1>4, CompleteFacts
  <2>2. transfers \in [TransferIds -> TransferRow]
    BY DEF TypeInv, TypeOK
  <2>3. \A t \in TransferIds : /\ transfers'[t].gen = transfers[t].gen
                              /\ transfers'[t].challenge = transfers[t].challenge
    BY <2>1, <2>2 DEF PendingTransfer, StoredTransfer
  <2>4. UNCHANGED <<generation, proofs, staging>>
    BY <1>4 DEF CompleteTransfer, devVars
  <2>. QED
    BY <2>1, <2>3, <2>4 DEF ResetsHappened, ResetUsedOnce
<1>5. CASE PhysicalReset
  <2>1. generation' = generation + 1
        /\ UNCHANGED <<transfers, nTransfers, proofs, staging>>
    BY <1>5 DEF PhysicalReset, dbVars, opVars
  <2>2. \A p \in proofs : p[1] \in Nat
    BY <1>1 DEF TypeInv, TypeOK
  <2>3. \A q \in Requests : staging[q] # None => staging[q].gen \in Nat
    BY <1>1 DEF TypeInv, TypeOK, StageRequest
  <2>4. \A t \in TransferIds : transfers[t].gen \in Nat
    <3>. SUFFICES ASSUME NEW t \in TransferIds PROVE transfers[t].gen \in Nat
      OBVIOUS
    <3>1. transfers[t] \in TransferRow
      BY DEF TypeInv, TypeOK
    <3>2. transfers[t].gen \in Generations \cup {0}
      BY <3>1 DEF TransferRow, NoTransfer, PendingTransfer, CompletedTransfer,
                  StoredTransfer
    <3>. QED
      BY <1>1, <3>2 DEF Generations
  <2>. QED
    BY <1>1, <2>1, <2>2, <2>3, <2>4 DEF ResetsHappened, ResetUsedOnce
<1>6. ASSUME NEW c \in ChallengeIds, SignChallenge(c)
      PROVE  ResetsHappened' /\ ResetUsedOnce'
  <2>1. /\ proofs' = proofs \cup {<<generation, c>>}
        /\ UNCHANGED <<transfers, nTransfers, generation, staging>>
    BY <1>6 DEF SignChallenge, dbVars, opVars
  <2>2. \A p \in proofs' : p[1] <= generation
    <3> SUFFICES ASSUME NEW p \in proofs' PROVE p[1] <= generation
      OBVIOUS
    <3>1. CASE p \in proofs
      BY <3>1 DEF ResetsHappened
    <3>2. CASE p = <<generation, c>>
      BY <1>1, <3>2
    <3>. QED
      BY <2>1, <3>1, <3>2
  <2>. QED
    BY <2>1, <2>2 DEF ResetsHappened, ResetUsedOnce
<1>7. ASSUME NEW q \in Requests, NEW c \in ChallengeIds, NEW g \in Generations,
             BeginStage(q, c, g)
      PROVE  ResetsHappened' /\ ResetUsedOnce'
  <2>1. UNCHANGED <<transfers, nTransfers, generation, proofs>>
    BY <1>7 DEF BeginStage, dbVars, devVars
  <2>2. \A p \in Requests : p # q => staging'[p] = staging[p]
    BY <1>7 DEF BeginStage, TypeInv, TypeOK
  <2>3. staging'[q].gen = g /\ staging'[q].tagged = (<<g, c>> \in proofs)
    BY <1>7 DEF BeginStage, TypeInv, TypeOK
  <2>4. staging'[q].tagged => g <= generation
    BY <2>3 DEF ResetsHappened
  <2>. QED
    BY <2>1, <2>2, <2>3, <2>4 DEF ResetsHappened, ResetUsedOnce
<1>8. ASSUME NEW q \in Requests, CommitStage(q), SameOwner
      PROVE  ResetsHappened' /\ ResetUsedOnce'
  <2>1. UNCHANGED <<transfers, nTransfers, generation, proofs>>
        /\ staging' = [staging EXCEPT ![q] = None]
    BY <1>8 DEF CommitStage, SameOwner, devVars
  <2>. QED
    BY <2>1 DEF ResetsHappened, ResetUsedOnce, TypeInv, TypeOK
<1>9. \/ PhysicalReset
      \/ \E c \in ChallengeIds : SignChallenge(c)
      \/ \E q \in Requests, c \in ChallengeIds, g \in Generations :
            BeginStage(q, c, g)
      \/ \E q \in Requests : CommitStage(q)
      \/ UNCHANGED <<generation, proofs, staging>>
  BY DEF Next, vars, devVars, opVars, Tick, BeginIssue, CommitIssue,
         StartAttest, CompleteTransfer, AbandonTransfer, ClaimDevice,
         AddDeviceMember, RemoveDeviceMember, BeginAdoptRules,
         StoreAdoptedRules, AdoptRulesFails, PersistMeasurement
<1>. QED
  BY <1>2, <1>3, <1>4, <1>5, <1>6, <1>7, <1>8, <1>9, StepKinds
-----------------------------------------------------------------------------
(* The notices.                                                            *)

LEMMA NoticesStep ==
    ASSUME TypeInv, Structure, NoticesMatchTransfers, [Next]_vars
    PROVE  NoticesMatchTransfers'
<1>. USE DEF Structure
<1>1. nTransfers \in Nat /\ TransferIds = 1 .. MaxTransfers /\ MaxTransfers \in Nat
  BY ConstantsAssumption
  DEF TypeInv, TypeOK, TransferIds, ConstantsAssumption
<1> DEFINE N(t, u, p) == [transfer |-> t, user |-> u, phase |-> p]
<1>2. CASE SameOwner
  BY <1>2 DEF SameOwner, NoticesMatchTransfers, Completed
<1>3. ASSUME NEW q \in Requests, NEW o \in Users, Stages(q, o)
      PROVE  NoticesMatchTransfers'
  <2> DEFINE n == nTransfers + 1
  <2>1. /\ n \in TransferIds /\ nTransfers' = n
        /\ \A t \in TransferIds : t # n => transfers'[t] = transfers[t]
        /\ transfers'[n] = PendingRow(staging[q], o)
        /\ notices' = notices \cup {N(n, o, "pending")}
    BY <1>3, StageFacts DEF Stages
  <2>2. transfers'[n].state = "pending" /\ transfers'[n].prev = o
    BY <2>1 DEF PendingRow
  <2>3. transfers[n].state # "completed"
    BY <1>1, <2>1 DEF OwnershipChain
  <2>4. Completed' = Completed
    BY <2>1, <2>2, <2>3 DEF Completed
  <2>5. \A t \in Completed : transfers'[t] = transfers[t]
    BY <2>1, <2>3 DEF Completed
  <2>6. {N(t, transfers'[t].prev, "pending") : t \in 1 .. n}
          = {N(t, transfers[t].prev, "pending") : t \in 1 .. nTransfers}
               \cup {N(n, o, "pending")}
    <3>1. \A t \in 1 .. nTransfers : t \in TransferIds /\ t # n
      BY <1>1, <2>1
    <3>2. \A t \in 1 .. nTransfers : transfers'[t].prev = transfers[t].prev
      BY <2>1, <3>1
    <3>3. 1 .. n = (1 .. nTransfers) \cup {n}
      BY <1>1
    <3>. QED
      BY <2>2, <3>2, <3>3
  <2>7. /\ {N(t, transfers'[t].prev, "completed") : t \in Completed}
              = {N(t, transfers[t].prev, "completed") : t \in Completed}
        /\ {N(t, transfers'[t].next, "completed") : t \in Completed}
              = {N(t, transfers[t].next, "completed") : t \in Completed}
    BY <2>5
  <2>. HIDE DEF N
  <2>8. notices = {N(t, transfers[t].prev, "pending") : t \in 1 .. nTransfers}
           \cup {N(t, transfers[t].prev, "completed") : t \in Completed}
           \cup {N(t, transfers[t].next, "completed") : t \in Completed}
    BY DEF NoticesMatchTransfers, N
  <2>9. notices' = {N(t, transfers'[t].prev, "pending") : t \in 1 .. n}
           \cup {N(t, transfers'[t].prev, "completed") : t \in Completed}
           \cup {N(t, transfers'[t].next, "completed") : t \in Completed}
    BY <2>1, <2>6, <2>7, <2>8
  <2>. QED
    BY <2>1, <2>4, <2>9 DEF NoticesMatchTransfers, N
<1>4. ASSUME NEW w \in Workers, CompleteTransfer(w)
      PROVE  NoticesMatchTransfers'
  <2> DEFINE n == nTransfers
  <2>1. /\ n \in TransferIds /\ nTransfers' = n /\ worker[w].transfer = n
        /\ transfers[n] \in PendingTransfer
        /\ transfers' = [transfers EXCEPT ![n] =
                             [transfers[n] EXCEPT !.state = "completed",
                                                  !.effective = worker[w].current,
                                                  !.receipt = worker[w].mqtt]]
    BY <1>4, CompleteFacts
  <2>2. transfers \in [TransferIds -> TransferRow]
    BY DEF TypeInv, TypeOK
  <2>3. /\ \A t \in TransferIds : /\ transfers'[t].prev = transfers[t].prev
                                 /\ transfers'[t].next = transfers[t].next
        /\ \A t \in TransferIds : t # n => transfers'[t] = transfers[t]
        /\ transfers'[n].state = "completed"
    BY <2>1, <2>2 DEF PendingTransfer, StoredTransfer
  <2>4. Completed' = Completed \cup {n} /\ Completed \subseteq TransferIds
    BY <2>1, <2>3 DEF Completed
  <2>5. notices' = notices \cup {N(n, transfers[n].prev, "completed"),
                                 N(n, transfers[n].next, "completed")}
    BY <1>4, <2>1 DEF CompleteTransfer, CompletionNotices
  <2>6. {N(t, transfers'[t].prev, "pending") : t \in 1 .. n}
          = {N(t, transfers[t].prev, "pending") : t \in 1 .. n}
    <3>1. \A t \in 1 .. n : t \in TransferIds
      BY <1>1, <2>1
    <3>. QED
      BY <2>3, <3>1
  <2>7. /\ {N(t, transfers'[t].prev, "completed") : t \in Completed'}
              = {N(t, transfers[t].prev, "completed") : t \in Completed}
                  \cup {N(n, transfers[n].prev, "completed")}
        /\ {N(t, transfers'[t].next, "completed") : t \in Completed'}
              = {N(t, transfers[t].next, "completed") : t \in Completed}
                  \cup {N(n, transfers[n].next, "completed")}
    BY <2>1, <2>3, <2>4
  <2>. HIDE DEF N
  <2>8. notices = {N(t, transfers[t].prev, "pending") : t \in 1 .. n}
           \cup {N(t, transfers[t].prev, "completed") : t \in Completed}
           \cup {N(t, transfers[t].next, "completed") : t \in Completed}
    BY DEF NoticesMatchTransfers, N
  <2>9. notices' = {N(t, transfers'[t].prev, "pending") : t \in 1 .. n}
           \cup {N(t, transfers'[t].prev, "completed") : t \in Completed'}
           \cup {N(t, transfers'[t].next, "completed") : t \in Completed'}
    BY <2>5, <2>6, <2>7, <2>8
  <2>. QED
    BY <2>1, <2>9 DEF NoticesMatchTransfers, N
<1>. QED
  BY <1>2, <1>3, <1>4, StepKinds
-----------------------------------------------------------------------------
(* The theorems.                                                           *)

LEMMA InitIInv == Init => IInv
<1>. SUFFICES ASSUME Init PROVE IInv
  OBVIOUS
<1>1. TypeInv
  BY InitTypeInv
<1>2. /\ nTransfers = 0 /\ \A t \in TransferIds : transfers[t].state = "absent"
      /\ now = 0 /\ measurements = {} /\ proofs = {} /\ notices = {}
      /\ alarmOwner = None
      /\ \A q \in Requests : staging[q] = None
      /\ \A w \in Workers : worker[w] = None
      /\ \A u \in Users : adopting[u] = None
  BY DEF Init, NoTransfer
<1>3. TransferIds \subseteq Nat /\ \A t \in TransferIds : t > 0
  BY DEF TransferIds
<1>4. OwnershipChain
  <2>1. PICK o \in Users :
           role = [u \in Users |-> IF u = o THEN "owner" ELSE "none"]
    BY DEF Init
  <2>2. {u \in Users : IsOwner(u)} = {o}
    BY <2>1 DEF IsOwner
  <2>3. \A t \in TransferIds :
          /\ transfers[t].state # "pending" /\ transfers[t].state # "completed"
          /\ transfers[t].state = "absent" /\ t > nTransfers
          /\ ~ (t > 1 /\ t <= nTransfers)
    BY <1>2, <1>3
  <2>. QED
    BY <2>2, <2>3 DEF OwnershipChain
<1>5. RequestsTimely /\ TransfersTimely
  BY <1>2, <1>3 DEF RequestsTimely, TransfersTimely
<1>6. MeasurementsTimely /\ AdoptionsTimely /\ AlarmConfigurationOfOwner
  BY <1>2 DEF MeasurementsTimely, AdoptionsTimely, AlarmConfigurationOfOwner
<1>7. ResetsHappened /\ ResetUsedOnce
  BY <1>2, <1>3 DEF ResetsHappened, ResetUsedOnce
<1>8. NoticesMatchTransfers
  <2>1. Completed = {} /\ 1 .. nTransfers = {}
    BY <1>2 DEF Completed
  <2>. QED
    BY <1>2, <2>1 DEF NoticesMatchTransfers
<1>. QED
  BY <1>1, <1>4, <1>5, <1>6, <1>7, <1>8 DEF IInv, Structure

LEMMA IInvStep == IInv /\ [Next]_vars => IInv'
<1>. SUFFICES ASSUME IInv, [Next]_vars PROVE IInv'
  OBVIOUS
<1>1. TypeInv'
  BY LatestIs, TypeInvStep DEF IInv
<1>2. OwnershipChain' /\ RequestsTimely' /\ TransfersTimely'
  BY ChainStep, RequestsTimelyStep, TransfersTimelyStep DEF IInv, Structure
<1>3. MeasurementsTimely'
  BY MeasurementsStep DEF IInv
<1>4. AdoptionsTimely' /\ AlarmConfigurationOfOwner'
  BY AdoptionsStep DEF IInv
<1>5. ResetsHappened' /\ ResetUsedOnce'
  BY ResetsStep DEF IInv
<1>6. NoticesMatchTransfers'
  BY NoticesStep DEF IInv
<1>. QED
  BY <1>1, <1>2, <1>3, <1>4, <1>5, <1>6 DEF IInv, Structure

\* The strengthened invariant holds in every reachable state.
THEOREM Inductive == Spec => []IInv
<1>1. Init => IInv
  BY InitIInv
<1>2. IInv /\ [Next]_vars => IInv'
  BY IInvStep
<1>. QED
  BY <1>1, <1>2, PTL DEF Spec

\* Every table and request keeps its shape.
THEOREM TypeCorrect == Spec => []TypeOK
<1>1. IInv => TypeOK
  BY DEF IInv, TypeInv
<1>. QED
  BY <1>1, Inductive, PTL

\* The transfers form one chain of owners that ends in the current owner.
THEOREM ChainCorrect == Spec => []OwnershipChain
<1>1. IInv => OwnershipChain
  BY DEF IInv, Structure
<1>. QED
  BY <1>1, Inductive, PTL

\* The order by effective_at finds the transfer completed last.
THEOREM LatestCorrect == Spec => []LatestIsLast
<1>1. IInv => LatestIsLast
  <2>. SUFFICES ASSUME IInv, NEW t \in Completed PROVE t <= Latest
    BY DEF LatestIsLast
  <2>1. Latest = LastCompleted /\ Completed = 1 .. LastCompleted
    BY LatestIs, ChainFacts DEF IInv, Structure
  <2>. QED
    BY <2>1
<1>. QED
  BY <1>1, Inductive, PTL

\* A physical reset moves the device at most once.
THEOREM ResetCorrect == Spec => []ResetUsedOnce
<1>1. IInv => ResetUsedOnce
  BY DEF IInv
<1>. QED
  BY <1>1, Inductive, PTL

LEMMA DisjointInv == IInv => EpochsDisjoint
BY EpochsDisjointInv DEF IInv

\* Measurements of different owners never overlap in time.
THEOREM EpochsCorrect == Spec => []EpochsDisjoint
BY DisjointInv, Inductive, PTL

\* Alarm rules never belong to anyone but the owner.
THEOREM AlarmCorrect == Spec => []AlarmConfigurationOfOwner
<1>1. IInv => AlarmConfigurationOfOwner
  BY DEF IInv
<1>. QED
  BY <1>1, Inductive, PTL

\* Both parties are told, exactly of what happened.
THEOREM NoticesCorrect == Spec => []NoticesMatchTransfers
<1>1. IInv => NoticesMatchTransfers
  BY DEF IInv
<1>. QED
  BY <1>1, Inductive, PTL

\* A pending transfer freezes routing, measurements and memberships.
LEMMA FrozenStep ==
    ASSUME IInv, [Next]_vars, Pending
    PROVE  /\ UNCHANGED <<mqttId, measurements, nTransfers>>
           /\ Pending' => UNCHANGED role
<1>. USE DEF IInv, Structure
<1>1. CASE UNCHANGED vars
  BY <1>1 DEF vars, dbVars
<1>2. CASE Tick \/ PhysicalReset
  BY <1>2 DEF Tick, PhysicalReset, dbVars
<1>3. ASSUME NEW c \in ChallengeIds, SignChallenge(c)
      PROVE  UNCHANGED <<mqttId, measurements, nTransfers, role>>
  BY <1>3 DEF SignChallenge, dbVars
<1>4. ASSUME NEW u \in Users, BeginIssue(u) \/ CommitIssue(u)
      PROVE  UNCHANGED <<mqttId, measurements, nTransfers, role>>
  BY <1>4 DEF BeginIssue, CommitIssue, dbVars
<1>5. ASSUME NEW q \in Requests, NEW c \in ChallengeIds, NEW g \in Generations,
             BeginStage(q, c, g)
      PROVE  UNCHANGED <<mqttId, measurements, nTransfers, role>>
  BY <1>5 DEF BeginStage, dbVars
<1>6. ASSUME NEW q \in Requests, CommitStage(q)
      PROVE  UNCHANGED <<mqttId, measurements, nTransfers, role>>
  BY <1>6 DEF CommitStage, StageAccepted
<1>7. ASSUME NEW w \in Workers, NEW t \in TransferIds, StartAttest(w, t)
      PROVE  UNCHANGED <<mqttId, measurements, nTransfers, role>>
  BY <1>7 DEF StartAttest, dbVars
<1>8. ASSUME NEW w \in Workers, CompleteTransfer(w)
      PROVE  UNCHANGED <<mqttId, measurements, nTransfers>> /\ ~Pending'
  <2>1. /\ nTransfers \in TransferIds
        /\ transfers[nTransfers] \in PendingTransfer
        /\ transfers' = [transfers EXCEPT ![nTransfers] =
                             [transfers[nTransfers] EXCEPT
                                !.state = "completed",
                                !.effective = worker[w].current,
                                !.receipt = worker[w].mqtt]]
    BY <1>8, CompleteFacts
  <2>2. transfers \in [TransferIds -> TransferRow]
    BY DEF TypeInv, TypeOK
  <2>3. \A t \in TransferIds : transfers'[t].state # "pending"
    BY <2>1, <2>2 DEF OwnershipChain, PendingTransfer, StoredTransfer
  <2>. QED
    BY <1>8, <2>3 DEF CompleteTransfer, Pending
<1>9. ASSUME NEW w \in Workers, AbandonTransfer(w)
      PROVE  UNCHANGED <<mqttId, measurements, nTransfers, role>>
  BY <1>9 DEF AbandonTransfer, dbVars
<1>10. ASSUME NEW u \in Users, NEW m \in MqttIds, ClaimDevice(u, m) PROVE FALSE
  BY <1>10 DEF ClaimDevice
<1>11. ASSUME NEW o \in Users, NEW u \in Users,
              AddDeviceMember(o, u) \/ RemoveDeviceMember(o, u)
       PROVE  FALSE
  BY <1>11 DEF AddDeviceMember, RemoveDeviceMember, ActiveTransferAccess
<1>12. ASSUME NEW u \in Users,
              BeginAdoptRules(u) \/ StoreAdoptedRules(u) \/ AdoptRulesFails(u)
       PROVE  UNCHANGED <<mqttId, measurements, nTransfers, role>>
  BY <1>12 DEF BeginAdoptRules, StoreAdoptedRules, AdoptRulesFails, dbVars
<1>13. ASSUME NEW u \in Users, NEW at \in SampleTimes, PersistMeasurement(u, at)
       PROVE  FALSE
  BY <1>13 DEF PersistMeasurement, OwnerEpochIs
<1>. QED
  BY <1>1, <1>2, <1>3, <1>4, <1>5, <1>6, <1>7, <1>8, <1>9, <1>10, <1>11,
     <1>12, <1>13, ConstantsAssumption
  DEF Next, ConstantsAssumption

\* While a transfer is pending only the switch changes who may use the device.
THEOREM FrozenCorrect == Spec => FrozenWhilePending
<1>1. IInv /\ [Next]_vars =>
        [Pending => /\ UNCHANGED <<mqttId, measurements, nTransfers>>
                    /\ Pending' => UNCHANGED role]_vars
  BY FrozenStep
<1>. QED
  BY <1>1, Inductive, PTL DEF Spec, FrozenWhilePending
-----------------------------------------------------------------------------
(* The refinement of OwnershipEpochs.                                      *)

\* The abstract state in terms of the rows.
Mapping ==
    /\ Owner \in Users
    /\ \A u \in Users : IsOwner(u) <=> u = Owner
    /\ Latest = LastCompleted /\ LastCompleted \in Nat
    /\ Pending => /\ nTransfers > 0
                  /\ nTransfers \in TransferIds
                  /\ Heir = transfers[nTransfers].next
                  /\ Heir \in Users /\ Heir # Owner
                  /\ LastCompleted = nTransfers - 1
    /\ ~Pending => Heir = None /\ LastCompleted = nTransfers
    /\ nTransfers \in Nat
    /\ \A t \in TransferIds : transfers[t].state = "pending" => t = nTransfers

LEMMA MappingInv == IInv => Mapping
<1>. SUFFICES ASSUME IInv PROVE Mapping
  OBVIOUS
<1>. USE DEF IInv, Structure
<1>1. PICK o \in Users : {u \in Users : IsOwner(u)} = {o}
  BY DEF OwnershipChain
<1>2. Owner = o
  BY <1>1 DEF Owner
<1>3. /\ Latest = LastCompleted /\ LastCompleted \in 0 .. nTransfers
      /\ nTransfers \in Nat /\ MaxTransfers \in Nat
      /\ nTransfers \in 0 .. MaxTransfers
      /\ ~Pending => LastCompleted = nTransfers
      /\ Pending => nTransfers > 0 /\ transfers[nTransfers].state = "pending"
      /\ Pending => LastCompleted = nTransfers - 1
  BY LatestIs, ChainFacts, ConstantsAssumption
  DEF TypeInv, TypeOK, ConstantsAssumption
<1>4. \A t \in TransferIds : transfers[t].state = "pending" => t = nTransfers
  BY DEF OwnershipChain
<1>5. ASSUME Pending
      PROVE  /\ nTransfers \in TransferIds
             /\ Heir = transfers[nTransfers].next
             /\ Heir \in Users /\ Heir # Owner
  <2>1. nTransfers \in TransferIds /\ transfers[nTransfers].state = "pending"
    BY <1>3, <1>5 DEF TransferIds
  <2>2. (CHOOSE t \in TransferIds : transfers[t].state = "pending") = nTransfers
    BY <1>4, <2>1
  <2>3. Heir = transfers[nTransfers].next
    BY <1>5, <2>2 DEF Heir
  <2>4. transfers[nTransfers].next \in Users
    BY <2>1 DEF TypeInv, TypeOK, TransferRow, NoTransfer, PendingTransfer,
                CompletedTransfer, StoredTransfer
  <2>5. transfers[nTransfers].next # Owner
    BY <1>1, <1>2, <2>1 DEF OwnershipChain
  <2>. QED
    BY <2>1, <2>3, <2>4, <2>5
<1>. QED
  BY <1>1, <1>2, <1>3, <1>4, <1>5 DEF Mapping, Heir

LEMMA MappingNext == IInv' => Mapping'
BY MappingInv, PTL

LEMMA DisjointNext == IInv' => EpochsDisjoint'
BY DisjointInv, PTL

LEMMA RefinementStep ==
    ASSUME IInv, IInv', [Next]_vars
    PROVE  [Epochs!Next]_(Epochs!vars)
<1>. USE DEF IInv, Structure
<1>1. Mapping /\ Mapping'
  BY MappingInv, MappingNext
<1>2. None \notin Users
  BY ConstantsAssumption DEF ConstantsAssumption
<1>3. ASSUME NEW q \in Requests, NEW o \in Users, Stages(q, o)
      PROVE  Epochs!Next
  <2>1. /\ nTransfers' = nTransfers + 1 /\ nTransfers + 1 \in TransferIds
        /\ ~Pending
        /\ transfers'[nTransfers + 1] = PendingRow(staging[q], o)
        /\ measurements' = measurements /\ role' = role
    BY <1>3, StageFacts DEF Stages
  <2>2. transfers'[nTransfers + 1].state = "pending"
    BY <2>1 DEF PendingRow
  <2>3. Pending'
    BY <2>1, <2>2 DEF Pending
  <2>4. Owner' = Owner
    BY <2>1 DEF Owner, IsOwner
  <2>5. Latest' = Latest /\ Heir = None /\ Heir' \in Users /\ Heir' # Owner
    BY <1>1, <2>1, <2>3, <2>4 DEF Mapping
  <2>6. Epochs!Designate(Heir')
    BY <1>2, <2>1, <2>4, <2>5 DEF Epochs!Designate, Epochs!Frozen
  <2>. QED
    BY <2>5, <2>6 DEF Epochs!Next
<1>4. ASSUME NEW w \in Workers, CompleteTransfer(w)
      PROVE  Epochs!Next
  <2>1. /\ nTransfers' = nTransfers /\ nTransfers \in TransferIds /\ Pending
        /\ transfers[nTransfers] \in PendingTransfer
        /\ transfers' = [transfers EXCEPT ![nTransfers] =
                             [transfers[nTransfers] EXCEPT
                                !.state = "completed",
                                !.effective = worker[w].current,
                                !.receipt = worker[w].mqtt]]
        /\ \A u \in Users : IsOwner(u)' <=> u = transfers[nTransfers].next
    BY <1>4, CompleteFacts
  <2>2. transfers \in [TransferIds -> TransferRow]
    BY DEF TypeInv, TypeOK
  <2>3. transfers'[nTransfers].state = "completed"
    BY <2>1, <2>2 DEF PendingTransfer, StoredTransfer
  <2>4. ~Pending'
    BY <1>1, <2>1, <2>3 DEF Mapping, Pending
  <2>5. measurements' = measurements
    BY <1>4 DEF CompleteTransfer
  <2>6. Owner' = Heir
    BY <1>1, <2>1 DEF Mapping
  <2>7. Latest' = Latest + 1 /\ Heir' = None /\ Heir \in Users
    BY <1>1, <2>1, <2>4 DEF Mapping
  <2>8. Epochs!TakeOver
    BY <1>2, <2>5, <2>6, <2>7 DEF Epochs!TakeOver, Epochs!Frozen
  <2>. QED
    BY <2>8 DEF Epochs!Next
<1>5. ASSUME SameOwner
      PROVE  UNCHANGED <<Owner, Latest, Heir>>
  <2>1. UNCHANGED <<transfers, nTransfers>> /\ \A u \in Users : IsOwner(u)' <=> IsOwner(u)
    BY <1>5 DEF SameOwner
  <2>2. Pending' <=> Pending
    BY <2>1 DEF Pending
  <2>3. Owner' = Owner
    BY <1>1, <2>1 DEF Mapping
  <2>4. Latest' = Latest
    BY <2>1 DEF Latest, Completed, NotBefore
  <2>5. Heir' = Heir
    BY <2>1, <2>2 DEF Heir
  <2>. QED
    BY <2>3, <2>4, <2>5
<1>6. ASSUME NEW u \in Users, NEW at \in SampleTimes, PersistMeasurement(u, at)
      PROVE  Epochs!Next
  <2>1. SameOwner
    BY <1>6 DEF PersistMeasurement, SameOwner, IsOwner
  <2>2. ~Pending /\ {o \in Users : IsOwner(o)} = {u} /\ InEpoch(at)
        /\ measurements' = measurements
              \cup {[at |-> at, owner |-> u, epoch |-> Latest]}
    BY <1>6 DEF PersistMeasurement, OwnerEpochIs, AttributedTo
  <2>3. Heir = None /\ u = Owner
    BY <1>1, <2>2 DEF Mapping
  <2>4. EpochsDisjoint'
    BY DisjointNext
  <2>5. \A m \in measurements : m.epoch < Latest => m.at < at
    <3>. SUFFICES ASSUME NEW m \in measurements, m.epoch < Latest PROVE m.at < at
      OBVIOUS
    <3>1. m \in measurements'
          /\ [at |-> at, owner |-> u, epoch |-> Latest] \in measurements'
      BY <2>2
    <3>. QED
      BY <2>4, <3>1 DEF EpochsDisjoint
  <2>6. Epochs!Record(at)
    BY <1>5, <2>1, <2>2, <2>3, <2>5 DEF Epochs!Record, Epochs!Frozen
  <2>. QED
    BY <2>6 DEF Epochs!Next
<1>7. \/ \E u \in Users, at \in SampleTimes : PersistMeasurement(u, at)
      \/ measurements' = measurements
  BY DEF Next, vars, dbVars, Tick, PhysicalReset, SignChallenge, BeginIssue,
         CommitIssue, BeginStage, CommitStage, StartAttest, CompleteTransfer,
         AbandonTransfer, ClaimDevice, AddDeviceMember, RemoveDeviceMember,
         BeginAdoptRules, StoreAdoptedRules, AdoptRulesFails
<1>8. CASE SameOwner /\ measurements' = measurements
  BY <1>5, <1>8 DEF Epochs!vars
<1>. QED
  BY <1>3, <1>4, <1>6, <1>7, <1>8, StepKinds

\* The protocol implements OwnershipEpochs.
THEOREM Refinement == Spec => ImplementsEpochs
<1>1. Init => Epochs!Init
  <2>. SUFFICES ASSUME Init PROVE Epochs!Init
    OBVIOUS
  <2>1. Mapping
    BY InitIInv, MappingInv
  <2>2. nTransfers = 0 /\ measurements = {} /\ TransferIds \subseteq Nat
    BY DEF Init, TransferIds
  <2>3. ~Pending
    BY <2>1, <2>2 DEF Mapping
  <2>. QED
    BY <2>1, <2>2, <2>3 DEF Mapping, Epochs!Init
<1>2. IInv /\ IInv' /\ [Next]_vars => [Epochs!Next]_(Epochs!vars)
  BY RefinementStep
<1>. QED
  BY <1>1, <1>2, Inductive, PTL DEF Spec, ImplementsEpochs, Epochs!Spec
=============================================================================
