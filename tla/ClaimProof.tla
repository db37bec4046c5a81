----------------------------- MODULE ClaimProof -----------------------------
(***************************************************************************)
(* The association proof of one device: the pairing window that publishes  *)
(* the digest of its nonce over MQTT, the ClaimProofStore, the claim route *)
(* that writes device row and owner between reserve and commit of the      *)
(* proof, and the challenge route that consumes a proof before a transfer. *)
(*                                                                         *)
(* Every method of the store reads its clock before it takes the lock:     *)
(* "now" may be up to LockWait behind when the method runs.  The transfer  *)
(* that follows a challenge is in DeviceTransfer.                          *)
(***************************************************************************)
EXTENDS Naturals, FiniteSets

CONSTANTS
    Users, Requests, MqttIds,
    Nonces,         \* one per pairing window: 1 .. number of windows
    None,
    TTL,            \* CLAIM_PROOF_TTL_SECONDS
    WINDOW,         \* how long a device publishes the digest of a window
    LockWait,       \* longest wait for the store's lock
    MaxTime         \* model bound

ASSUME ClaimConstants ==
    /\ IsFiniteSet(Requests)
    /\ Nonces \subseteq Nat \ {0}
    /\ TTL \in Nat /\ WINDOW \in Nat /\ LockWait \in Nat /\ MaxTime \in Nat
    /\ None \notin Users \cup Requests \cup MqttIds

\* The device stops publishing before a proof of the window can expire.
ASSUME WindowAssumption == WINDOW + LockWait < TTL

VARIABLES
    time,
    window,         \* nonce of the device's last pairing window, 0 before the first
    opened,         \* when that window was opened
    routing,        \* the device's routing identity in that window
    proof,          \* _proofs[device_uid]
    consumed,       \* _consumed_proofs, 0 when absent
    row,            \* device row with its owner
    request         \* claim and challenge requests; each request is used once

device == <<window, opened, routing>>
store  == <<proof, consumed>>
vars   == <<time, device, store, row, request>>

Times == 0 .. MaxTime

NoProof   == [nonce |-> 0, mqtt |-> None, expires |-> 0, holder |-> None]
NoRow     == [mqtt |-> None, owner |-> None]
NoRequest == [pc |-> "idle", kind |-> None, user |-> None, nonce |-> 0,
              mqtt |-> None, seen |-> None, answer |-> None]

Steps   == {"idle", "checking", "reserved", "stored", "failed", "lost", "answered"}
Kinds   == {"claim", "challenge"}
Answers == {"ok", "conflict", "error"}

ASSUME NoneIsNothing == None \notin Kinds \cup Answers

Proofs == [nonce: Nonces \cup {0}, mqtt: MqttIds \cup {None},
           expires: 0 .. MaxTime + TTL, holder: Requests \cup {None}]
States == [pc: Steps, kind: Kinds \cup {None}, user: Users \cup {None},
           nonce: Nonces \cup {0}, mqtt: MqttIds \cup {None},
           seen: MqttIds \cup {None}, answer: Answers \cup {None}]

TypeOK ==
    /\ time \in Times
    /\ window \in Nonces \cup {0} /\ opened \in Times /\ routing \in MqttIds \cup {None}
    /\ proof \in Proofs
    /\ consumed \in [Nonces -> 0 .. MaxTime + TTL]
    /\ row \in [mqtt: MqttIds \cup {None}, owner: Users \cup {None}]
    /\ request \in [Requests -> States]

Init ==
    /\ time = 0
    /\ window = 0 /\ opened = 0 /\ routing = None
    /\ proof = NoProof
    /\ consumed = [n \in Nonces |-> 0]
    /\ row = NoRow
    /\ request = [r \in Requests |-> NoRequest]

\* What self._clock() may have returned to the method that has the lock now.
Now == {t \in Times : t <= time /\ time <= t + LockWait}
-----------------------------------------------------------------------------
(* The store.                                                              *)

\* _prune
LiveProof(now)    == IF proof.expires <= now THEN NoProof ELSE proof
LiveConsumed(now) == [n \in Nonces |-> IF consumed[n] <= now THEN 0 ELSE consumed[n]]

Refused(now) ==
    \/ LiveConsumed(now)[window] # 0
    \/ LiveProof(now).holder # None /\ LiveProof(now).nonce = window

Register(now) ==
    /\ consumed' = LiveConsumed(now)
    /\ proof' = IF Refused(now) THEN LiveProof(now)
                ELSE [nonce |-> window, mqtt |-> routing, expires |-> now + TTL,
                      holder |-> None]

\* A reservation lasts as long as its proof: one that survived the pruning has
\* not expired.
Reservable(n, now) == LiveProof(now).nonce = n /\ LiveProof(now).holder = None

Reserve(r, n, now) ==
    /\ consumed' = LiveConsumed(now)
    /\ proof' = IF Reservable(n, now) THEN [LiveProof(now) EXCEPT !.holder = r]
                ELSE LiveProof(now)

\* Mutant of Release: the reservation is not compared.
ReleaseAny(r) == proof' = [proof EXCEPT !.holder = None] /\ UNCHANGED consumed

Release(r) ==
    /\ proof' = IF proof.holder = r THEN [proof EXCEPT !.holder = None] ELSE proof
    /\ UNCHANGED consumed

Committable(r, now) == LiveProof(now).holder = r

\* Mutant of Commit: the digest is remembered from the proof's own deadline on.
CommitUntilLater(r, now) ==
    /\ consumed' = IF Committable(r, now)
                   THEN [LiveConsumed(now) EXCEPT ![proof.nonce] = proof.expires + TTL]
                   ELSE LiveConsumed(now)
    /\ proof' = IF Committable(r, now) THEN NoProof ELSE LiveProof(now)

Commit(r, now) ==
    IF Committable(r, now)
    THEN /\ proof' = NoProof
         /\ consumed' = [LiveConsumed(now) EXCEPT ![proof.nonce] = now + TTL]
    ELSE /\ proof' = LiveProof(now)
         /\ consumed' = LiveConsumed(now)
-----------------------------------------------------------------------------
(* The clock and the device.                                               *)

Tick == time < MaxTime /\ time' = time + 1 /\ UNCHANGED <<device, store, row, request>>

\* The button opens a window with a fresh nonce; the device may have been given
\* another routing identity.
OpenWindow ==
    /\ window + 1 \in Nonces
    /\ window' = window + 1
    /\ opened' = time
    /\ routing' \in MqttIds
    /\ UNCHANGED <<time, store, row, request>>

\* _handle_claim_proof_message; the message may be repeated.
Publish ==
    /\ window # 0 /\ time <= opened + WINDOW
    /\ \E now \in Now : Register(now)
    /\ UNCHANGED <<time, device, row, request>>
-----------------------------------------------------------------------------
(* claim_device.                                                           *)

Answered(r, a) == [request EXCEPT ![r].pc = "answered", ![r].answer = a]

BeginClaim(r, u, n) ==
    /\ request[r].pc = "idle"
    /\ \E now \in Now :
         /\ Reserve(r, n, now)
         /\ request' = [request EXCEPT ![r] =
              [NoRequest EXCEPT
                 !.kind = "claim", !.user = u, !.nonce = n,
                 !.mqtt = IF Reservable(n, now) THEN LiveProof(now).mqtt ELSE None,
                 !.pc = IF Reservable(n, now) THEN "reserved" ELSE "answered",
                 !.answer = IF Reservable(n, now) THEN None ELSE "conflict"]]
    /\ UNCHANGED <<time, device, row>>

MayOwn(u) == row.owner \in {None, u}

\* The transaction of claim_device, on the locked device row or an insert that
\* its unique columns guard.
StoreClaim(r) ==
    /\ request[r].kind = "claim" /\ request[r].pc = "reserved"
    /\ MayOwn(request[r].user)
    /\ row' = [mqtt |-> request[r].mqtt, owner |-> request[r].user]
    /\ request' = [request EXCEPT ![r].pc = "stored"]
    /\ UNCHANGED <<time, device, store>>

\* Mutant of ClaimFails: an IntegrityError leaves the reservation.
ClaimFailsHeld(r) ==
    /\ request[r].kind = "claim" /\ request[r].pc = "reserved"
    /\ request' = Answered(r, "conflict")
    /\ UNCHANGED <<time, device, store, row>>

\* Another owner, a pending transfer, a routing identity in use or an insert
\* that lost the race: the transaction is rolled back.
ClaimFails(r) ==
    /\ request[r].kind = "claim" /\ request[r].pc = "reserved"
    /\ request' = [request EXCEPT ![r].pc = "failed"]
    /\ UNCHANGED <<time, device, store, row>>

\* commit_claim_proof after db.commit(); a lost reservation is a RuntimeError.
ConfirmClaim(r) ==
    /\ request[r].pc = "stored"
    /\ \E now \in Now :
         /\ Commit(r, now)
         /\ request' = IF Committable(r, now) THEN Answered(r, "ok")
                       ELSE [request EXCEPT ![r].pc = "lost"]
    /\ UNCHANGED <<time, device, row>>

\* The except clauses of claim_device, and the refusals of the other route.
ReleaseAndAnswer(r) ==
    /\ request[r].pc \in {"failed", "lost"}
    /\ Release(r)
    /\ request' = Answered(r, IF request[r].pc = "lost" THEN "error" ELSE "conflict")
    /\ UNCHANGED <<time, device, row>>
-----------------------------------------------------------------------------
(* create_transfer_challenge up to the consumption of the proof.           *)

\* Somebody else owns the device; its routing identity is read without a lock.
BeginChallenge(r, u, n) ==
    /\ request[r].pc = "idle"
    /\ row.owner \notin {None, u}
    /\ request' = [request EXCEPT ![r] =
         [NoRequest EXCEPT !.kind = "challenge", !.pc = "checking", !.user = u,
                           !.nonce = n, !.seen = row.mqtt]]
    /\ UNCHANGED <<time, device, store, row>>

ReserveForChallenge(r) ==
    /\ request[r].pc = "checking"
    /\ \E now \in Now :
         LET n == request[r].nonce
             m == LiveProof(now).mqtt IN
         /\ Reserve(r, n, now)
         /\ request' =
              IF ~Reservable(n, now) THEN Answered(r, "conflict")
              ELSE [request EXCEPT
                      ![r].mqtt = m,
                      ![r].pc = IF m = request[r].seen THEN "reserved" ELSE "failed"]
    /\ UNCHANGED <<time, device, row>>

ConfirmChallenge(r) ==
    /\ request[r].kind = "challenge" /\ request[r].pc = "reserved"
    /\ \E now \in Now :
         /\ Commit(r, now)
         /\ request' = IF Committable(r, now) THEN Answered(r, "ok")
                       ELSE [request EXCEPT ![r].pc = "failed"]
    /\ UNCHANGED <<time, device, row>>
-----------------------------------------------------------------------------
Next ==
    \/ Tick
    \/ OpenWindow
    \/ Publish
    \/ \E r \in Requests, u \in Users, n \in Nonces : BeginClaim(r, u, n)
    \/ \E r \in Requests : StoreClaim(r)
    \/ \E r \in Requests : ClaimFails(r)
    \/ \E r \in Requests : ConfirmClaim(r)
    \/ \E r \in Requests : ReleaseAndAnswer(r)
    \/ \E r \in Requests, u \in Users, n \in Nonces : BeginChallenge(r, u, n)
    \/ \E r \in Requests : ReserveForChallenge(r)
    \/ \E r \in Requests : ConfirmChallenge(r)

Spec == Init /\ [][Next]_vars
-----------------------------------------------------------------------------
(* Correctness.                                                            *)

\* Requests that were granted a reservation and have not been answered.
Holding == {r \in Requests : request[r].pc \in {"reserved", "stored", "failed", "lost"}
                               /\ request[r].mqtt # None}

\* "preuve à usage unique" and "une réservation bloque un claim concurrent": a nonce
\* serves one request, a claim or a challenge, whether it still holds the
\* reservation or has succeeded, although the digest is published again, clocks are
\* read early, reservations expire, are released late and are replaced by those of
\* a new window.
SingleUse ==
    LET users == Holding \cup {r \in Requests : request[r].answer = "ok"} IN
    \A r1, r2 \in users : request[r1].nonce = request[r2].nonce => r1 = r2

\* No path of the routes leaves a reservation behind that nobody will release, and
\* whoever was told that the claim succeeded, or got the error for a reservation
\* lost after the database commit, owns the device and may try again.
AnswersAgree ==
    /\ proof.holder # None => proof.holder \in Holding
    /\ \A r \in Requests :
         request[r].kind = "claim" /\ request[r].answer \in {"ok", "error"}
            => row.owner = request[r].user
=============================================================================
