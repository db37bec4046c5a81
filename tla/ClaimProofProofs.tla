-------------------------- MODULE ClaimProofProofs --------------------------
(***************************************************************************)
(* Proofs about ClaimProof: a digest serves one request and no reservation *)
(* is left behind, for any number of requests, windows and users and for   *)
(* every TTL that outlasts the pairing window and the wait for the lock.   *)
(***************************************************************************)
EXTENDS ClaimProof, TLAPS

\* The request has the nonce of its proof for itself.
Serves(r) == r \in Holding \/ request[r].answer = "ok"

\* The proof of the current window outlives the window, since it is registered at
\* most LockWait before the window is opened.
StoreTrue ==
    /\ opened <= time
    /\ window # 0 => routing \in MqttIds
    /\ proof.nonce <= window
    /\ proof.nonce # 0 => proof.mqtt \in MqttIds
    /\ proof.holder # None => proof.nonce # 0
    /\ proof.nonce = window /\ window # 0 => proof.expires > opened + WINDOW

\* No further proof of the current window can be registered.
Closed ==
    \/ proof.nonce = window
    \/ time > opened + WINDOW
    \/ consumed[window] > opened + WINDOW

\* Nobody but r can reserve nonce n any more.
Taken(n, r) ==
    /\ n \in Nonces /\ n <= window
    /\ proof.nonce = n => proof.holder = r
    /\ n = window => Closed

\* The store and the route agree on what request r has.
RequestInv(r) ==
    /\ Serves(r) => Taken(request[r].nonce, r)
    /\ proof.holder = r => r \in Holding /\ request[r].nonce = proof.nonce
    /\ request[r].answer # None => request[r].pc = "answered"
    /\ request[r].pc = "checking" => request[r].nonce \in Nonces
    /\ request[r].kind = "claim" =>
         /\ request[r].user \in Users
         /\ request[r].pc \in {"stored", "lost"} \/ request[r].answer \in {"ok", "error"}
                => row.owner = request[r].user

IInv == TypeOK /\ StoreTrue /\ SingleUse /\ \A r \in Requests : RequestInv(r)
-----------------------------------------------------------------------------
(* Lemmas.                                                                 *)

\* The parts of TypeOK that steps prove one by one.
DeviceType ==
    /\ time \in Times
    /\ window \in Nonces \cup {0} /\ opened \in Times /\ routing \in MqttIds \cup {None}
StoreType ==
    /\ proof \in Proofs
    /\ consumed \in [Nonces -> 0 .. MaxTime + TTL]
RowType == row \in [mqtt: MqttIds \cup {None}, owner: Users \cup {None}]
RequestType == request \in [Requests -> States]

LEMMA TypeParts ==
    TypeOK <=> DeviceType /\ StoreType /\ RowType /\ RequestType
  BY DEF TypeOK, DeviceType, StoreType, RowType, RequestType

LEMMA TypePartsNext ==
    TypeOK' <=> DeviceType' /\ StoreType' /\ RowType' /\ RequestType'
  BY DEF TypeOK, DeviceType, StoreType, RowType, RequestType

\* The numbers of a state.
LEMMA Numbers ==
    ASSUME TypeOK
    PROVE  /\ time \in Nat /\ opened \in Nat /\ window \in Nat /\ WINDOW \in Nat
           /\ TTL \in Nat /\ LockWait \in Nat /\ MaxTime \in Nat
           /\ proof.nonce \in Nat /\ proof.expires \in Nat
           /\ \A n \in Nonces : n \in Nat /\ n # 0 /\ consumed[n] \in Nat
           /\ \A now \in Now : now \in Nat /\ now <= time /\ time <= now + LockWait
           /\ \A now \in Now : now + TTL \in 0 .. MaxTime + TTL
<1>1. /\ time \in Nat /\ opened \in Nat /\ WINDOW \in Nat
      /\ TTL \in Nat /\ LockWait \in Nat /\ MaxTime \in Nat
  BY ClaimConstants DEF TypeOK, Times
<1>2. window \in Nat /\ proof.nonce \in Nat /\ proof.expires \in Nat
  <2>1. proof \in Proofs /\ Nonces \cup {0} \subseteq Nat
    BY ClaimConstants DEF TypeOK
  <2>2. proof.nonce \in Nonces \cup {0} /\ proof.expires \in 0 .. MaxTime + TTL
    BY <2>1 DEF Proofs
  <2> QED  BY <1>1, <2>1, <2>2 DEF TypeOK
<1>3. \A n \in Nonces : n \in Nat /\ n # 0 /\ consumed[n] \in Nat
  BY <1>1, ClaimConstants DEF TypeOK
<1>4. \A now \in Now : now \in Times /\ now <= time /\ time <= now + LockWait
  BY DEF Now
<1>5. \A now \in Times : now \in Nat /\ now + TTL \in 0 .. MaxTime + TTL
  BY <1>1 DEF Times
<1> QED  BY <1>1, <1>2, <1>3, <1>4, <1>5

LEMMA NoProofType == NoProof \in Proofs
  BY ClaimConstants DEF NoProof, Proofs

\* A nonce stays taken when the window does and the store closes nothing open.
LEMMA TakenFrame ==
    ASSUME NEW n, NEW r, Taken(n, r), window' = window,
           proof'.nonce = n => proof'.holder = r, Closed => Closed'
    PROVE  Taken(n, r)'
  BY DEF Taken

\* A nonce that is taken is the nonce of a window.
LEMMA TakenNonce ==
    ASSUME TypeOK, NEW n, NEW r, Taken(n, r)
    PROVE  window # 0 /\ n # 0
<1>1. n \in Nat /\ n # 0 /\ n <= window /\ window \in Nat
  BY Numbers DEF Taken
<1> QED  BY <1>1

\* What the pruning of the store may remove: nothing of a window that is still
\* published.
LEMMA Pruned ==
    ASSUME TypeOK, StoreTrue, NEW now \in Now
    PROVE  /\ LiveProof(now) \in {proof, NoProof} /\ LiveProof(now) \in Proofs
           /\ LiveProof(now) # proof /\ proof.nonce = window /\ window # 0
                => time > opened + WINDOW
           /\ LiveConsumed(now) \in [Nonces -> 0 .. MaxTime + TTL]
           /\ \A n \in Nonces : LiveConsumed(now)[n] # consumed[n] =>
                consumed[n] <= time
<1>1. LiveProof(now) \in {proof, NoProof} /\ LiveProof(now) \in Proofs
  BY NoProofType DEF LiveProof, TypeOK
<1>2. LiveProof(now) # proof => proof.expires <= time
  BY Numbers DEF LiveProof
<1>3. LiveProof(now) # proof /\ proof.nonce = window /\ window # 0
        => time > opened + WINDOW
  BY <1>2, Numbers DEF StoreTrue
<1>4. LiveConsumed(now) \in [Nonces -> 0 .. MaxTime + TTL]
  BY ClaimConstants DEF LiveConsumed, TypeOK
<1>5. \A n \in Nonces : LiveConsumed(now)[n] # consumed[n] => consumed[n] <= time
  BY Numbers DEF LiveConsumed
<1> QED  BY <1>1, <1>3, <1>4, <1>5

\* _prune alone.
LEMMA PruneKeeps ==
    ASSUME TypeOK, StoreTrue, NEW now \in Now, UNCHANGED <<time, device>>,
           proof' = LiveProof(now), consumed' = LiveConsumed(now)
    PROVE  /\ StoreType' /\ StoreTrue' /\ proof' \in {proof, NoProof}
           /\ window # 0 /\ Closed => Closed'
<1> USE DEF device
<1>1. proof' \in {proof, NoProof} /\ StoreType'
  BY Pruned DEF StoreType
<1>2. StoreTrue'
  BY <1>1, ClaimConstants, Numbers DEF StoreTrue, NoProof
<1>3. ASSUME window # 0, Closed PROVE Closed'
  <2>1. window \in Nonces
    BY <1>3 DEF TypeOK
  <2>2. CASE proof.nonce = window
    BY <1>3, <2>2, Pruned DEF Closed
  <2>3. CASE time > opened + WINDOW
    BY <2>3 DEF Closed
  <2>4. CASE consumed[window] > opened + WINDOW
    BY <2>1, <2>4, Pruned, Numbers DEF Closed
  <2> QED  BY <1>3, <2>2, <2>3, <2>4 DEF Closed
<1> QED  BY <1>1, <1>2, <1>3

\* A digest that is published (again): it is registered only when its nonce is taken
\* by nobody.
LEMMA RegisterKeeps ==
    ASSUME TypeOK, StoreTrue, NEW now \in Now, Register(now), window # 0,
           time <= opened + WINDOW, UNCHANGED <<time, device>>
    PROVE  /\ StoreType' /\ StoreTrue' /\ (Closed => Closed')
           /\ proof'.holder # None => proof' = proof
           /\ \A n, r : Taken(n, r) /\ r # None => (proof'.nonce = n => proof'.holder = r)
<1> USE DEF device
<1>1. window \in Nonces /\ routing \in MqttIds
  BY DEF TypeOK, StoreTrue
<1>2. CASE Refused(now)
  <2>1. proof' = LiveProof(now) /\ consumed' = LiveConsumed(now)
    BY <1>2 DEF Register
  <2>2. /\ StoreType' /\ StoreTrue' /\ proof' \in {proof, NoProof}
        /\ Closed => Closed'
    BY <2>1, PruneKeeps
  <2>3. NoProof.holder = None /\ NoProof.nonce = 0
    BY DEF NoProof
  <2>4. ASSUME NEW n, NEW r, Taken(n, r), proof'.nonce = n PROVE proof'.holder = r
    BY <2>2, <2>3, <2>4, ClaimConstants DEF Taken
  <2> QED  BY <2>2, <2>3, <2>4
<1>3. CASE ~Refused(now)
  <2>1. /\ proof' = [nonce |-> window, mqtt |-> routing, expires |-> now + TTL,
                     holder |-> None]
        /\ consumed' = LiveConsumed(now)
    BY <1>3 DEF Register
  <2>2. StoreType'
    BY <1>1, <2>1, Numbers, Pruned DEF StoreType, Proofs
  <2>3. now + TTL > opened + WINDOW
    BY Numbers, WindowAssumption DEF StoreTrue
  <2>4. StoreTrue'
    BY <1>1, <2>1, <2>3, Numbers DEF StoreTrue
  <2>5. Closed'
    BY <2>1 DEF Closed
  <2>6. ASSUME NEW n, NEW r, Taken(n, r), r # None, proof'.nonce = n PROVE FALSE
    <3>1. n = window /\ Closed
      BY <2>1, <2>6 DEF Taken
    <3>2. CASE proof.nonce = window
      <4>1. proof.holder = r
        BY <2>6, <3>1, <3>2 DEF Taken
      <4>2. LiveProof(now) = proof
        BY <1>1, <3>2, Numbers, Pruned, ClaimConstants
      <4> QED  BY <1>3, <2>6, <3>2, <4>1, <4>2 DEF Refused
    <3>3. CASE consumed[window] > opened + WINDOW
      <4>1. LiveConsumed(now)[window] = consumed[window]
        BY <1>1, <3>3, Numbers, Pruned
      <4>2. consumed[window] # 0
        BY <1>1, <3>3, Numbers
      <4> QED  BY <1>3, <4>1, <4>2 DEF Refused
    <3>4. ~(time > opened + WINDOW)
      BY Numbers
    <3> QED  BY <3>1, <3>2, <3>3, <3>4 DEF Closed
  <2> QED  BY <2>1, <2>2, <2>4, <2>5, <2>6
<1> QED  BY <1>2, <1>3

\* A reservation that is granted: the proof was free, and is kept.
LEMMA ReserveKeeps ==
    ASSUME TypeOK, StoreTrue, NEW r \in Requests, NEW n \in Nonces, NEW now \in Now,
           Reserve(r, n, now), Reservable(n, now), UNCHANGED <<time, device>>
    PROVE  /\ proof.nonce = n /\ proof.holder = None /\ LiveProof(now) = proof
           /\ proof' = [proof EXCEPT !.holder = r] /\ proof.mqtt \in MqttIds
           /\ StoreType' /\ StoreTrue' /\ (window # 0 /\ Closed => Closed')
           /\ Taken(n, r)'
<1> USE DEF device
<1>1. n # 0 /\ NoProof.nonce = 0
  BY Numbers DEF NoProof
<1>2. LiveProof(now) = proof
  BY <1>1, Pruned DEF Reservable
<1>3. /\ proof.nonce = n /\ proof.holder = None
      /\ proof' = [proof EXCEPT !.holder = r] /\ consumed' = LiveConsumed(now)
  BY <1>2 DEF Reservable, Reserve
<1>4. proof \in Proofs /\ proof.mqtt \in MqttIds
  BY <1>1, <1>3 DEF TypeOK, StoreTrue
<1>5. StoreType'
  BY <1>3, <1>4, Pruned DEF StoreType, Proofs
<1>6. /\ proof'.nonce = proof.nonce /\ proof'.holder = r /\ proof'.mqtt = proof.mqtt
      /\ proof'.expires = proof.expires
  BY <1>3, <1>4 DEF Proofs
<1>7. StoreTrue'
  BY <1>1, <1>3, <1>6 DEF StoreTrue
<1>8. ASSUME window # 0, Closed PROVE Closed'
  <2>1. window \in Nonces
    BY <1>8 DEF TypeOK
  <2> QED  BY <1>3, <1>6, <1>8, <2>1, Pruned, Numbers DEF Closed
<1>9. Taken(n, r)'
  <2>1. n <= window
    BY <1>3 DEF StoreTrue
  <2> QED  BY <1>3, <1>6, <2>1 DEF Taken, Closed
<1> QED  BY <1>2, <1>3, <1>4, <1>5, <1>7, <1>8, <1>9

\* A reservation that is refused leaves a pruned store.
LEMMA NoReserve ==
    ASSUME NEW r, NEW n, NEW now, Reserve(r, n, now), ~Reservable(n, now)
    PROVE  proof' = LiveProof(now) /\ consumed' = LiveConsumed(now)
  BY DEF Reserve

\* The proof of r is consumed: the digest stays known for as long as its window can
\* be published.
LEMMA CommitKeeps ==
    ASSUME TypeOK, StoreTrue, NEW r \in Requests, NEW now \in Now,
           Commit(r, now), Committable(r, now), UNCHANGED <<time, device>>
    PROVE  /\ proof.holder = r /\ proof' = NoProof
           /\ StoreType' /\ StoreTrue' /\ (window # 0 /\ Closed => Closed')
<1> USE DEF device
<1>1. r # None /\ NoProof.holder = None /\ NoProof.nonce = 0
  BY ClaimConstants DEF NoProof
<1>2. LiveProof(now) = proof /\ proof.holder = r
  BY <1>1, Pruned DEF Committable
<1>3. proof.nonce \in Nonces /\ proof.nonce # 0
  BY <1>1, <1>2 DEF TypeOK, Proofs, StoreTrue
<1>4. /\ proof' = NoProof
      /\ consumed' = [LiveConsumed(now) EXCEPT ![proof.nonce] = now + TTL]
  BY DEF Commit
<1>5. StoreType'
  BY <1>3, <1>4, NoProofType, Numbers, Pruned DEF StoreType
<1>6. StoreTrue'
  BY <1>1, <1>4, Numbers DEF StoreTrue, NoProof
<1>7. ASSUME window # 0, Closed PROVE Closed'
  <2>1. window \in Nonces
    BY <1>7 DEF TypeOK
  <2>2. CASE proof.nonce = window
    <3>1. consumed'[window] = now + TTL
      BY <1>3, <1>4, <2>2, Pruned
    <3>2. now + TTL > opened + WINDOW
      BY Numbers, WindowAssumption DEF StoreTrue
    <3> QED  BY <3>1, <3>2 DEF Closed
  <2>3. CASE time > opened + WINDOW
    BY <2>3 DEF Closed
  <2>4. CASE proof.nonce # window /\ consumed[window] > opened + WINDOW
    <3>1. consumed'[window] = LiveConsumed(now)[window]
      BY <1>4, <2>1, <2>4, Pruned
    <3> QED  BY <2>1, <2>4, <3>1, Pruned, Numbers DEF Closed
  <2> QED  BY <1>7, <2>2, <2>3, <2>4 DEF Closed
<1> QED  BY <1>2, <1>4, <1>5, <1>6, <1>7

LEMMA NoCommit ==
    ASSUME NEW r, NEW now, Commit(r, now), ~Committable(r, now)
    PROVE  proof' = LiveProof(now) /\ consumed' = LiveConsumed(now)
  BY DEF Commit

\* A reservation is given back by the request that holds it, if it still does.
LEMMA ReleaseKeeps ==
    ASSUME TypeOK, StoreTrue, NEW r \in Requests, Release(r), UNCHANGED <<time, device>>
    PROVE  /\ proof' = IF proof.holder = r THEN [proof EXCEPT !.holder = None] ELSE proof
           /\ StoreType' /\ StoreTrue' /\ (Closed => Closed')
           /\ proof'.nonce = proof.nonce /\ proof'.holder # r
<1> USE DEF device
<1>1. proof \in Proofs /\ r # None
  BY ClaimConstants DEF TypeOK
<1>2. /\ proof' = IF proof.holder = r THEN [proof EXCEPT !.holder = None] ELSE proof
      /\ consumed' = consumed
  BY DEF Release
<1>3. /\ proof'.nonce = proof.nonce /\ proof'.mqtt = proof.mqtt
      /\ proof'.expires = proof.expires /\ proof'.holder # r
      /\ proof'.holder # None => proof'.holder = proof.holder
      /\ proof' \in Proofs
  BY <1>1, <1>2 DEF Proofs
<1>4. StoreType'
  BY <1>2, <1>3 DEF StoreType, TypeOK
<1>5. StoreTrue'
  BY <1>3 DEF StoreTrue
<1> QED  BY <1>2, <1>3, <1>4, <1>5 DEF Closed
-----------------------------------------------------------------------------
(* Every step preserves the invariant.                                     *)

\* A step of another request, and one of the clock or the device, within a window.
LEMMA Frame ==
    ASSUME TypeOK, NEW q \in Requests, RequestInv(q), request'[q] = request[q],
           window' = window, window # 0 /\ Closed => Closed',
           Taken(request[q].nonce, q)
               => (proof'.nonce = request[q].nonce => proof'.holder = q),
           proof'.holder = q => proof.holder = q /\ proof'.nonce = proof.nonce,
           row.owner = request[q].user /\ request[q].user \in Users
               => row'.owner = request[q].user
    PROVE  RequestInv(q)'
<1>1. (Serves(q)' <=> Serves(q)) /\ (q \in Holding' <=> q \in Holding)
  BY DEF Serves, Holding
<1>2. ASSUME Serves(q)' PROVE Taken(request[q].nonce, q)'
  <2>1. Taken(request[q].nonce, q)
    BY <1>1, <1>2 DEF RequestInv
  <2>2. window # 0
    BY <2>1, Numbers DEF Taken
  <2> QED  BY <2>1, <2>2 DEF Taken
<1> QED  BY <1>1, <1>2 DEF RequestInv, Taken, Closed

\* The nonces of the requests stay their own.
LEMMA UseFrame ==
    ASSUME SingleUse,
           \A q \in Requests : Serves(q)' => Serves(q) /\ request'[q].nonce = request[q].nonce
    PROVE  SingleUse'
  BY DEF SingleUse, Serves, Holding

\* What every step within a window has to show.
LEMMA RequestStep ==
    ASSUME IInv, DeviceType', StoreType', RowType', RequestType', StoreTrue', SingleUse',
           \A q \in Requests : RequestInv(q)'
    PROVE  IInv'
  BY TypePartsNext DEF IInv

\* Time passes.
LEMMA TickStep ==
    ASSUME IInv, Tick
    PROVE  IInv'
<1> USE DEF Tick, device, store, IInv
<1>1. time' \in Times /\ time' > time
  BY Numbers DEF Times
<1>2. DeviceType' /\ StoreType' /\ RowType' /\ RequestType'
  BY <1>1, TypeParts DEF DeviceType, StoreType, RowType, RequestType
<1>3. StoreTrue'
  BY <1>1, Numbers, ClaimConstants DEF StoreTrue, Times
<1>4. Closed => Closed'
  BY <1>1, Numbers, ClaimConstants DEF Closed, Times
<1>5. ASSUME NEW q \in Requests PROVE RequestInv(q)'
  BY <1>4, Frame DEF Taken
<1>6. SingleUse'
  BY UseFrame DEF Serves, Holding
<1> QED  BY <1>2, <1>3, <1>5, <1>6, RequestStep

\* Another window is opened: no proof is of it yet.
LEMMA OpenWindowStep ==
    ASSUME IInv, OpenWindow
    PROVE  IInv'
<1> USE DEF OpenWindow, store, IInv
<1>1. DeviceType' /\ StoreType' /\ RowType' /\ RequestType'
  BY TypeParts DEF DeviceType, StoreType, RowType, RequestType
<1>2. window \in Nat /\ window' = window + 1 /\ opened' = time /\ time \in Nat
  BY Numbers
<1>3. StoreTrue'
  BY <1>2, Numbers DEF StoreTrue
<1>4. ASSUME NEW q \in Requests PROVE RequestInv(q)'
  <2>1. (Serves(q)' <=> Serves(q)) /\ (q \in Holding' <=> q \in Holding)
    BY DEF Serves, Holding
  <2>2. ASSUME Serves(q) PROVE Taken(request[q].nonce, q)'
    <3>1. Taken(request[q].nonce, q)
      BY <2>2 DEF RequestInv
    <3>2. request[q].nonce \in Nat /\ request[q].nonce <= window
      BY <3>1, Numbers DEF Taken
    <3> QED  BY <1>2, <3>1, <3>2 DEF Taken
  <2> QED  BY <2>1, <2>2 DEF RequestInv
<1>5. SingleUse'
  BY UseFrame DEF Serves, Holding
<1> QED  BY <1>1, <1>3, <1>4, <1>5, RequestStep

\* The digest of the window arrives.
LEMMA PublishStep ==
    ASSUME IInv, Publish
    PROVE  IInv'
<1> USE DEF Publish, device, IInv
<1>1. PICK now \in Now : Register(now)
  OBVIOUS
<1>2. /\ StoreType' /\ StoreTrue' /\ (Closed => Closed')
      /\ proof'.holder # None => proof' = proof
      /\ \A n, r : Taken(n, r) /\ r # None => (proof'.nonce = n => proof'.holder = r)
  BY <1>1, RegisterKeeps
<1>3. DeviceType' /\ RowType' /\ RequestType'
  BY TypeParts DEF DeviceType, RowType, RequestType
<1>4. ASSUME NEW q \in Requests PROVE RequestInv(q)'
  <2>1. q # None
    BY ClaimConstants
  <2> QED  BY <1>2, <2>1, Frame
<1>5. SingleUse'
  BY UseFrame DEF Serves, Holding
<1> QED  BY <1>2, <1>3, <1>4, <1>5, RequestStep

\* A method of the store that only prunes, for the request r that comes to an end or
\* goes on without a reservation.
LEMMA PruneStep ==
    ASSUME IInv, NEW r \in Requests, NEW now \in Now, NEW state \in States,
           proof' = LiveProof(now), consumed' = LiveConsumed(now),
           request' = [request EXCEPT ![r] = state],
           \/ state.pc = "answered" /\ state.answer = "conflict" /\ proof.holder # r
           \/ /\ state.pc \in {"failed", "lost"} /\ state.answer = None
              /\ request[r].pc \in {"reserved", "stored"}
              /\ state.mqtt = request[r].mqtt /\ state.nonce = request[r].nonce,
           state.kind = "claim" => state.user \in Users,
           state.kind = "claim" /\ state.pc = "lost" => row.owner = state.user,
           UNCHANGED <<time, device, row>>
    PROVE  IInv'
<1> USE ClaimConstants, NoneIsNothing DEF device, IInv
<1>1. /\ StoreType' /\ StoreTrue' /\ proof' \in {proof, NoProof}
      /\ window # 0 /\ Closed => Closed'
  BY PruneKeeps
<1>2. NoProof.holder = None /\ NoProof.nonce = 0
  BY DEF NoProof
<1>3. /\ request'[r] = state /\ RequestType'
      /\ \A q \in Requests \ {r} : request'[q] = request[q]
  BY DEF TypeOK, RequestType
<1>4. DeviceType' /\ RowType'
  BY TypeParts DEF DeviceType, RowType
<1>5. ASSUME NEW q \in Requests \ {r} PROVE RequestInv(q)'
  BY <1>1, <1>2, <1>3, Frame DEF Taken
<1>6. Serves(r)' => Serves(r) /\ state.nonce = request[r].nonce
  BY <1>3 DEF Serves, Holding, Answers
<1>7. RequestInv(r)'
  <2>1. Serves(r)' => Taken(state.nonce, r)'
    <3>1. SUFFICES ASSUME Serves(r)' PROVE Taken(state.nonce, r)'
      OBVIOUS
    <3>2. Taken(state.nonce, r)
      BY <1>6, <3>1 DEF RequestInv
    <3>3. window # 0 /\ state.nonce # 0
      BY <3>2, TakenNonce
    <3> QED  BY <1>1, <1>2, <3>2, <3>3 DEF Taken
  <2>2. proof'.holder = r => r \in Holding' /\ state.nonce = proof'.nonce
    BY <1>1, <1>2, <1>3 DEF RequestInv, Holding
  <2>3. state.answer # None => state.pc = "answered"
    OBVIOUS
  <2>4. state.kind = "claim" =>
          /\ state.user \in Users
          /\ state.pc \in {"stored", "lost"} \/ state.answer \in {"ok", "error"}
                => row'.owner = state.user
    BY DEF Answers
  <2> QED  BY <1>3, <2>1, <2>2, <2>3, <2>4 DEF RequestInv
<1>8. SingleUse'
  BY <1>3, <1>6, UseFrame DEF Serves, Holding
<1> QED  BY <1>1, <1>3, <1>4, <1>5, <1>7, <1>8, RequestStep

\* The request r gets the reservation: nobody has had the nonce before.
LEMMA GrantStep ==
    ASSUME IInv, NEW r \in Requests, NEW n \in Nonces, NEW now \in Now,
           NEW state \in States, Reserve(r, n, now), Reservable(n, now),
           request' = [request EXCEPT ![r] = state],
           state.nonce = n, state.mqtt = LiveProof(now).mqtt, state.answer = None,
           state.pc \in {"reserved", "failed"}, ~Serves(r),
           state.kind = "claim" => state.user \in Users,
           UNCHANGED <<time, device, row>>
    PROVE  IInv'
<1> USE ClaimConstants, NoneIsNothing DEF device, IInv
<1>1. /\ proof.nonce = n /\ proof.holder = None /\ LiveProof(now) = proof
      /\ proof' = [proof EXCEPT !.holder = r] /\ proof.mqtt \in MqttIds
      /\ StoreType' /\ StoreTrue' /\ (window # 0 /\ Closed => Closed')
      /\ Taken(n, r)'
  BY ReserveKeeps
<1>2. proof'.holder = r /\ proof'.nonce = n
  BY <1>1 DEF TypeOK, Proofs
<1>3. /\ request'[r] = state /\ RequestType'
      /\ \A q \in Requests \ {r} : request'[q] = request[q]
  BY DEF TypeOK, RequestType
<1>4. DeviceType' /\ RowType'
  BY TypeParts DEF DeviceType, RowType
<1>5. ASSUME NEW q \in Requests, Serves(q) PROVE request[q].nonce # n
  BY <1>1, <1>5 DEF RequestInv, Taken
<1>6. ASSUME NEW q \in Requests \ {r} PROVE RequestInv(q)'
  <2>1. Taken(request[q].nonce, q) => request[q].nonce # n
    BY <1>1 DEF Taken
  <2> QED  BY <1>1, <1>2, <1>3, <2>1, Frame
<1>7. RequestInv(r)'
  <2>1. r \in Holding'
    BY <1>1, <1>3 DEF Holding
  <2> QED  BY <1>1, <1>2, <1>3, <2>1, NoneIsNothing DEF RequestInv, Answers
<1>8. SingleUse'
  <2>1. \A q \in Requests \ {r} : Serves(q)' => Serves(q) /\ request'[q].nonce # n
    BY <1>3, <1>5 DEF Serves, Holding
  <2>2. ASSUME NEW r1 \in Requests, NEW r2 \in Requests, Serves(r1)', Serves(r2)',
               request'[r1].nonce = request'[r2].nonce
        PROVE  r1 = r2
    <3>1. CASE r1 = r
      BY <1>3, <2>1, <2>2, <3>1
    <3>2. CASE r2 = r
      BY <1>3, <2>1, <2>2, <3>2
    <3>3. CASE r1 # r /\ r2 # r
      BY <1>3, <2>1, <2>2, <3>3 DEF SingleUse, Serves, Holding
    <3> QED  BY <3>1, <3>2, <3>3
  <2> QED  BY <2>2 DEF SingleUse, Serves, Holding
<1> QED  BY <1>1, <1>3, <1>4, <1>6, <1>7, <1>8, RequestStep

\* The request r has the proof consumed.
LEMMA ConsumeStep ==
    ASSUME IInv, NEW r \in Requests, NEW now \in Now, Commit(r, now), Committable(r, now),
           request' = Answered(r, "ok"),
           request[r].kind = "claim" => row.owner = request[r].user,
           UNCHANGED <<time, device, row>>
    PROVE  IInv'
<1> USE ClaimConstants, NoneIsNothing DEF device, IInv
<1>1. /\ proof.holder = r /\ proof' = NoProof
      /\ StoreType' /\ StoreTrue' /\ (window # 0 /\ Closed => Closed')
  BY CommitKeeps
<1>2. NoProof.holder = None /\ NoProof.nonce = 0
  BY DEF NoProof
<1>3. /\ request'[r] = [request[r] EXCEPT !.pc = "answered", !.answer = "ok"]
      /\ request[r] \in States
      /\ \A q \in Requests \ {r} : request'[q] = request[q]
  BY DEF TypeOK, Answered
<1>4. /\ request'[r].pc = "answered" /\ request'[r].answer = "ok"
      /\ request'[r].nonce = request[r].nonce /\ request'[r].kind = request[r].kind
      /\ request'[r].user = request[r].user
  BY <1>3 DEF States
<1>5. RequestType'
  <2>1. [request[r] EXCEPT !.pc = "answered", !.answer = "ok"] \in States
    BY <1>3 DEF States, Steps, Answers
  <2> QED  BY <2>1 DEF TypeOK, RequestType, Answered
<1>6. DeviceType' /\ RowType'
  BY TypeParts DEF DeviceType, RowType
<1>7. ASSUME NEW q \in Requests \ {r} PROVE RequestInv(q)'
  BY <1>1, <1>2, <1>3, Numbers, Frame DEF Taken
<1>8. Serves(r) /\ Taken(request[r].nonce, r)
  BY <1>1 DEF RequestInv, Serves
<1>9. RequestInv(r)'
  <2>1. window # 0 /\ request[r].nonce # 0
    BY <1>8, TakenNonce
  <2>2. Taken(request[r].nonce, r)'
    BY <1>1, <1>2, <1>4, <1>8, <2>1 DEF Taken
  <2> QED  BY <1>1, <1>2, <1>4, <2>2 DEF RequestInv
<1>10. SingleUse'
  BY <1>3, <1>4, <1>8, UseFrame DEF Serves, Holding
<1> QED  BY <1>1, <1>5, <1>6, <1>7, <1>9, <1>10, RequestStep

\* The request r goes on and leaves the store alone: it keeps what it holds, or begins
\* without anything.
LEMMA MoveStep ==
    ASSUME IInv, NEW r \in Requests, NEW state \in States,
           request' = [request EXCEPT ![r] = state], state.answer = None,
           \/ /\ request[r].pc = "reserved" /\ state.pc \in {"stored", "failed"}
              /\ state.mqtt = request[r].mqtt /\ state.nonce = request[r].nonce
           \/ request[r].pc = "idle" /\ state.pc = "checking" /\ state.nonce \in Nonces,
           state.kind = "claim" => state.user \in Users,
           state.kind = "claim" /\ state.pc = "stored" => row'.owner = state.user,
           RowType',
           \A q \in Requests \ {r} : row.owner = request[q].user /\ request[q].user \in Users
               => row'.owner = request[q].user,
           UNCHANGED <<time, device, store>>
    PROVE  IInv'
<1> USE NoneIsNothing DEF device, store, IInv
<1>1. DeviceType' /\ StoreType' /\ StoreTrue' /\ (Closed => Closed')
  BY TypeParts DEF DeviceType, StoreType, StoreTrue, Closed
<1>2. /\ request'[r] = state /\ RequestType'
      /\ \A q \in Requests \ {r} : request'[q] = request[q]
  BY DEF TypeOK, RequestType
<1>3. ASSUME NEW q \in Requests \ {r} PROVE RequestInv(q)'
  BY <1>1, <1>2, Frame DEF Taken
<1>4. Serves(r)' => Serves(r) /\ state.nonce = request[r].nonce
  BY <1>2 DEF Serves, Holding, Answers
<1>5. RequestInv(r)'
  <2>1. Serves(r)' => Taken(state.nonce, r)'
    BY <1>1, <1>4 DEF RequestInv, Taken
  <2>2. proof'.holder = r => r \in Holding' /\ state.nonce = proof'.nonce
    BY <1>2 DEF RequestInv, Holding
  <2> QED  BY <1>2, <2>1, <2>2 DEF RequestInv, Answers
<1>6. SingleUse'
  BY <1>2, <1>4, UseFrame DEF Serves, Holding
<1> QED  BY <1>1, <1>2, <1>3, <1>5, <1>6, RequestStep

\* A request that has no reservation yet.
LEMMA Unserved ==
    ASSUME IInv, NEW r \in Requests, request[r].pc \in {"idle", "checking"}
    PROVE  ~Serves(r) /\ proof.holder # r
  BY NoneIsNothing DEF IInv, RequestInv, Serves, Holding, Answers

\* The states that requests are given.
LEMMA RequestStates ==
    ASSUME TypeOK, NEW r \in Requests
    PROVE  /\ request[r] \in States
           /\ \A p \in Steps :
                /\ [request[r] EXCEPT !.pc = p] \in States
                /\ \A a \in Answers :
                     [request[r] EXCEPT !.pc = p, !.answer = a] \in States
                /\ \A m \in MqttIds :
                     [request[r] EXCEPT !.mqtt = m, !.pc = p] \in States
<1>1. request[r] \in States
  BY DEF TypeOK
<1> QED  BY <1>1 DEF States

\* A claim begins with the reservation of its proof.
LEMMA BeginClaimStep ==
    ASSUME IInv, NEW r \in Requests, NEW u \in Users, NEW n \in Nonces, BeginClaim(r, u, n)
    PROVE  IInv'
<1> USE ClaimConstants, NoneIsNothing DEF BeginClaim
<1> DEFINE State(now) ==
             [NoRequest EXCEPT
                !.kind = "claim", !.user = u, !.nonce = n,
                !.mqtt = IF Reservable(n, now) THEN LiveProof(now).mqtt ELSE None,
                !.pc = IF Reservable(n, now) THEN "reserved" ELSE "answered",
                !.answer = IF Reservable(n, now) THEN None ELSE "conflict"]
<1>1. PICK now \in Now : Reserve(r, n, now) /\ request' = [request EXCEPT ![r] = State(now)]
  OBVIOUS
<1>2. ~Serves(r) /\ proof.holder # r
  BY Unserved
<1>3. LiveProof(now).mqtt \in MqttIds \cup {None}
  BY Pruned DEF IInv, Proofs
<1>4. /\ State(now) \in States /\ State(now).kind = "claim" /\ State(now).user = u
      /\ State(now).nonce = n
      /\ Reservable(n, now) => /\ State(now).mqtt = LiveProof(now).mqtt
                               /\ State(now).pc = "reserved" /\ State(now).answer = None
      /\ ~Reservable(n, now) => State(now).pc = "answered" /\ State(now).answer = "conflict"
  BY <1>3 DEF NoRequest, States, Steps, Kinds, Answers
<1> HIDE DEF State
<1>5. CASE Reservable(n, now)
  BY <1>1, <1>2, <1>4, <1>5, GrantStep
<1>6. CASE ~Reservable(n, now)
  <2>1. proof' = LiveProof(now) /\ consumed' = LiveConsumed(now)
    BY <1>1, <1>6, NoReserve
  <2> QED  BY <1>1, <1>2, <1>4, <1>6, <2>1, PruneStep
<1> QED  BY <1>5, <1>6

\* The row is written for a user who may own the device.
LEMMA StoreClaimStep ==
    ASSUME IInv, NEW r \in Requests, StoreClaim(r)
    PROVE  IInv'
<1> USE ClaimConstants DEF StoreClaim
<1> DEFINE state == [request[r] EXCEPT !.pc = "stored"]
<1>1. request[r] \in States /\ state \in States
  BY RequestStates DEF IInv, Steps
<1>2. /\ state.pc = "stored" /\ state.kind = request[r].kind /\ state.mqtt = request[r].mqtt
      /\ state.nonce = request[r].nonce /\ state.user = request[r].user
      /\ state.answer = request[r].answer
  BY <1>1 DEF States
<1>3. request' = [request EXCEPT ![r] = state]
  BY DEF IInv, TypeOK
<1>4. request[r].user \in Users /\ request[r].answer = None
  BY NoneIsNothing DEF IInv, RequestInv
<1>5. RowType' /\ row'.owner = request[r].user
  BY <1>1, <1>4 DEF RowType, States
<1>6. \A q \in Requests \ {r} : row.owner = request[q].user /\ request[q].user \in Users
        => row'.owner = request[q].user
  BY <1>5 DEF MayOwn
<1> HIDE DEF state
<1> QED  BY <1>1, <1>2, <1>3, <1>4, <1>5, <1>6, MoveStep

\* The transaction of the claim fails.
LEMMA ClaimFailsStep ==
    ASSUME IInv, NEW r \in Requests, ClaimFails(r)
    PROVE  IInv'
<1> USE ClaimConstants DEF ClaimFails
<1> DEFINE state == [request[r] EXCEPT !.pc = "failed"]
<1>1. request[r] \in States /\ state \in States
  BY RequestStates DEF IInv, Steps
<1>2. /\ state.pc = "failed" /\ state.kind = request[r].kind /\ state.mqtt = request[r].mqtt
      /\ state.nonce = request[r].nonce /\ state.user = request[r].user
      /\ state.answer = request[r].answer
  BY <1>1 DEF States
<1>3. request' = [request EXCEPT ![r] = state]
  BY DEF IInv, TypeOK
<1>4. request[r].user \in Users /\ request[r].answer = None
  BY NoneIsNothing DEF IInv, RequestInv
<1>5. RowType' /\ row' = row
  BY TypeParts DEF RowType, IInv
<1> HIDE DEF state
<1> QED  BY <1>1, <1>2, <1>3, <1>4, <1>5, MoveStep

\* The proof of the claim is consumed, or its reservation was lost.
LEMMA ConfirmClaimStep ==
    ASSUME IInv, NEW r \in Requests, ConfirmClaim(r)
    PROVE  IInv'
<1> USE ClaimConstants, NoneIsNothing DEF ConfirmClaim
<1> DEFINE state == [request[r] EXCEPT !.pc = "lost"]
<1>1. PICK now \in Now :
        /\ Commit(r, now)
        /\ request' = IF Committable(r, now) THEN Answered(r, "ok")
                      ELSE [request EXCEPT ![r].pc = "lost"]
  OBVIOUS
<1>2. request[r] \in States /\ state \in States
  BY RequestStates DEF IInv, Steps
<1>3. /\ state.pc = "lost" /\ state.kind = request[r].kind /\ state.mqtt = request[r].mqtt
      /\ state.nonce = request[r].nonce /\ state.user = request[r].user
      /\ state.answer = request[r].answer
  BY <1>2 DEF States
<1>4. /\ request[r].kind = "claim" =>
           request[r].user \in Users /\ row.owner = request[r].user
      /\ request[r].answer = None
  BY DEF IInv, RequestInv
<1>5. CASE Committable(r, now)
  BY <1>1, <1>4, <1>5, ConsumeStep
<1>6. CASE ~Committable(r, now)
  <2>1. proof' = LiveProof(now) /\ consumed' = LiveConsumed(now)
    BY <1>1, <1>6, NoCommit
  <2>2. request' = [request EXCEPT ![r] = state]
    BY <1>1, <1>6 DEF IInv, TypeOK
  <2> HIDE DEF state
  <2> QED  BY <1>2, <1>3, <1>4, <2>1, <2>2, PruneStep
<1> QED  BY <1>5, <1>6

\* The reservation is given back and the caller told.
LEMMA ReleaseAndAnswerStep ==
    ASSUME IInv, NEW r \in Requests, ReleaseAndAnswer(r)
    PROVE  IInv'
<1> USE ClaimConstants, NoneIsNothing DEF device, IInv, ReleaseAndAnswer
<1> DEFINE a     == IF request[r].pc = "lost" THEN "error" ELSE "conflict"
           state == [request[r] EXCEPT !.pc = "answered", !.answer = a]
<1>1. request[r] \in States /\ state \in States /\ a \in Answers
  BY RequestStates DEF Steps, Answers
<1>2. /\ state.pc = "answered" /\ state.answer = a /\ state.kind = request[r].kind
      /\ state.user = request[r].user
  BY <1>1 DEF States
<1>3. /\ request'[r] = state /\ RequestType'
      /\ \A q \in Requests \ {r} : request'[q] = request[q]
  BY <1>1 DEF TypeOK, RequestType, Answered
<1>4. /\ proof' = IF proof.holder = r THEN [proof EXCEPT !.holder = None] ELSE proof
      /\ StoreType' /\ StoreTrue' /\ (Closed => Closed')
      /\ proof'.nonce = proof.nonce /\ proof'.holder # r
  BY ReleaseKeeps
<1>5. DeviceType' /\ RowType'
  BY TypeParts DEF DeviceType, RowType
<1>6. ~Serves(r)'
  <2>1. a # "ok"
    OBVIOUS
  <2> HIDE DEF a, state
  <2>2. request'[r].pc = "answered" /\ request'[r].answer # "ok"
    BY <1>2, <1>3, <2>1
  <2> QED  BY <2>2 DEF Serves, Holding
<1>7. proof'.holder \in {proof.holder, None} /\ (proof.holder # r => proof' = proof)
  BY <1>4 DEF TypeOK, Proofs
<1>8. ASSUME NEW q \in Requests \ {r} PROVE RequestInv(q)'
  <2>1. Taken(request[q].nonce, q)
          => (proof'.nonce = request[q].nonce => proof'.holder = q)
    BY <1>4, <1>7 DEF Taken
  <2>2. proof'.holder = q => proof.holder = q /\ proof'.nonce = proof.nonce
    BY <1>4, <1>7
  <2> QED  BY <1>3, <1>4, <2>1, <2>2, Frame
<1>9. RequestInv(r)'
  <2>1. state.kind = "claim" =>
          /\ state.user \in Users
          /\ state.answer \in {"ok", "error"} => row'.owner = state.user
    BY <1>2 DEF RequestInv
  <2> QED  BY <1>2, <1>3, <1>4, <1>6, <2>1 DEF RequestInv
<1>10. SingleUse'
  BY <1>3, <1>6, UseFrame DEF Serves, Holding
<1> QED  BY <1>3, <1>4, <1>5, <1>8, <1>9, <1>10, RequestStep

\* A challenge reads who owns the device.
LEMMA BeginChallengeStep ==
    ASSUME IInv, NEW r \in Requests, NEW u \in Users, NEW n \in Nonces,
           BeginChallenge(r, u, n)
    PROVE  IInv'
<1> USE ClaimConstants DEF BeginChallenge
<1> DEFINE state == [NoRequest EXCEPT !.kind = "challenge", !.pc = "checking", !.user = u,
                                      !.nonce = n, !.seen = row.mqtt]
<1>1. row.mqtt \in MqttIds \cup {None}
  BY DEF IInv, TypeOK
<1>2. /\ state \in States /\ state.pc = "checking" /\ state.kind = "challenge"
      /\ state.answer = None /\ state.nonce \in Nonces
  BY <1>1 DEF NoRequest, States, Steps, Kinds
<1>3. RowType' /\ row' = row
  BY TypeParts DEF RowType, IInv
<1>4. request' = [request EXCEPT ![r] = state]
  OBVIOUS
<1> HIDE DEF state
<1> QED  BY <1>2, <1>3, <1>4, MoveStep

\* The challenge reserves the proof and compares the routing identity.
LEMMA ReserveForChallengeStep ==
    ASSUME IInv, NEW r \in Requests, ReserveForChallenge(r)
    PROVE  IInv'
<1> USE ClaimConstants, NoneIsNothing DEF ReserveForChallenge
<1> DEFINE n == request[r].nonce
<1>1. PICK now \in Now :
        LET m == LiveProof(now).mqtt IN
        /\ Reserve(r, n, now)
        /\ request' =
             IF ~Reservable(n, now) THEN Answered(r, "conflict")
             ELSE [request EXCEPT
                     ![r].mqtt = m,
                     ![r].pc = IF m = request[r].seen THEN "reserved" ELSE "failed"]
  OBVIOUS
<1>2. request[r] \in States /\ request[r].answer = None
  BY RequestStates DEF IInv, RequestInv
<1>3. ~Serves(r) /\ proof.holder # r
  BY Unserved
<1>4. request[r].kind = "claim" => request[r].user \in Users
  BY DEF IInv, RequestInv
<1>5. CASE Reservable(n, now) /\ n # 0
  <2> DEFINE m     == LiveProof(now).mqtt
             p     == IF m = request[r].seen THEN "reserved" ELSE "failed"
             state == [request[r] EXCEPT !.mqtt = m, !.pc = p]
  <2>1. n \in Nonces
    BY <1>2, <1>5 DEF States
  <2>2. m \in MqttIds
    BY <1>1, <1>5, <2>1, ReserveKeeps DEF IInv
  <2>3. p \in Steps /\ p \in {"reserved", "failed"}
    BY DEF Steps
  <2>4. request' = [request EXCEPT ![r] = state]
    BY <1>1, <1>5 DEF IInv, TypeOK
  <2> HIDE DEF p
  <2>5. state \in States
    BY <2>2, <2>3, RequestStates DEF IInv
  <2>6. /\ state.pc = p /\ state.mqtt = m /\ state.kind = request[r].kind
        /\ state.nonce = n /\ state.user = request[r].user
        /\ state.answer = request[r].answer
    BY <1>2 DEF States
  <2> HIDE DEF state
  <2> QED  BY <1>1, <1>2, <1>3, <1>4, <1>5, <2>1, <2>3, <2>4, <2>5, <2>6, GrantStep
<1>6. CASE ~Reservable(n, now)
  <2> DEFINE state == [request[r] EXCEPT !.pc = "answered", !.answer = "conflict"]
  <2>1. proof' = LiveProof(now) /\ consumed' = LiveConsumed(now)
    BY <1>1, <1>6, NoReserve
  <2>2. state \in States
    BY RequestStates DEF IInv, Steps, Answers
  <2>3. /\ state.pc = "answered" /\ state.answer = "conflict"
        /\ state.kind = request[r].kind /\ state.user = request[r].user
    BY <1>2 DEF States
  <2>4. request' = [request EXCEPT ![r] = state]
    BY <1>1, <1>6 DEF Answered, IInv, TypeOK
  <2> HIDE DEF state
  <2> QED  BY <1>3, <1>4, <2>1, <2>2, <2>3, <2>4, PruneStep
<1>7. n # 0
  BY Numbers DEF IInv, RequestInv
<1> QED  BY <1>5, <1>6, <1>7

\* The proof of the challenge is consumed, or its reservation was lost.
LEMMA ConfirmChallengeStep ==
    ASSUME IInv, NEW r \in Requests, ConfirmChallenge(r)
    PROVE  IInv'
<1> USE ClaimConstants, NoneIsNothing DEF ConfirmChallenge
<1> DEFINE state == [request[r] EXCEPT !.pc = "failed"]
<1>1. PICK now \in Now :
        /\ Commit(r, now)
        /\ request' = IF Committable(r, now) THEN Answered(r, "ok")
                      ELSE [request EXCEPT ![r].pc = "failed"]
  OBVIOUS
<1>2. request[r] \in States /\ state \in States
  BY RequestStates DEF IInv, Steps
<1>3. /\ state.pc = "failed" /\ state.kind = request[r].kind /\ state.mqtt = request[r].mqtt
      /\ state.nonce = request[r].nonce /\ state.user = request[r].user
      /\ state.answer = request[r].answer
  BY <1>2 DEF States
<1>4. request[r].kind # "claim" /\ request[r].answer = None
  BY DEF IInv, RequestInv
<1>5. CASE Committable(r, now)
  BY <1>1, <1>4, <1>5, ConsumeStep
<1>6. CASE ~Committable(r, now)
  <2>1. proof' = LiveProof(now) /\ consumed' = LiveConsumed(now)
    BY <1>1, <1>6, NoCommit
  <2>2. request' = [request EXCEPT ![r] = state]
    BY <1>1, <1>6 DEF IInv, TypeOK
  <2> HIDE DEF state
  <2> QED  BY <1>2, <1>3, <1>4, <2>1, <2>2, PruneStep
<1> QED  BY <1>5, <1>6
-----------------------------------------------------------------------------
(* The theorems.                                                           *)

\* The initial state satisfies the invariant.
THEOREM InitInvariant == Init => IInv
<1> SUFFICES ASSUME Init PROVE IInv
  OBVIOUS
<1> USE ClaimConstants, NoneIsNothing DEF Init
<1>1. DeviceType /\ StoreType /\ RowType /\ RequestType
  <2>1. NoRequest \in States
    BY DEF NoRequest, States, Steps
  <2> QED  BY <2>1, NoProofType DEF DeviceType, StoreType, RowType, RequestType, Times, NoRow
<1>2. StoreTrue
  BY DEF StoreTrue, NoProof
<1>3. ASSUME NEW r \in Requests PROVE ~Serves(r) /\ RequestInv(r)
  BY DEF RequestInv, Serves, Holding, NoRequest, NoProof, Kinds, Answers
<1>4. SingleUse
  BY <1>3 DEF SingleUse, Serves, Holding
<1> QED  BY <1>1, <1>2, <1>3, <1>4, TypeParts DEF IInv

\* Every step preserves the invariant.
THEOREM StepInvariant == IInv /\ [Next]_vars => IInv'
<1> SUFFICES ASSUME IInv, [Next]_vars PROVE IInv'
  OBVIOUS
<1>1. CASE UNCHANGED vars
  <2> USE <1>1 DEF vars, device, store, IInv
  <2>1. DeviceType' /\ StoreType' /\ RowType' /\ RequestType' /\ StoreTrue' /\ Closed' = Closed
    BY TypeParts DEF DeviceType, StoreType, RowType, RequestType, StoreTrue, Closed
  <2>2. ASSUME NEW q \in Requests PROVE RequestInv(q)'
    BY <2>1, Frame DEF Taken
  <2>3. SingleUse'
    BY UseFrame DEF Serves, Holding
  <2> QED  BY <2>1, <2>2, <2>3, RequestStep
<1>2. CASE Tick
  BY <1>2, TickStep
<1>3. CASE OpenWindow
  BY <1>3, OpenWindowStep
<1>4. CASE Publish
  BY <1>4, PublishStep
<1>5. ASSUME NEW r \in Requests, NEW u \in Users, NEW n \in Nonces,
             BeginClaim(r, u, n) \/ BeginChallenge(r, u, n)
      PROVE  IInv'
  BY <1>5, BeginClaimStep, BeginChallengeStep
<1>6. ASSUME NEW r \in Requests,
             \/ StoreClaim(r) \/ ClaimFails(r) \/ ConfirmClaim(r) \/ ReleaseAndAnswer(r)
             \/ ReserveForChallenge(r) \/ ConfirmChallenge(r)
      PROVE  IInv'
  BY <1>6, StoreClaimStep, ClaimFailsStep, ConfirmClaimStep, ReleaseAndAnswerStep,
     ReserveForChallengeStep, ConfirmChallengeStep
<1> QED  BY <1>1, <1>2, <1>3, <1>4, <1>5, <1>6 DEF Next

\* The invariant holds in every state of every execution.
THEOREM Inductive == Spec => []IInv
  BY InitInvariant, StepInvariant, PTL DEF Spec

\* Every variable keeps its type.
THEOREM TypeCorrect == Spec => []TypeOK
<1>1. IInv => TypeOK
  BY DEF IInv
<1> QED  BY <1>1, Inductive, PTL

\* A digest serves one claim or one challenge, whatever clocks the methods of the
\* ClaimProofStore read before they got the lock, whenever reservations expire and
\* however often the digest is published.
THEOREM SingleUseCorrect == Spec => []SingleUse
<1>1. IInv => SingleUse
  BY DEF IInv
<1> QED  BY <1>1, Inductive, PTL

\* No reservation is left behind by the routes, and whoever was told of a claim that
\* succeeded, or that lost its reservation, owns the device.
THEOREM AnswersCorrect == Spec => []AnswersAgree
<1>1. IInv => AnswersAgree
  <2> SUFFICES ASSUME IInv PROVE AnswersAgree
    OBVIOUS
  <2>1. proof.holder # None => proof.holder \in Requests
    BY DEF IInv, TypeOK, Proofs
  <2>2. proof.holder # None => proof.holder \in Holding
    BY <2>1 DEF IInv, RequestInv
  <2>3. ASSUME NEW r \in Requests, request[r].kind = "claim",
               request[r].answer \in {"ok", "error"}
        PROVE  row.owner = request[r].user
    BY <2>3 DEF IInv, RequestInv
  <2> QED  BY <2>2, <2>3 DEF AnswersAgree
<1> QED  BY <1>1, Inductive, PTL
=============================================================================
