--------------------------- MODULE AccountsProofs ---------------------------
(***************************************************************************)
(* Proofs about Accounts: a code is stored only when it was mailed, wrong  *)
(* codes are rationed over the life of a registration, and a refresh token *)
(* is exchanged at most once, for any number of requests, codes, sessions  *)
(* and any clock.                                                          *)
(***************************************************************************)
EXTENDS Accounts, FiniteSetTheorems, TLAPS

Mailing == {"mailing", "mailed"}
Holding == {"rotating", "revoking"}

\* The transaction that holds the verification row is the one that sends a mail,
\* and it commits a code that left.
LetterTrue(r) ==
    /\ holder = r <=> request[r].pc \in Mailing
    /\ request[r].pc \in Mailing => request[r].arg \in Codes
    /\ request[r].pc = "mailed" => request[r].arg \in mailed

\* A request that rotates or revokes holds its session; the one it rotates is
\* still active; the sessions it is going to revoke exist.
SessionTrue(r) ==
    /\ \A s \in Sessions :
         rowLock[s] = r <=> request[r].pc \in Holding /\ request[r].arg = s
    /\ request[r].pc = "rotating" =>
         request[r].arg \in Sessions /\ sessions[request[r].arg] = "active"
    /\ request[r].pc \in {"revoking", "reuse"} => request[r].live \subseteq Used
    /\ request[r].pc = "reuse" => \A s \in request[r].live : sessions[s] = "revoked"

RequestInv(r) == request[r].now <= time /\ LetterTrue(r) /\ SessionTrue(r)

\* Nothing is kept of an address before it is registered.
BeforeAccount == account = "none" => row = None /\ guesses = 0

\* A row that has no window of failures counts none, and a full count locks it until
\* its window is over.
Locking ==
    row # None =>
        /\ row.failedFrom = None => row.attempts = 0
        /\ row.failedFrom # None /\ row.attempts = MAX_FAILED
              => row.lockedUntil = row.failedFrom + FAILED_WINDOW

\* The guesses that the current window of failures leaves out of count were made in
\* earlier ones, which the lock keeps FAILED_WINDOW apart.
Counted ==
    account = "pending" =>
        IF row.failedFrom = None THEN guesses = 0
        ELSE /\ row.failedFrom <= time
             /\ guesses <= MAX_FAILED * (row.failedFrom \div FAILED_WINDOW) + row.attempts

Rationed == Locking /\ Counted

\* The sessions are inserted one after the other, and each was exchanged for one
\* that is revoked since.
Chains ==
    /\ \E n \in 0 .. MaxSessions : Used = 1 .. n
    /\ \A t \in Sessions : parent[t] # 0 =>
         sessions[t] # None /\ sessions[parent[t]] = "revoked"
    /\ \A t, u \in Sessions : parent[t] = parent[u] /\ parent[t] # 0 => t = u

IInv ==
    /\ TypeOK
    /\ \A r \in Requests : RequestInv(r)
    /\ CodeWasMailed /\ BeforeAccount /\ Rationed /\ GuessesBounded /\ Chains
-----------------------------------------------------------------------------
(* Lemmas.                                                                 *)

\* A window later, the count of the windows is one more.
LEMMA Windows ==
    ASSUME NEW x \in Nat, NEW y \in Nat, NEW w \in Nat \ {0}, NEW k \in Nat
    PROVE  /\ x \div w \in Nat
           /\ x <= y => x \div w <= y \div w /\ k * (x \div w) <= k * (y \div w)
           /\ x + w <= y => k * (x \div w) + k <= k * (y \div w)
           /\ k * (x \div w + 1) = k * (x \div w) + k
<1>1. x \div w \in Nat /\ y \div w \in Nat /\ (x + w) \div w = x \div w + 1
  OBVIOUS
<1>2. ASSUME NEW a \in Nat, NEW b \in Nat, a <= b
      PROVE  k * a <= k * b
  BY <1>2
<1>3. x <= y => x \div w <= y \div w
  OBVIOUS
<1>4. x + w <= y => (x + w) \div w <= y \div w
  OBVIOUS
<1>5. ASSUME NEW a \in Nat
      PROVE  k * (a + 1) = k * a + k
  OBVIOUS
<1>6. k * (x \div w + 1) = k * (x \div w) + k
  BY <1>1, <1>5
<1>7. x + w <= y => k * (x \div w + 1) <= k * (y \div w)
  BY <1>1, <1>2, <1>4
<1> QED  BY <1>1, <1>2, <1>3, <1>6, <1>7

\* The parts of TypeOK that steps prove one by one.
ActiveType == active \in BOOLEAN
AddressType ==
    /\ time \in Times /\ account \in {"none", "pending", "verified"} /\ guesses \in Nat
LetterType ==
    /\ row \in Rows \cup {None} /\ holder \in Requests \cup {None}
    /\ codes \in 0 .. MaxCodes /\ mailed \subseteq Codes
TableType ==
    /\ sessions \in [Sessions -> {None, "active", "revoked"}]
    /\ parent \in [Sessions -> 0 .. MaxSessions]
    /\ rowLock \in [Sessions -> Requests \cup {None}]
RequestType == request \in [Requests -> States]

LEMMA TypeParts ==
    TypeOK <=> ActiveType /\ AddressType /\ LetterType /\ TableType /\ RequestType
  BY DEF TypeOK, ActiveType, AddressType, LetterType, TableType, RequestType

LEMMA TypePartsNext ==
    TypeOK' <=> ActiveType' /\ AddressType' /\ LetterType' /\ TableType' /\ RequestType'
  BY DEF TypeOK, ActiveType, AddressType, LetterType, TableType, RequestType

\* What Set does to the table of the requests.
LEMMA SetOf ==
    ASSUME TypeOK, NEW r \in Requests, NEW state \in States, Set(r, state)
    PROVE  /\ RequestType' /\ request'[r] = state
           /\ \A q \in Requests \ {r} : request'[q] = request[q]
  BY DEF TypeOK, RequestType, Set

\* The states that requests are given.
LEMMA EndState ==
    ASSUME NEW p \in Ends \cup {"registering", "login"}
    PROVE  /\ End(p) \in States /\ End(p).pc = p /\ End(p).now = 0
           /\ End(p).arg = 0 /\ End(p).live = {}
  BY AccountConstants DEF End, Idle, Ends, States, Times

\* A code is a possible argument.
LEMMA ArgTypes ==
    /\ Codes \subseteq 0 .. MaxCodes + MaxSessions
    /\ Sessions \subseteq 0 .. MaxCodes + MaxSessions
    /\ 0 \in 0 .. MaxCodes + MaxSessions
  BY AccountConstants DEF Codes, Sessions

\* The values of one request.
LEMMA RequestTypes ==
    ASSUME TypeOK, NEW r \in Requests
    PROVE  /\ request[r] \in States /\ request[r].now \in Times
           /\ request[r].arg \in 0 .. MaxCodes + MaxSessions
           /\ request[r].live \subseteq Sessions
           /\ time \in Nat /\ request[r].now \in Nat
  BY AccountConstants DEF TypeOK, States, Times

\* A step of another request: it takes no lock of this one, un-mails no code,
\* revives no session and revokes none that is locked.
Spared(q) ==
    /\ request'[q] = request[q] /\ time' >= time
    /\ holder' = q <=> holder = q
    /\ mailed \subseteq mailed'
    /\ \A s \in Sessions :
        /\ rowLock'[s] = q <=> rowLock[s] = q
        /\ sessions[s] = "revoked" => sessions'[s] = "revoked"
        /\ sessions[s] # None => sessions'[s] # None
        /\ rowLock[s] = q /\ sessions[s] = "active" => sessions'[s] = "active"

LEMMA Frame ==
    ASSUME TypeOK, TypeOK', NEW q \in Requests, RequestInv(q), Spared(q)
    PROVE  RequestInv(q)'
<1>1. request[q].now <= time => request'[q].now <= time'
  BY AccountConstants, RequestTypes DEF Spared, TypeOK, Times
<1>2. LetterTrue(q)'
  BY DEF RequestInv, LetterTrue, Spared, TypeOK
<1>3. Used \subseteq Used'
  BY DEF Used, Spared
<1>4. request[q].live \subseteq Sessions
  BY RequestTypes
<1>5. SessionTrue(q)'
  <2>1. \A s \in Sessions :
          rowLock'[s] = q <=> request'[q].pc \in Holding /\ request'[q].arg = s
    BY DEF RequestInv, SessionTrue, Spared
  <2>2. request'[q].pc = "rotating" =>
          request'[q].arg \in Sessions /\ sessions'[request'[q].arg] = "active"
    BY DEF RequestInv, SessionTrue, Spared, Holding
  <2>3. request'[q].pc \in {"revoking", "reuse"} => request'[q].live \subseteq Used'
    BY <1>3 DEF RequestInv, SessionTrue, Spared
  <2>4. request'[q].pc = "reuse" => \A s \in request'[q].live : sessions'[s] = "revoked"
    BY <1>4 DEF RequestInv, SessionTrue, Spared
  <2> QED  BY <2>1, <2>2, <2>3, <2>4 DEF SessionTrue
<1> QED  BY <1>1, <1>2, <1>5 DEF RequestInv

\* The verification row and the account stay as they are.
LEMMA RowFrame ==
    ASSUME IInv, AddressType', UNCHANGED <<account, row, guesses>>,
           time' >= time, mailed \subseteq mailed'
    PROVE  CodeWasMailed' /\ BeforeAccount' /\ Rationed' /\ GuessesBounded'
<1> USE AccountConstants DEF IInv
<1>1. time \in Nat /\ time' \in Nat /\ guesses \in Nat
  BY DEF TypeOK, AddressType, Times
<1>2. CodeWasMailed' /\ BeforeAccount'
  BY DEF CodeWasMailed, BeforeAccount
<1>3. Rationed'
  <2>1. row # None => row.failedFrom = None \/ row.failedFrom \in Nat
    BY DEF TypeOK, Rows, Times
  <2> QED  BY <1>1, <2>1 DEF Rationed, Locking, Counted, CodeWasMailed
<1>4. GuessesBounded'
  <2>1. /\ time \div FAILED_WINDOW \in Nat /\ time' \div FAILED_WINDOW \in Nat
        /\ MAX_FAILED * (time \div FAILED_WINDOW) \in Nat
        /\ MAX_FAILED * (time' \div FAILED_WINDOW) \in Nat
    BY <1>1
  <2>2. /\ MAX_FAILED * (time \div FAILED_WINDOW) <= MAX_FAILED * (time' \div FAILED_WINDOW)
        /\ MAX_FAILED * (time \div FAILED_WINDOW + 1)
             = MAX_FAILED * (time \div FAILED_WINDOW) + MAX_FAILED
        /\ MAX_FAILED * (time' \div FAILED_WINDOW + 1)
             = MAX_FAILED * (time' \div FAILED_WINDOW) + MAX_FAILED
    BY <1>1, Windows
  <2> QED  BY <1>1, <2>1, <2>2 DEF GuessesBounded
<1> QED  BY <1>2, <1>3, <1>4

\* The tables of the sessions stay as they are.
LEMMA ChainsFrame ==
    ASSUME Chains, UNCHANGED <<sessions, parent>>
    PROVE  Chains'
  BY DEF Chains, Used

\* What every step of a request has to show.
LEMMA RequestStep ==
    ASSUME IInv, NEW r \in Requests, UNCHANGED active, AddressType', LetterType', TableType',
           RequestType', RequestInv(r)', \A q \in Requests \ {r} : Spared(q),
           CodeWasMailed', BeforeAccount', Rationed', GuessesBounded', Chains'
    PROVE  IInv'
<1>1. ActiveType'
  <2>1. ActiveType
    BY TypeParts DEF IInv
  <2> QED  BY <2>1 DEF ActiveType
<1>2. TypeOK'
  BY <1>1, TypePartsNext
<1>3. ASSUME NEW q \in Requests PROVE RequestInv(q)'
  BY <1>2, Frame DEF IInv
<1> QED  BY <1>2, <1>3 DEF IInv
-----------------------------------------------------------------------------
(* Every step preserves the invariant.                                     *)

\* The places where a request holds nothing and promises nothing.
Quiet == {"idle", "registering", "verifying", "resending", "inserting", "login",
          "done", "refused", "failed"}

\* A request that holds nothing goes on to another place where it holds nothing.
LEMMA QuietStep ==
    ASSUME IInv, NEW r \in Requests, NEW state \in States, Set(r, state),
           request[r].pc \in Quiet, state.pc \in Quiet, state.now <= time,
           UNCHANGED <<time, account, active, verification, logins>>
    PROVE  IInv'
<1> USE AccountConstants DEF IInv, verification, logins
<1>1. /\ RequestType' /\ request'[r] = state
      /\ \A q \in Requests \ {r} : request'[q] = request[q]
  BY SetOf
<1>2. AddressType' /\ LetterType' /\ TableType'
  BY TypeParts DEF AddressType, LetterType, TableType
<1>3. time' >= time
  BY DEF TypeOK, Times
<1>4. ASSUME NEW q \in Requests \ {r} PROVE Spared(q)
  BY <1>1, <1>3 DEF Spared
<1>5. RequestInv(r)'
  BY <1>1 DEF RequestInv, LetterTrue, SessionTrue, Quiet, Mailing, Holding
<1>6. CodeWasMailed' /\ BeforeAccount' /\ Rationed' /\ GuessesBounded' /\ Chains'
  BY <1>2, <1>3, RowFrame, ChainsFrame
<1> QED  BY <1>1, <1>2, <1>4, <1>5, <1>6, RequestStep

\* A request that holds nothing takes a code and the verification row.
LEMMA TakeCodeStep ==
    ASSUME IInv, NEW r \in Requests, NEW now \in Times, TakeCode(r, now), now <= time,
           request[r].pc \in Quiet, holder = None,
           UNCHANGED <<time, account, active, row, mailed, guesses, logins>>
    PROVE  IInv'
<1> USE AccountConstants DEF IInv, logins
<1> DEFINE state == [Idle EXCEPT !.pc = "mailing", !.now = now, !.arg = codes + 1]
<1>1. codes \in 0 .. MaxCodes /\ codes + 1 \in Codes /\ codes' \in 0 .. MaxCodes
  BY DEF TakeCode, TypeOK, Codes
<1>2. /\ state \in States /\ state.pc = "mailing" /\ state.now = now
      /\ state.arg = codes + 1
  BY <1>1, ArgTypes DEF Idle, States
<1>3. /\ RequestType' /\ request'[r] = state
      /\ \A q \in Requests \ {r} : request'[q] = request[q]
  BY <1>2, SetOf DEF TakeCode
<1>4. AddressType' /\ LetterType' /\ TableType'
  BY <1>1, TypeParts DEF AddressType, LetterType, TableType, TakeCode
<1>5. time' >= time
  BY DEF TypeOK, Times
<1>6. ASSUME NEW q \in Requests \ {r} PROVE Spared(q)
  BY <1>3, <1>5 DEF Spared, TakeCode
<1>7. RequestInv(r)'
  <2>1. LetterTrue(r)'
    BY <1>1, <1>2, <1>3 DEF LetterTrue, Mailing, TakeCode
  <2>2. SessionTrue(r)'
    BY <1>2, <1>3 DEF RequestInv, SessionTrue, Quiet, Holding
  <2> QED  BY <1>2, <1>3, <2>1, <2>2 DEF RequestInv
<1>8. CodeWasMailed' /\ BeforeAccount' /\ Rationed' /\ GuessesBounded' /\ Chains'
  BY <1>4, <1>5, RowFrame, ChainsFrame
<1> QED  BY <1>3, <1>4, <1>6, <1>7, <1>8, RequestStep

\* Time passes.
LEMMA TickStep ==
    ASSUME IInv, Tick
    PROVE  IInv'
<1> USE AccountConstants DEF IInv, Tick, verification, logins
<1>1. time \in Nat /\ time' \in Times /\ time' >= time
  BY DEF TypeOK, Times
<1>2. AddressType' /\ LetterType' /\ TableType' /\ RequestType'
  BY <1>1, TypeParts DEF AddressType, LetterType, TableType, RequestType
<1>3. ActiveType'
  BY TypeParts DEF ActiveType
<1>4. TypeOK'
  BY <1>2, <1>3, TypePartsNext
<1>5. ASSUME NEW q \in Requests PROVE RequestInv(q)'
  BY <1>1, <1>4, Frame DEF Spared
<1>6. CodeWasMailed' /\ BeforeAccount' /\ Rationed' /\ GuessesBounded' /\ Chains'
  BY <1>1, <1>2, RowFrame, ChainsFrame
<1> QED  BY <1>4, <1>5, <1>6

\* The user is disabled.
LEMMA DisableStep ==
    ASSUME IInv, Disable
    PROVE  IInv'
<1> USE AccountConstants DEF IInv, Disable, verification, logins
<1>1. time' >= time
  BY DEF TypeOK, Times
<1>2. AddressType' /\ LetterType' /\ TableType' /\ RequestType'
  BY TypeParts DEF AddressType, LetterType, TableType, RequestType
<1>3. ActiveType'
  BY DEF ActiveType
<1>4. TypeOK'
  BY <1>2, <1>3, TypePartsNext
<1>5. ASSUME NEW q \in Requests PROVE RequestInv(q)'
  BY <1>1, <1>4, Frame DEF Spared
<1>6. CodeWasMailed' /\ BeforeAccount' /\ Rationed' /\ GuessesBounded' /\ Chains'
  BY <1>1, <1>2, RowFrame, ChainsFrame
<1> QED  BY <1>4, <1>5, <1>6

\* The address is looked up, and the registration goes on if it is free.
LEMMA BeginRegisterStep ==
    ASSUME IInv, NEW r \in Requests, BeginRegister(r)
    PROVE  IInv'
<1>1. PICK p \in {"registering", "refused"} : Set(r, End(p))
  BY DEF BeginRegister
<1>2. /\ End(p) \in States /\ End(p).pc \in Quiet /\ End(p).now <= time
      /\ request[r].pc \in Quiet
  BY EndState, RequestTypes DEF Ends, Quiet, BeginRegister, IInv
<1> QED  BY <1>1, <1>2, QuietStep DEF BeginRegister

\* The rows of the account are inserted.
LEMMA InsertAccountStep ==
    ASSUME IInv, NEW r \in Requests, InsertAccount(r)
    PROVE  IInv'
<1> USE AccountConstants DEF InsertAccount, verification
<1>1. time \in Times /\ time <= time /\ request[r].pc \in Quiet
  BY DEF IInv, TypeOK, Times, Quiet
<1>2. CASE account = "none"
  BY <1>1, <1>2, TakeCodeStep
<1>3. CASE account # "none"
  <2>1. /\ End("refused") \in States /\ End("refused").pc \in Quiet
        /\ End("refused").now <= time
    BY EndState, RequestTypes DEF Ends, Quiet, IInv
  <2> QED  BY <1>1, <1>3, <2>1, QuietStep
<1> QED  BY <1>2, <1>3

\* The request to verify, and the one to send again, read the user and the clock.
LEMMA BeginVerifyStep ==
    ASSUME IInv, NEW r \in Requests, BeginVerify(r)
    PROVE  IInv'
<1> USE DEF BeginVerify
<1>1. /\ time \in Times /\ time <= time /\ request[r].pc \in Quiet
      /\ mailed \subseteq Codes
  BY AccountConstants DEF IInv, TypeOK, Times, Quiet
<1>2. PICK code \in mailed \cup {0} :
        Set(r, IF account = "pending"
               THEN [Idle EXCEPT !.pc = "verifying", !.now = time, !.arg = code]
               ELSE End("refused"))
  OBVIOUS
<1>3. CASE account = "pending"
  <2> DEFINE state == [Idle EXCEPT !.pc = "verifying", !.now = time, !.arg = code]
  <2>1. state \in States /\ state.pc \in Quiet /\ state.now <= time
    BY <1>1, ArgTypes DEF Idle, States, Quiet
  <2> QED  BY <1>1, <1>2, <1>3, <2>1, QuietStep
<1>4. CASE account # "pending"
  <2>1. /\ End("refused") \in States /\ End("refused").pc \in Quiet
        /\ End("refused").now <= time
    BY EndState, RequestTypes DEF Ends, Quiet, IInv
  <2> QED  BY <1>1, <1>2, <1>4, <2>1, QuietStep
<1> QED  BY <1>3, <1>4

LEMMA BeginResendStep ==
    ASSUME IInv, NEW r \in Requests, BeginResend(r)
    PROVE  IInv'
<1> USE DEF BeginResend
<1>1. time \in Times /\ time <= time /\ request[r].pc \in Quiet
  BY AccountConstants DEF IInv, TypeOK, Times, Quiet
<1>3. CASE account = "pending"
  <2> DEFINE state == [Idle EXCEPT !.pc = "resending", !.now = time]
  <2>1. state \in States /\ state.pc \in Quiet /\ state.now <= time
    BY <1>1, ArgTypes DEF Idle, States, Quiet
  <2> QED  BY <1>1, <1>3, <2>1, QuietStep
<1>4. CASE account # "pending"
  <2>1. /\ End("refused") \in States /\ End("refused").pc \in Quiet
        /\ End("refused").now <= time
    BY EndState, RequestTypes DEF Ends, Quiet, IInv
  <2> QED  BY <1>1, <1>4, <2>1, QuietStep
<1> QED  BY <1>3, <1>4

LEMMA BeginLoginStep ==
    ASSUME IInv, NEW r \in Requests, BeginLogin(r)
    PROVE  IInv'
<1>1. PICK p \in {"login", "refused"} : Set(r, End(p))
  BY DEF BeginLogin
<1>2. /\ End(p) \in States /\ End(p).pc \in Quiet /\ End(p).now <= time
      /\ request[r].pc \in Quiet
  BY EndState, RequestTypes DEF Ends, Quiet, BeginLogin, IInv
<1> QED  BY <1>1, <1>2, QuietStep DEF BeginLogin

\* The row is locked, or was missing.
LEMMA LockRowStep ==
    ASSUME IInv, NEW r \in Requests, LockRow(r)
    PROVE  IInv'
<1> USE DEF LockRow, verification
<1>1. /\ request[r].now \in Times /\ request[r].now <= time /\ request[r].pc \in Quiet
      /\ request[r] \in States
  BY RequestTypes DEF IInv, RequestInv, Quiet
<1>2. CASE row = None
  <2> DEFINE state == [request[r] EXCEPT !.pc = "inserting"]
  <2>1. state \in States /\ state.pc \in Quiet /\ state.now <= time
    BY <1>1 DEF States, Quiet
  <2> QED  BY <1>1, <1>2, <2>1, QuietStep
<1>3. CASE row # None /\ MaySend(request[r].now)
  BY <1>1, <1>3, TakeCodeStep
<1>4. CASE row # None /\ ~MaySend(request[r].now)
  <2>1. /\ End("refused") \in States /\ End("refused").pc \in Quiet
        /\ End("refused").now <= time
    BY EndState, RequestTypes DEF Ends, Quiet, IInv
  <2> QED  BY <1>1, <1>4, <2>1, QuietStep
<1> QED  BY <1>2, <1>3, <1>4

\* The missing row is inserted.
LEMMA InsertRowStep ==
    ASSUME IInv, NEW r \in Requests, InsertRow(r)
    PROVE  IInv'
<1> USE DEF InsertRow, verification
<1>1. request[r].now \in Times /\ request[r].now <= time /\ request[r].pc \in Quiet
  BY RequestTypes DEF IInv, RequestInv, Quiet
<1>2. CASE row = None
  BY <1>1, <1>2, TakeCodeStep
<1>3. CASE row # None
  <2>1. /\ End("refused") \in States /\ End("refused").pc \in Quiet
        /\ End("refused").now <= time
    BY EndState, RequestTypes DEF Ends, Quiet, IInv
  <2> QED  BY <1>1, <1>3, <2>1, QuietStep
<1> QED  BY <1>2, <1>3

\* The mail has left.
LEMMA MailSentStep ==
    ASSUME IInv, NEW r \in Requests, MailSent(r)
    PROVE  IInv'
<1> USE AccountConstants DEF IInv, MailSent, logins
<1> DEFINE state == [request[r] EXCEPT !.pc = "mailed"]
<1>1. /\ state \in States /\ state.pc = "mailed" /\ state.now = request[r].now
      /\ state.arg = request[r].arg
  BY RequestTypes DEF States
<1>2. /\ RequestType' /\ request'[r] = state
      /\ \A q \in Requests \ {r} : request'[q] = request[q]
  BY <1>1, SetOf
<1>3. request[r].arg \in Codes /\ holder = r
  BY DEF RequestInv, LetterTrue, Mailing
<1>4. AddressType' /\ LetterType' /\ TableType'
  BY <1>3, TypeParts DEF AddressType, LetterType, TableType
<1>5. time' >= time
  BY DEF TypeOK, Times
<1>6. ASSUME NEW q \in Requests \ {r} PROVE Spared(q)
  BY <1>2, <1>5 DEF Spared
<1>7. RequestInv(r)'
  <2>1. LetterTrue(r)'
    BY <1>1, <1>2, <1>3 DEF LetterTrue, Mailing
  <2>2. SessionTrue(r)'
    BY <1>1, <1>2 DEF RequestInv, SessionTrue, Holding
  <2> QED  BY <1>1, <1>2, <2>1, <2>2 DEF RequestInv
<1>8. CodeWasMailed' /\ BeforeAccount' /\ Rationed' /\ GuessesBounded' /\ Chains'
  BY <1>4, <1>5, RowFrame, ChainsFrame
<1> QED  BY <1>2, <1>4, <1>6, <1>7, <1>8, RequestStep

\* The mail service refuses the mail, or its answer is lost.
LEMMA MailFailsStep ==
    ASSUME IInv, NEW r \in Requests, MailFails(r)
    PROVE  IInv'
<1> USE AccountConstants DEF IInv, MailFails, logins
<1>1. End("failed") \in States /\ End("failed").pc = "failed" /\ End("failed").now = 0
  BY EndState DEF Ends
<1>2. /\ RequestType' /\ request'[r] = End("failed")
      /\ \A q \in Requests \ {r} : request'[q] = request[q]
  BY <1>1, SetOf
<1>3. request[r].arg \in Codes /\ holder = r
  BY DEF RequestInv, LetterTrue, Mailing
<1>4. AddressType' /\ LetterType' /\ TableType'
  BY <1>3, TypeParts DEF AddressType, LetterType, TableType
<1>5. time' >= time
  BY DEF TypeOK, Times
<1>6. ASSUME NEW q \in Requests \ {r} PROVE Spared(q)
  BY <1>2, <1>3, <1>5 DEF Spared
<1>7. RequestInv(r)'
  <2>1. LetterTrue(r)'
    BY <1>1, <1>2, <1>3 DEF LetterTrue, Mailing
  <2>2. SessionTrue(r)'
    BY <1>1, <1>2 DEF RequestInv, SessionTrue, Holding
  <2> QED  BY <1>1, <1>2, <2>1, <2>2, RequestTypes DEF RequestInv
<1>8. CodeWasMailed' /\ BeforeAccount' /\ Rationed' /\ GuessesBounded' /\ Chains'
  BY <1>4, <1>5, RowFrame, ChainsFrame
<1> QED  BY <1>2, <1>4, <1>6, <1>7, <1>8, RequestStep

\* The rows that a commit writes.
LEMMA RowTypes ==
    ASSUME TypeOK, NEW code \in Codes, NEW now \in Times
    PROVE  /\ NewRow(code, now) \in Rows /\ NewRow(code, now).code = code
           /\ NewRow(code, now).failedFrom = None /\ NewRow(code, now).attempts = 0
           /\ row # None =>
                /\ Resent(code, now) \in Rows /\ Resent(code, now).code = code
                /\ Resent(code, now).failedFrom = row.failedFrom
                /\ Resent(code, now).attempts = row.attempts
                /\ Resent(code, now).lockedUntil = row.lockedUntil
<1> USE AccountConstants
<1>1. code \in Codes /\ now \in Times /\ now \in Nat /\ now + TTL \in Nat
  BY DEF Times
<1>2. /\ NewRow(code, now) \in Rows /\ NewRow(code, now).code = code
      /\ NewRow(code, now).failedFrom = None /\ NewRow(code, now).attempts = 0
  BY <1>1 DEF NewRow, Rows
<1>3. ASSUME row # None
      PROVE  /\ Resent(code, now) \in Rows /\ Resent(code, now).code = code
             /\ Resent(code, now).failedFrom = row.failedFrom
             /\ Resent(code, now).attempts = row.attempts
             /\ Resent(code, now).lockedUntil = row.lockedUntil
  <2>1. row \in Rows
    BY <1>3 DEF TypeOK
  <2>2. row.sends + 1 \in Nat
    BY <2>1 DEF Rows
  <2> QED  BY <1>1, <2>1, <2>2 DEF Resent, Rows
<1> QED  BY <1>2, <1>3

\* The code that was mailed is committed.
LEMMA CommitCodeStep ==
    ASSUME IInv, NEW r \in Requests, CommitCode(r)
    PROVE  IInv'
<1> USE AccountConstants, NoneIsNothing DEF IInv, CommitCode, logins
<1>1. End("done") \in States /\ End("done").pc = "done" /\ End("done").now = 0
  BY EndState DEF Ends
<1>2. /\ RequestType' /\ request'[r] = End("done")
      /\ \A q \in Requests \ {r} : request'[q] = request[q]
  BY <1>1, SetOf
<1>3. /\ request[r].arg \in Codes /\ request[r].arg \in mailed /\ holder = r
      /\ request[r].now \in Times
  BY RequestTypes DEF RequestInv, LetterTrue, Mailing
<1>4. row' \in Rows /\ row' # None /\ row'.code \in mailed
  BY <1>3, RowTypes
<1>5. AddressType' /\ LetterType' /\ TableType'
  BY <1>4, TypeParts DEF AddressType, LetterType, TableType
<1>6. time' >= time
  BY DEF TypeOK, Times
<1>7. ASSUME NEW q \in Requests \ {r} PROVE Spared(q)
  BY <1>2, <1>3, <1>6 DEF Spared
<1>8. RequestInv(r)'
  <2>1. LetterTrue(r)'
    BY <1>1, <1>2, <1>3 DEF LetterTrue, Mailing
  <2>2. SessionTrue(r)'
    BY <1>1, <1>2 DEF RequestInv, SessionTrue, Holding
  <2> QED  BY <1>1, <1>2, <2>1, <2>2, RequestTypes DEF RequestInv
<1>9. CodeWasMailed' /\ BeforeAccount'
  BY <1>4 DEF CodeWasMailed, BeforeAccount, TypeOK
<1>10. Rationed'
  <2>1. CASE row = None
    BY <1>3, <2>1, RowTypes DEF Rationed, Locking, Counted, BeforeAccount, CodeWasMailed, TypeOK
  <2>2. CASE row # None
    <3>1. account' = account
      BY <2>2 DEF BeforeAccount
    <3>2. /\ row'.failedFrom = row.failedFrom /\ row'.attempts = row.attempts
          /\ row'.lockedUntil = row.lockedUntil
      BY <1>3, <2>2, RowTypes
    <3> QED  BY <2>2, <3>1, <3>2 DEF Rationed, Locking, Counted
  <2> QED  BY <2>1, <2>2
<1>11. GuessesBounded' /\ Chains'
  BY ChainsFrame DEF GuessesBounded
<1> QED  BY <1>2, <1>5, <1>7, <1>8, <1>9, <1>10, <1>11, RequestStep

\* One more wrong code while the account waits: it is counted in the window of the
\* row, or begins the next one, which the lock keeps a FAILED_WINDOW away.
LEMMA FailureRationed ==
    ASSUME TypeOK, Rationed, CodeWasMailed, NEW now \in Times, now <= time,
           Usable(now), row' = Failed(now), account = "pending", account' = "pending",
           guesses' = guesses + 1, time' = time
    PROVE  Counted' /\ GuessesBounded'
<1> USE AccountConstants, NoneIsNothing
<1> DEFINE from  == row'.failedFrom
           Past(t) == MAX_FAILED * (t \div FAILED_WINDOW)
<1>1. /\ now \in Nat /\ time \in Nat /\ guesses \in Nat /\ row \in Rows
      /\ row.failedFrom = None \/ row.failedFrom \in Nat
      /\ row.attempts \in Nat /\ row.lockedUntil \in Nat
      /\ MAX_FAILED \in Nat \ {0} /\ FAILED_WINDOW \in Nat \ {0}
  BY DEF TypeOK, Times, Rows, Usable
<1>2. now >= row.lockedUntil /\ row # None /\ row.attempts <= MAX_FAILED
  BY DEF Usable, TypeOK, Rows
<1>3. CASE row.failedFrom = None \/ now >= row.failedFrom + FAILED_WINDOW
  <2>1. /\ from = now /\ row'.attempts = 1
        /\ 1 = MAX_FAILED => row'.lockedUntil = now + FAILED_WINDOW
    BY <1>1, <1>3 DEF Failed, Rows
  <2>2. Past(now) \in Nat
    BY <1>1
  <2>3. guesses <= Past(now)
    <3>1. CASE row.failedFrom = None
      BY <1>1, <2>2, <3>1 DEF Rationed, Counted
    <3>2. CASE row.failedFrom # None
      <4>1. row.failedFrom \in Nat /\ row.failedFrom + FAILED_WINDOW <= now
        BY <1>1, <1>3, <3>2
      <4>2. Past(row.failedFrom) \in Nat
        BY <4>1, <1>1
      <4>3. Past(row.failedFrom) + MAX_FAILED <= Past(now)
        BY <1>1, <4>1, Windows
      <4> HIDE DEF Past
      <4>4. guesses <= Past(row.failedFrom) + row.attempts /\ row.attempts <= MAX_FAILED
        BY <1>2, <3>2 DEF Rationed, Counted, Past
      <4> QED  BY <1>1, <2>2, <4>2, <4>3, <4>4
    <3> QED  BY <3>1, <3>2
  <2>4. Past(now) <= Past(time) /\ Past(time) \in Nat
    <3>1. now \in Nat /\ time \in Nat /\ now <= time /\ time \div FAILED_WINDOW \in Nat
      BY <1>1
    <3>2. Past(time) \in Nat
      BY <1>1, <3>1
    <3>3. Past(now) <= Past(time)
      BY <1>1, <3>1, Windows
    <3> QED  BY <3>2, <3>3
  <2>5. MAX_FAILED * (time \div FAILED_WINDOW + 1) = Past(time) + MAX_FAILED
    BY <1>1, Windows
  <2> HIDE DEF Past
  <2>6. from # None /\ from <= time' /\ guesses' <= Past(from) + row'.attempts
    BY <1>1, <2>1, <2>2, <2>3
  <2>7. row'.attempts <= MAX_FAILED
    BY <1>1, <2>1
  <2>8. Counted'
    BY <2>1, <2>6, <2>7 DEF Counted, Past
  <2>9. GuessesBounded'
    BY <1>1, <2>2, <2>3, <2>4, <2>5 DEF GuessesBounded
  <2> QED  BY <2>8, <2>9
<1>4. CASE row.failedFrom # None /\ ~(now >= row.failedFrom + FAILED_WINDOW)
  <2>1. /\ row.failedFrom \in Nat /\ row.failedFrom <= time
        /\ row.attempts <= MAX_FAILED
        /\ row.attempts = MAX_FAILED => row.lockedUntil = row.failedFrom + FAILED_WINDOW
        /\ guesses <= Past(row.failedFrom) + row.attempts
    BY <1>1, <1>2, <1>4 DEF Rationed, Locking, Counted
  <2>2. row.attempts < MAX_FAILED
    <3>1. row.attempts # MAX_FAILED
      <4>1. SUFFICES ASSUME row.attempts = MAX_FAILED PROVE FALSE
        OBVIOUS
      <4>2. now >= row.failedFrom + FAILED_WINDOW
        BY <1>2, <2>1, <4>1
      <4> QED  BY <1>4, <4>2
    <3>2. row.attempts \in Nat /\ MAX_FAILED \in Nat /\ row.attempts <= MAX_FAILED
      BY <1>1, <2>1
    <3> HIDE DEF Past
    <3> QED  BY <3>1, <3>2
  <2>3. /\ from = row.failedFrom /\ row'.attempts = row.attempts + 1
        /\ row.attempts + 1 = MAX_FAILED => row'.lockedUntil = row.failedFrom + FAILED_WINDOW
    BY <1>1, <1>4 DEF Failed, Rows
  <2>4. /\ Past(row.failedFrom) \in Nat /\ Past(time) \in Nat
        /\ Past(row.failedFrom) <= Past(time)
    <3>1. /\ row.failedFrom \in Nat /\ time \in Nat /\ row.failedFrom <= time
          /\ row.failedFrom \div FAILED_WINDOW \in Nat /\ time \div FAILED_WINDOW \in Nat
      BY <1>1, <2>1
    <3>2. Past(row.failedFrom) \in Nat /\ Past(time) \in Nat
      BY <1>1, <3>1
    <3>3. Past(row.failedFrom) <= Past(time)
      BY <1>1, <3>1, Windows
    <3> QED  BY <3>2, <3>3
  <2>5. MAX_FAILED * (time \div FAILED_WINDOW + 1) = Past(time) + MAX_FAILED
    BY <1>1, Windows
  <2> HIDE DEF Past
  <2>6. guesses' <= Past(from) + row'.attempts
    BY <1>1, <2>1, <2>3, <2>4
  <2>7. Counted'
    BY <1>1, <1>4, <2>1, <2>2, <2>3, <2>6 DEF Counted, Past
  <2>8. GuessesBounded'
    BY <1>1, <2>1, <2>2, <2>4, <2>5 DEF GuessesBounded
  <2> QED  BY <2>7, <2>8
<1> QED  BY <1>3, <1>4

\* A wrong code is counted in the window of the row, whose count is not full, or begins
\* the next one.
LEMMA FailedType ==
    ASSUME TypeOK, Locking, NEW now \in Times, Usable(now)
    PROVE  /\ Failed(now) \in Rows /\ Failed(now).code = row.code
           /\ row' = Failed(now) => Locking'
<1>1. /\ row # None /\ row \in Rows /\ now \in Nat
      /\ FAILED_WINDOW \in Nat \ {0} /\ MAX_FAILED \in Nat \ {0} /\ now >= row.lockedUntil
  BY AccountConstants DEF TypeOK, Times, Usable
<1>2. /\ row.failedFrom \in Times \cup {None} /\ row.lockedUntil \in Nat
      /\ row.attempts \in 0 .. MAX_FAILED /\ row.code \in Codes
  BY <1>1 DEF Rows
<1> DEFINE again == row.failedFrom = None \/ now >= row.failedFrom + FAILED_WINDOW
           from  == IF again THEN now ELSE row.failedFrom
           count == IF again THEN 1 ELSE row.attempts + 1
           until == IF count >= MAX_FAILED THEN from + FAILED_WINDOW
                    ELSE IF again THEN 0 ELSE row.lockedUntil
<1>3. from \in Times /\ from \in Nat /\ from # None
  BY <1>1, <1>2, AccountConstants, NoneIsNothing DEF Times
<1>4. count \in 0 .. MAX_FAILED
  <2>1. CASE again
    BY <1>1, <2>1
  <2>2. CASE ~again
    <3>1. row.attempts # MAX_FAILED
      BY <1>1, <1>2, <2>2 DEF Locking
    <3> QED  BY <1>1, <1>2, <2>2, <3>1
  <2> QED  BY <2>1, <2>2
<1>5. until \in Nat /\ (count = MAX_FAILED => until = from + FAILED_WINDOW)
  BY <1>1, <1>2, <1>3, <1>4
<1>6. Failed(now) = [row EXCEPT !.failedFrom = from, !.attempts = count,
                                !.lockedUntil = until]
  BY <1>1 DEF Failed, Rows
<1> HIDE DEF from, count, until
<1>7. /\ Failed(now) \in Rows /\ Failed(now).code = row.code
      /\ Failed(now).failedFrom = from /\ Failed(now).attempts = count
      /\ Failed(now).lockedUntil = until
  BY <1>1, <1>3, <1>4, <1>5, <1>6 DEF Rows
<1> QED  BY <1>3, <1>5, <1>7 DEF Locking

\* A code is compared with the one that is stored.
LEMMA CommitVerifyStep ==
    ASSUME IInv, NEW r \in Requests, CommitVerify(r)
    PROVE  IInv'
<1> USE AccountConstants, NoneIsNothing DEF IInv, CommitVerify, logins
<1> DEFINE now == request[r].now
<1>1. now \in Times /\ now <= time /\ request[r].pc \in Quiet
  BY RequestTypes DEF RequestInv, Quiet
<1>2. ASSUME NEW p \in {"refused", "done"}
      PROVE  End(p) \in States /\ End(p).pc = p /\ End(p).pc \in Quiet /\ End(p).now <= time
  BY EndState, RequestTypes DEF Ends, Quiet
<1>3. CASE ~Usable(now)
  BY <1>1, <1>2, <1>3, QuietStep DEF verification
<1>4. CASE Usable(now)
  <2>1. PICK p \in {"refused", "done"} : Set(r, End(p))
    BY <1>4
  <2>2. /\ RequestType' /\ request'[r] = End(p)
        /\ \A q \in Requests \ {r} : request'[q] = request[q]
    BY <1>2, <2>1, SetOf
  <2>3. row # None /\ row \in Rows
    BY <1>4 DEF Usable, TypeOK
  <2>4. row' \in Rows \cup {None} /\ (row' # None => row'.code = row.code)
    BY <1>1, <1>4, <2>3, FailedType DEF Rationed
  <2>5. AddressType' /\ LetterType' /\ TableType'
    <3>1. guesses' \in Nat
      BY <1>4 DEF TypeOK
    <3> QED  BY <1>4, <2>4, <3>1, TypeParts DEF AddressType, LetterType, TableType
  <2>6. time' >= time
    BY DEF TypeOK, Times
  <2>7. ASSUME NEW q \in Requests \ {r} PROVE Spared(q)
    BY <2>2, <2>6 DEF Spared
  <2>8. RequestInv(r)'
    <3>1. LetterTrue(r)'
      BY <1>2, <2>2 DEF RequestInv, LetterTrue, Mailing
    <3>2. SessionTrue(r)'
      BY <1>2, <2>2 DEF RequestInv, SessionTrue, Holding
    <3> QED  BY <1>2, <2>2, <3>1, <3>2 DEF RequestInv
  <2>9. account # "none"
    BY <2>3 DEF BeforeAccount
  <2>10. CodeWasMailed' /\ BeforeAccount'
    <3>1. CASE request[r].arg # row.code
      <4>1. row' # None
        BY <1>1, <1>4, <2>3, <3>1, FailedType DEF Rationed
      <4> QED  BY <1>4, <2>3, <2>4, <2>9, <3>1, <4>1 DEF CodeWasMailed, BeforeAccount
    <3>2. CASE request[r].arg = row.code
      BY <1>4, <3>2 DEF CodeWasMailed, BeforeAccount
    <3> QED  BY <3>1, <3>2
  <2>13. Locking'
    <3>1. row' = Failed(now) \/ row' = row \/ row' = None
      BY <1>4
    <3> QED  BY <1>1, <1>4, <3>1, FailedType DEF Rationed, Locking
  <2>11. Rationed' /\ GuessesBounded'
    <3>1. CASE request[r].arg # row.code /\ account = "pending"
      <4>1. /\ row' = Failed(now) /\ account' = "pending" /\ guesses' = guesses + 1
            /\ time' = time
        BY <1>4, <3>1
      <4> QED  BY <1>1, <1>4, <2>13, <3>1, <4>1, FailureRationed DEF Rationed
    <3>2. CASE account' # "pending" /\ guesses' = guesses
      BY <2>13, <3>2 DEF Rationed, Counted, GuessesBounded
    <3> QED  BY <1>4, <3>1, <3>2
  <2>12. Chains'
    BY ChainsFrame
  <2> QED  BY <2>2, <2>5, <2>7, <2>8, <2>10, <2>11, <2>12, RequestStep
<1> QED  BY <1>3, <1>4

\* A session that is inserted is the next one.
LEMMA FreshIsNext ==
    ASSUME TypeOK, Chains, Fresh \in Sessions
    PROVE  /\ Fresh \notin Used /\ Used \cup {Fresh} = 1 .. Fresh
           /\ Fresh \in 1 .. MaxSessions
<1> USE AccountConstants
<1>1. PICK n \in 0 .. MaxSessions : Used = 1 .. n
  BY DEF Chains
<1>2. Cardinality(1 .. n) = n
  <2>1. /\ 1 \in Int /\ n \in Int
        /\ Cardinality(1 .. n) = IF 1 > n THEN 0 ELSE n - 1 + 1
    BY FS_Interval
  <2> QED  BY <2>1
<1>3. Fresh = n + 1
  BY <1>1, <1>2 DEF Fresh
<1> QED  BY <1>1, <1>3 DEF Sessions

\* No chain is broken or doubled by a session that is inserted, for one that is still
\* active or for none, and none by sessions that are revoked.
LEMMA InsertChains ==
    ASSUME TypeOK, Chains, NEW old, NEW from, Insert(old, from),
           \/ old = sessions /\ from = 0
           \/ /\ from \in Sessions /\ sessions[from] = "active"
              /\ old = [sessions EXCEPT ![from] = "revoked"]
    PROVE  /\ Chains'
           /\ sessions' \in [Sessions -> {None, "active", "revoked"}]
           /\ parent' \in [Sessions -> 0 .. MaxSessions]
           /\ Fresh \in Sessions /\ sessions[Fresh] = None /\ sessions'[Fresh] = "active"
           /\ \A s \in Sessions \ {Fresh} :
                sessions'[s] = IF s = from THEN "revoked" ELSE sessions[s]
<1> USE AccountConstants, NoneIsNothing DEF Insert
<1>1. /\ Fresh \in Sessions /\ Fresh \notin Used /\ Used \cup {Fresh} = 1 .. Fresh
      /\ Fresh \in 1 .. MaxSessions /\ sessions[Fresh] = None
  BY FreshIsNext DEF Used
<1> HIDE DEF Insert
<1>2. /\ old \in [Sessions -> {None, "active", "revoked"}]
      /\ from \in 0 .. MaxSessions /\ from # Fresh
      /\ \A s \in Sessions : old[s] = IF s = from THEN "revoked" ELSE sessions[s]
  <2>1. CASE old = sessions /\ from = 0
    BY <1>1, <2>1 DEF TypeOK, Sessions
  <2>2. CASE /\ from \in Sessions /\ sessions[from] = "active"
             /\ old = [sessions EXCEPT ![from] = "revoked"]
    BY <1>1, <2>2 DEF TypeOK, Sessions
  <2> QED  BY <2>1, <2>2
<1>3. /\ sessions' = [old EXCEPT ![Fresh] = "active"]
      /\ parent' = [parent EXCEPT ![Fresh] = from]
  BY DEF Insert
<1>4. /\ sessions' \in [Sessions -> {None, "active", "revoked"}]
      /\ parent' \in [Sessions -> 0 .. MaxSessions]
      /\ sessions'[Fresh] = "active" /\ parent'[Fresh] = from
      /\ \A s \in Sessions \ {Fresh} :
           /\ sessions'[s] = IF s = from THEN "revoked" ELSE sessions[s]
           /\ parent'[s] = parent[s]
  BY <1>1, <1>2, <1>3 DEF TypeOK
<1>5. Used' = Used \cup {Fresh}
  <2>1. \A s \in Sessions : sessions'[s] # None <=> s \in Used \/ s = Fresh
    <3> TAKE s \in Sessions
    <3>1. from \in Sessions => sessions[from] = "active"
      BY <1>1 DEF Sessions
    <3> QED  BY <1>1, <1>4, <3>1 DEF Used
  <2> QED  BY <1>1, <2>1 DEF Used
<1>6. \E n \in 0 .. MaxSessions : Used' = 1 .. n
  BY <1>1, <1>5
<1>7. \A t \in Sessions : parent[t] # 0 =>
        parent[t] \in Sessions /\ parent[t] # Fresh /\ parent[t] # from
  <2> TAKE t \in Sessions
  <2>1. HAVE parent[t] # 0
  <2>2. parent[t] \in Sessions
    BY <2>1 DEF TypeOK, Sessions
  <2>3. sessions[parent[t]] = "revoked"
    BY <2>1 DEF Chains
  <2> QED  BY <1>1, <2>1, <2>2, <2>3
<1>8. \A t \in Sessions : parent'[t] # 0 =>
        sessions'[t] # None /\ sessions'[parent'[t]] = "revoked"
  <2> TAKE t \in Sessions
  <2>1. HAVE parent'[t] # 0
  <2>2. CASE t = Fresh
    <3>1. from \in Sessions /\ from # Fresh
      BY <1>2, <1>4, <2>1, <2>2 DEF Sessions
    <3> QED  BY <1>4, <2>2, <3>1
  <2>3. CASE t # Fresh
    <3>1. parent'[t] = parent[t] /\ parent[t] # 0
      BY <1>4, <2>1, <2>3
    <3>2. sessions[t] # None /\ sessions[parent[t]] = "revoked"
      BY <3>1 DEF Chains
    <3> QED  BY <1>4, <1>7, <2>3, <3>1, <3>2
  <2> QED  BY <2>2, <2>3
<1>9. \A t, u \in Sessions : parent'[t] = parent'[u] /\ parent'[t] # 0 => t = u
  <2> SUFFICES ASSUME NEW t \in Sessions, NEW u \in Sessions,
                      parent'[t] = parent'[u], parent'[t] # 0, t # u
               PROVE  FALSE
    OBVIOUS
  <2>1. CASE t # Fresh /\ u # Fresh
    BY <1>4, <2>1 DEF Chains
  <2>2. CASE t = Fresh
    <3>1. parent[u] = from /\ parent[u] # 0
      BY <1>4, <2>2
    <3> QED  BY <1>7, <3>1
  <2>3. CASE u = Fresh
    <3>1. parent[t] = from /\ parent[t] # 0
      BY <1>4, <2>3
    <3> QED  BY <1>7, <3>1
  <2> QED  BY <2>1, <2>2, <2>3
<1>10. Chains'
  BY <1>6, <1>8, <1>9 DEF Chains
<1> QED  BY <1>1, <1>4, <1>10

LEMMA RevokeChains ==
    ASSUME TypeOK, Chains, NEW S \in SUBSET Used, UNCHANGED parent,
           sessions' = [s \in Sessions |-> IF s \in S THEN "revoked" ELSE sessions[s]]
    PROVE  Chains' /\ sessions' \in [Sessions -> {None, "active", "revoked"}]
<1> USE NoneIsNothing
<1>1. Used' = Used
  BY DEF Used
<1>2. \A t \in Sessions : parent[t] # 0 => parent[t] \in Sessions
  BY DEF TypeOK, Sessions
<1>3. sessions' \in [Sessions -> {None, "active", "revoked"}]
  BY DEF TypeOK
<1> QED  BY <1>1, <1>2, <1>3 DEF Chains

\* The session of a login is inserted.
LEMMA CommitLoginStep ==
    ASSUME IInv, NEW r \in Requests, CommitLogin(r)
    PROVE  IInv'
<1> USE AccountConstants, NoneIsNothing DEF IInv, CommitLogin, verification
<1>1. End("done") \in States /\ End("done").pc = "done" /\ End("done").now <= time
  BY EndState, RequestTypes DEF Ends
<1>2. /\ RequestType' /\ request'[r] = End("done")
      /\ \A q \in Requests \ {r} : request'[q] = request[q]
  BY <1>1, SetOf
<1>3. /\ Chains' /\ sessions' \in [Sessions -> {None, "active", "revoked"}]
      /\ parent' \in [Sessions -> 0 .. MaxSessions]
      /\ Fresh \in Sessions /\ sessions[Fresh] = None /\ sessions'[Fresh] = "active"
      /\ \A s \in Sessions \ {Fresh} : sessions'[s] = sessions[s]
  BY InsertChains DEF Sessions
<1>4. AddressType' /\ LetterType' /\ TableType'
  BY <1>3, TypeParts DEF AddressType, LetterType, TableType
<1>5. time' >= time
  BY DEF TypeOK, Times
<1>6. ASSUME NEW q \in Requests \ {r} PROVE Spared(q)
  BY <1>2, <1>3, <1>5 DEF Spared
<1>7. RequestInv(r)'
  <2>1. LetterTrue(r)'
    BY <1>1, <1>2 DEF RequestInv, LetterTrue, Mailing
  <2>2. SessionTrue(r)'
    BY <1>1, <1>2 DEF RequestInv, SessionTrue, Holding
  <2> QED  BY <1>1, <1>2, <2>1, <2>2 DEF RequestInv
<1>8. CodeWasMailed' /\ BeforeAccount' /\ Rationed' /\ GuessesBounded'
  BY <1>4, <1>5, RowFrame
<1> QED  BY <1>2, <1>3, <1>4, <1>6, <1>7, <1>8, RequestStep

\* The states of a request that holds the session s.
Revoking(s, L) == [Idle EXCEPT !.pc = "revoking", !.arg = s, !.live = L]
Rotating(s) == [Idle EXCEPT !.pc = "rotating", !.arg = s]

LEMMA SessionStates ==
    ASSUME NEW s \in Sessions, NEW L \in SUBSET Sessions
    PROVE  /\ Revoking(s, L) \in States /\ Revoking(s, L).now = 0
           /\ Revoking(s, L).arg = s /\ Revoking(s, L).live = L
           /\ Revoking(s, L).pc = "revoking"
           /\ Rotating(s) \in States /\ Rotating(s).now = 0
           /\ Rotating(s).arg = s /\ Rotating(s).pc = "rotating"
<1>1. 0 \in Times /\ s \in 0 .. MaxCodes + MaxSessions
  BY AccountConstants, ArgTypes DEF Times
<1> QED  BY <1>1 DEF Idle, States, Revoking, Rotating

\* A session is locked and the request decides whether to exchange it or to revoke all.
LEMMA LockSessionStep ==
    ASSUME IInv, NEW r \in Requests, LockSession(r)
    PROVE  IInv'
<1> USE AccountConstants, NoneIsNothing DEF IInv, LockSession, verification
<1>1. PICK s \in Used :
        /\ FreeFor(s) /\ rowLock' = [rowLock EXCEPT ![s] = r]
        /\ IF sessions[s] = "revoked" \/ ~active \/ account # "verified"
           THEN Set(r, [Idle EXCEPT !.pc = "revoking", !.arg = s, !.live = Live])
           ELSE Set(r, [Idle EXCEPT !.pc = "rotating", !.arg = s])
  OBVIOUS
<1>2. s \in Sessions /\ rowLock[s] = None /\ sessions[s] \in {"active", "revoked"}
  BY <1>1 DEF Used, FreeFor, TypeOK
<1>3. Live \subseteq Used /\ Live \in SUBSET Sessions
  BY DEF Live, Used
<1>4. PICK state \in States :
        /\ Set(r, state) /\ state.now = 0 /\ state.arg = s
        /\ \/ state.pc = "revoking" /\ state.live \subseteq Used
           \/ state.pc = "rotating" /\ sessions[s] = "active"
  <2>1. Set(r, Revoking(s, Live)) \/ (Set(r, Rotating(s)) /\ sessions[s] = "active")
    BY <1>1, <1>2 DEF Revoking, Rotating
  <2>2. CASE Set(r, Revoking(s, Live))
    BY <1>2, <1>3, <2>2, SessionStates
  <2>3. CASE Set(r, Rotating(s)) /\ sessions[s] = "active"
    BY <1>2, <1>3, <2>3, SessionStates
  <2> QED  BY <2>1, <2>2, <2>3
<1>5. /\ RequestType' /\ request'[r] = state
      /\ \A q \in Requests \ {r} : request'[q] = request[q]
  BY <1>4, SetOf
<1>6. AddressType' /\ LetterType' /\ TableType'
  BY <1>1, TypeParts DEF AddressType, LetterType, TableType
<1>7. time' >= time /\ state.now <= time
  BY <1>4 DEF TypeOK, Times
<1>8. ASSUME NEW q \in Requests \ {r} PROVE Spared(q)
  BY <1>1, <1>2, <1>5, <1>7 DEF Spared, TypeOK
<1>9. RequestInv(r)'
  <2>1. LetterTrue(r)'
    BY <1>4, <1>5 DEF RequestInv, LetterTrue, Mailing
  <2>2. \A t \in Sessions : rowLock[t] # r
    BY DEF RequestInv, SessionTrue, Holding
  <2>3. \A t \in Sessions : rowLock'[t] = r <=> t = s
    BY <1>1, <1>2, <2>2 DEF TypeOK
  <2>4. SessionTrue(r)'
    BY <1>2, <1>4, <1>5, <2>3 DEF SessionTrue, Holding, Used
  <2> QED  BY <1>5, <1>7, <2>1, <2>4 DEF RequestInv
<1>10. CodeWasMailed' /\ BeforeAccount' /\ Rationed' /\ GuessesBounded' /\ Chains'
  BY <1>6, <1>7, RowFrame, ChainsFrame
<1> QED  BY <1>5, <1>6, <1>8, <1>9, <1>10, RequestStep

\* The locks that a transaction releases are its own.
LEMMA UnlockedOf ==
    ASSUME TypeOK, NEW r \in Requests, rowLock' = Unlocked(r)
    PROVE  /\ rowLock' \in [Sessions -> Requests \cup {None}]
           /\ \A s \in Sessions : rowLock'[s] # r
           /\ \A q \in Requests \ {r}, s \in Sessions : rowLock'[s] = q <=> rowLock[s] = q
  BY NoneIsNothing DEF Unlocked, TypeOK

\* A token is exchanged: its session is revoked and the next one inserted.
LEMMA RotateStep ==
    ASSUME IInv, NEW r \in Requests, Rotate(r)
    PROVE  IInv'
<1> USE AccountConstants, NoneIsNothing DEF IInv, Rotate, verification
<1> DEFINE arg == request[r].arg
<1>1. End("done") \in States /\ End("done").pc = "done" /\ End("done").now <= time
  BY EndState, RequestTypes DEF Ends
<1>2. /\ RequestType' /\ request'[r] = End("done")
      /\ \A q \in Requests \ {r} : request'[q] = request[q]
  BY <1>1, SetOf
<1>3. /\ arg \in Sessions /\ sessions[arg] = "active" /\ rowLock[arg] = r
  BY DEF RequestInv, SessionTrue, Holding
<1>4. /\ Chains' /\ sessions' \in [Sessions -> {None, "active", "revoked"}]
      /\ parent' \in [Sessions -> 0 .. MaxSessions]
      /\ Fresh \in Sessions /\ sessions[Fresh] = None /\ sessions'[Fresh] = "active"
      /\ \A s \in Sessions \ {Fresh} :
           sessions'[s] = IF s = arg THEN "revoked" ELSE sessions[s]
  BY <1>3, InsertChains
<1>5. /\ rowLock' \in [Sessions -> Requests \cup {None}]
      /\ \A s \in Sessions : rowLock'[s] # r
      /\ \A q \in Requests \ {r}, s \in Sessions : rowLock'[s] = q <=> rowLock[s] = q
  BY UnlockedOf
<1>6. AddressType' /\ LetterType' /\ TableType'
  BY <1>4, <1>5, TypeParts DEF AddressType, LetterType, TableType
<1>7. time' >= time
  BY DEF TypeOK, Times
<1>8. ASSUME NEW q \in Requests \ {r} PROVE Spared(q)
  <2>1. \A s \in Sessions :
          /\ rowLock'[s] = q <=> rowLock[s] = q
          /\ sessions[s] = "revoked" => sessions'[s] = "revoked"
          /\ sessions[s] # None => sessions'[s] # None
          /\ rowLock[s] = q /\ sessions[s] = "active" => sessions'[s] = "active"
    BY <1>3, <1>4, <1>5
  <2> QED  BY <1>2, <1>7, <2>1 DEF Spared
<1>9. RequestInv(r)'
  <2>1. LetterTrue(r)'
    BY <1>1, <1>2 DEF RequestInv, LetterTrue, Mailing
  <2>2. SessionTrue(r)'
    BY <1>1, <1>2, <1>5 DEF SessionTrue, Holding
  <2> QED  BY <1>1, <1>2, <2>1, <2>2 DEF RequestInv
<1>10. CodeWasMailed' /\ BeforeAccount' /\ Rationed' /\ GuessesBounded'
  BY <1>6, <1>7, RowFrame
<1> QED  BY <1>2, <1>4, <1>6, <1>8, <1>9, <1>10, RequestStep

\* The sessions that were active are revoked, none of them under a lock of another
\* transaction.
LEMMA RevokeAllStep ==
    ASSUME IInv, NEW r \in Requests, RevokeAll(r)
    PROVE  IInv'
<1> USE AccountConstants, NoneIsNothing DEF IInv, RevokeAll, verification, Revocable
<1> DEFINE live  == request[r].live
           state == [End("reuse") EXCEPT !.live = live]
<1>1. live \subseteq Used /\ live \subseteq Sessions
  BY RequestTypes DEF RequestInv, SessionTrue
<1>2. state \in States /\ state.pc = "reuse" /\ state.now <= time /\ state.live = live
  <2>1. End("reuse") \in States /\ End("reuse").pc = "reuse" /\ End("reuse").now <= time
    BY EndState, RequestTypes DEF Ends
  <2> QED  BY <1>1, <2>1 DEF States
<1>3. /\ RequestType' /\ request'[r] = state
      /\ \A q \in Requests \ {r} : request'[q] = request[q]
  BY <1>2, SetOf
<1>4. Chains' /\ sessions' \in [Sessions -> {None, "active", "revoked"}]
  BY <1>1, RevokeChains
<1>5. /\ rowLock' \in [Sessions -> Requests \cup {None}]
      /\ \A s \in Sessions : rowLock'[s] # r
      /\ \A q \in Requests \ {r}, s \in Sessions : rowLock'[s] = q <=> rowLock[s] = q
  BY UnlockedOf
<1>6. AddressType' /\ LetterType' /\ TableType'
  BY <1>4, <1>5, TypeParts DEF AddressType, LetterType, TableType
<1>7. time' >= time
  BY DEF TypeOK, Times
<1>8. ASSUME NEW q \in Requests \ {r} PROVE Spared(q)
  <2>1. \A s \in Sessions :
          /\ rowLock'[s] = q <=> rowLock[s] = q
          /\ sessions[s] = "revoked" => sessions'[s] = "revoked"
          /\ sessions[s] # None => sessions'[s] # None
          /\ rowLock[s] = q /\ sessions[s] = "active" => sessions'[s] = "active"
    BY <1>1, <1>5
  <2> QED  BY <1>3, <1>7, <2>1 DEF Spared
<1>9. RequestInv(r)'
  <2>1. LetterTrue(r)'
    BY <1>2, <1>3 DEF RequestInv, LetterTrue, Mailing
  <2>2. /\ live \subseteq Used'
        /\ \A s \in live : sessions'[s] = "revoked"
    BY <1>1 DEF Used
  <2>3. SessionTrue(r)'
    BY <1>2, <1>3, <1>5, <2>2 DEF SessionTrue, Holding
  <2> QED  BY <1>2, <1>3, <2>1, <2>3 DEF RequestInv
<1>10. CodeWasMailed' /\ BeforeAccount' /\ Rationed' /\ GuessesBounded'
  BY <1>6, <1>7, RowFrame
<1> QED  BY <1>3, <1>4, <1>6, <1>8, <1>9, <1>10, RequestStep

\* A session is ended by its user.
LEMMA LogoutStep ==
    ASSUME IInv, NEW r \in Requests, Logout(r)
    PROVE  IInv'
<1> USE AccountConstants, NoneIsNothing DEF IInv, Logout, verification
<1>1. End("done") \in States /\ End("done").pc = "done" /\ End("done").now <= time
  BY EndState, RequestTypes DEF Ends
<1>2. /\ RequestType' /\ request'[r] = End("done")
      /\ \A q \in Requests \ {r} : request'[q] = request[q]
  BY <1>1, SetOf
<1>3. PICK s \in Used : FreeFor(s) /\ sessions' = [sessions EXCEPT ![s] = "revoked"]
  OBVIOUS
<1>4. {s} \in SUBSET Used /\ rowLock[s] = None /\ s \in Sessions
  BY <1>3 DEF FreeFor, Used
<1>5. sessions' = [t \in Sessions |-> IF t \in {s} THEN "revoked" ELSE sessions[t]]
  BY <1>3 DEF TypeOK
<1>6. Chains' /\ sessions' \in [Sessions -> {None, "active", "revoked"}]
  BY <1>4, <1>5, RevokeChains
<1>7. AddressType' /\ LetterType' /\ TableType'
  BY <1>6, TypeParts DEF AddressType, LetterType, TableType
<1>8. time' >= time
  BY DEF TypeOK, Times
<1>9. ASSUME NEW q \in Requests \ {r} PROVE Spared(q)
  BY <1>2, <1>4, <1>5, <1>8 DEF Spared
<1>10. RequestInv(r)'
  <2>1. LetterTrue(r)'
    BY <1>1, <1>2 DEF RequestInv, LetterTrue, Mailing
  <2>2. SessionTrue(r)'
    BY <1>1, <1>2 DEF RequestInv, SessionTrue, Holding
  <2> QED  BY <1>1, <1>2, <2>1, <2>2 DEF RequestInv
<1>11. CodeWasMailed' /\ BeforeAccount' /\ Rationed' /\ GuessesBounded'
  BY <1>7, <1>8, RowFrame
<1> QED  BY <1>2, <1>6, <1>7, <1>9, <1>10, <1>11, RequestStep

\* A transaction is rolled back.
LEMMA AbortStep ==
    ASSUME IInv, NEW r \in Requests, Abort(r)
    PROVE  IInv'
<1> USE AccountConstants, NoneIsNothing DEF IInv, Abort
<1>1. End("failed") \in States /\ End("failed").pc = "failed" /\ End("failed").now <= time
  BY EndState, RequestTypes DEF Ends
<1>2. /\ RequestType' /\ request'[r] = End("failed")
      /\ \A q \in Requests \ {r} : request'[q] = request[q]
  BY <1>1, SetOf
<1>3. /\ rowLock' \in [Sessions -> Requests \cup {None}]
      /\ \A s \in Sessions : rowLock'[s] # r
      /\ \A q \in Requests \ {r}, s \in Sessions : rowLock'[s] = q <=> rowLock[s] = q
  BY UnlockedOf
<1>4. AddressType' /\ LetterType' /\ TableType'
  BY <1>3, TypeParts DEF AddressType, LetterType, TableType
<1>5. time' >= time
  BY DEF TypeOK, Times
<1>6. ASSUME NEW q \in Requests \ {r} PROVE Spared(q)
  BY <1>2, <1>3, <1>5 DEF Spared
<1>7. RequestInv(r)'
  <2>1. LetterTrue(r)'
    BY <1>1, <1>2 DEF LetterTrue, Mailing
  <2>2. SessionTrue(r)'
    BY <1>1, <1>2, <1>3 DEF SessionTrue, Holding
  <2> QED  BY <1>1, <1>2, <2>1, <2>2 DEF RequestInv
<1>8. CodeWasMailed' /\ BeforeAccount' /\ Rationed' /\ GuessesBounded' /\ Chains'
  BY <1>4, <1>5, RowFrame, ChainsFrame
<1> QED  BY <1>2, <1>4, <1>6, <1>7, <1>8, RequestStep
-----------------------------------------------------------------------------
(* The theorems.                                                           *)

\* The initial states satisfy the invariant: an address that is not registered, or a
\* user with two devices logged in.
THEOREM InitInvariant == Init => IInv
<1> SUFFICES ASSUME Init PROVE IInv
  OBVIOUS
<1> USE AccountConstants, NoneIsNothing DEF Init
<1>1. AddressType /\ LetterType /\ TableType /\ ActiveType
  BY DEF AddressType, LetterType, TableType, ActiveType, Times, Codes
<1>2. RequestType
  <2>1. Idle \in States
    BY ArgTypes DEF Idle, States, Times
  <2> QED  BY <2>1 DEF RequestType
<1>3. TypeOK
  BY <1>1, <1>2, TypeParts
<1>4. ASSUME NEW r \in Requests PROVE RequestInv(r)
  BY DEF RequestInv, LetterTrue, SessionTrue, Idle, Mailing, Holding
<1>5. CodeWasMailed /\ BeforeAccount /\ Rationed
  BY DEF CodeWasMailed, BeforeAccount, Rationed, Locking, Counted
<1>6. GuessesBounded
  <2>1. time \div FAILED_WINDOW + 1 \in Nat
    BY Windows
  <2>2. MAX_FAILED * (time \div FAILED_WINDOW + 1) \in Nat
    BY <2>1
  <2> QED  BY <2>2 DEF GuessesBounded
<1>7. Chains
  <2>1. \E n \in 0 .. MaxSessions : Used = 1 .. n
    <3>1. CASE sessions = [s \in Sessions |-> None]
      <4>1. Used = 1 .. 0
        BY <3>1 DEF Used
      <4> QED  BY <4>1
    <3>2. CASE sessions = [s \in Sessions |-> IF s <= 2 THEN "active" ELSE None]
      <4>1. Used = 1 .. 2 /\ 2 \in 0 .. MaxSessions
        BY <3>2 DEF Used, Sessions
      <4> QED  BY <4>1
    <3> QED  BY <3>1, <3>2
  <2> QED  BY <2>1 DEF Chains
<1> QED  BY <1>3, <1>4, <1>5, <1>6, <1>7 DEF IInv

\* Every step preserves the invariant.
THEOREM StepInvariant == IInv /\ [Next]_vars => IInv'
<1> SUFFICES ASSUME IInv, [Next]_vars PROVE IInv'
  OBVIOUS
<1>1. CASE UNCHANGED vars
  BY <1>1 DEF vars, verification, logins, IInv, TypeOK, RequestInv, LetterTrue, SessionTrue,
       CodeWasMailed, BeforeAccount, Rationed, Locking, Counted, GuessesBounded, Chains, Used
<1>2. CASE Tick
  BY <1>2, TickStep
<1>3. CASE Disable
  BY <1>3, DisableStep
<1>4. ASSUME NEW r \in Requests,
             \/ BeginRegister(r) \/ InsertAccount(r)
             \/ MailSent(r) \/ MailFails(r) \/ CommitCode(r)
             \/ BeginVerify(r) \/ CommitVerify(r)
             \/ BeginResend(r) \/ LockRow(r) \/ InsertRow(r)
             \/ BeginLogin(r) \/ CommitLogin(r)
             \/ LockSession(r) \/ Rotate(r) \/ RevokeAll(r) \/ Logout(r)
             \/ Abort(r)
      PROVE  IInv'
  BY <1>4, BeginRegisterStep, InsertAccountStep, MailSentStep, MailFailsStep, CommitCodeStep,
     BeginVerifyStep, CommitVerifyStep, BeginResendStep, LockRowStep, InsertRowStep,
     BeginLoginStep, CommitLoginStep, LockSessionStep, RotateStep, RevokeAllStep,
     LogoutStep, AbortStep
<1> QED  BY <1>1, <1>2, <1>3, <1>4 DEF Next

\* The invariant holds in every state of every execution.
THEOREM Inductive == Spec => []IInv
  BY InitInvariant, StepInvariant, PTL DEF Spec

\* Every variable keeps its type.
THEOREM TypeCorrect == Spec => []TypeOK
<1>1. IInv => TypeOK
  BY DEF IInv
<1> QED  BY <1>1, Inductive, PTL

\* The code that a user may enter has left by mail, and an account that waits for a
\* code has one: register and resend_verification, with a mail that fails, or whose
\* answer is lost, at any moment of the transaction.
THEOREM CodesCorrect == Spec => []CodeWasMailed
<1>1. IInv => CodeWasMailed
  BY DEF IInv
<1> QED  BY <1>1, Inductive, PTL

\* No sequence of wrong codes and new ones passes the ration of
\* _record_verification_failure, whatever clocks the requests read before they waited.
THEOREM GuessesCorrect == Spec => []GuessesBounded
<1>1. IInv => GuessesBounded
  BY DEF IInv
<1> QED  BY <1>1, Inductive, PTL

\* A refresh token is exchanged at most once, and one that is presented again ends
\* the sessions the user had.
THEOREM TokensCorrect == Spec => []TokensUsedOnce
<1>1. IInv => TokensUsedOnce
  <2> SUFFICES ASSUME IInv PROVE TokensUsedOnce
    OBVIOUS
  <2>1. ASSUME NEW s \in Sessions
        PROVE  LET next == {t \in Sessions : parent[t] = s} IN
               Cardinality(next) <= 1 /\ (next # {} => sessions[s] = "revoked")
    <3> DEFINE next == {t \in Sessions : parent[t] = s}
    <3>1. s # 0
      BY DEF Sessions
    <3>2. next # {} => sessions[s] = "revoked"
      BY <3>1 DEF IInv, Chains
    <3>3. CASE next = {}
      <4>1. Cardinality(next) = 0
        BY <3>3, FS_EmptySet
      <4> QED  BY <3>2, <4>1
    <3>4. CASE next # {}
      <4>1. PICK t \in Sessions : parent[t] = s
        BY <3>4
      <4>2. next = {t}
        BY <3>1, <4>1 DEF IInv, Chains
      <4>3. Cardinality(next) = 1
        BY <4>2, FS_Singleton
      <4> QED  BY <3>2, <4>3
    <3> QED  BY <3>3, <3>4
  <2>2. ASSUME NEW r \in Requests, request[r].pc = "reuse"
        PROVE  \A s \in request[r].live : sessions[s] = "revoked"
    BY <2>2 DEF IInv, RequestInv, SessionTrue
  <2> QED  BY <2>1, <2>2 DEF TokensUsedOnce
<1> QED  BY <1>1, Inductive, PTL
=============================================================================
