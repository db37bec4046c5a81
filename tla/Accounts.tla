------------------------------ MODULE Accounts ------------------------------
(***************************************************************************)
(* One account of the back end, by its e-mail address: registration, the   *)
(* verification code that is mailed in the middle of a transaction, login, *)
(* and the refresh sessions with their rotation.  Requests run at the same *)
(* time, each in its own READ COMMITTED transaction; a transaction that    *)
(* sends a mail keeps its row lock until the mail service has answered.    *)
(* Every request reads its clock before it waits for the lock.             *)
(***************************************************************************)
EXTENDS Naturals, FiniteSets

CONSTANTS
    Requests, None,
    TTL,                    \* VERIFICATION_CODE_TTL_MINUTES
    COOLDOWN,               \* VERIFICATION_RESEND_COOLDOWN_SECONDS
    SEND_WINDOW, MAX_SENDS, \* VERIFICATION_SEND_WINDOW_MINUTES, _MAX_SENDS_PER_WINDOW
    FAILED_WINDOW, MAX_FAILED,  \* VERIFICATION_FAILED_WINDOW_MINUTES, _MAX_FAILED_ATTEMPTS
    MaxTime, MaxCodes, MaxSessions      \* model bounds

ASSUME AccountConstants ==
    /\ None \notin Requests
    /\ {TTL, COOLDOWN, SEND_WINDOW, MAX_SENDS, FAILED_WINDOW, MAX_FAILED}
            \subseteq Nat \ {0}
    /\ MaxTime \in Nat /\ MaxCodes \in Nat /\ MaxSessions \in Nat \ {0, 1}

VARIABLES
    time,
    account,    \* the users row: "none", "pending" or "verified"
    active,     \* its is_active, which the operator of the service may clear
    row,        \* the email_verifications row, or None
    holder,     \* transaction that has locked or inserted it and not ended
    codes,      \* codes generated so far
    mailed,     \* codes that reached the mailbox
    guesses,    \* history: wrong codes compared while the account was pending
    sessions,   \* the auth_sessions rows, by the order of their insertion
    parent,     \* history: the session each session was exchanged for
    rowLock,    \* transaction that has locked each session
    request     \* what each request is doing

verification == <<row, holder, codes, mailed, guesses>>
logins       == <<sessions, parent, rowLock>>
vars         == <<time, account, active, verification, logins, request>>

Codes    == 1 .. MaxCodes
Sessions == 1 .. MaxSessions
Times    == 0 .. MaxTime

\* "lockedUntil" is 0 where the code has NULL.
Rows == [code: Codes, expires: Nat, attempts: 0 .. MAX_FAILED, failedFrom: Times \cup {None},
         lockedUntil: Nat, lastSent: Times, windowFrom: Times, sends: Nat]

ASSUME NoneIsNothing == None \notin Requests \cup Nat \cup Rows \cup {"active", "revoked"}

Idle     == [pc |-> "idle", now |-> 0, arg |-> 0, live |-> {}]
End(how) == [Idle EXCEPT !.pc = how]
Ends     == {"done", "refused", "failed", "reuse"}
States   == [pc: Ends \cup {"idle", "registering", "verifying", "resending", "inserting",
                            "mailing", "mailed", "login", "rotating", "revoking"},
             now: Times, arg: 0 .. MaxCodes + MaxSessions, live: SUBSET Sessions]

TypeOK ==
    /\ time \in Times /\ active \in BOOLEAN
    /\ account \in {"none", "pending", "verified"}
    /\ row \in Rows \cup {None} /\ holder \in Requests \cup {None}
    /\ codes \in 0 .. MaxCodes /\ mailed \subseteq Codes
    /\ guesses \in Nat
    /\ sessions \in [Sessions -> {None, "active", "revoked"}]
    /\ parent \in [Sessions -> 0 .. MaxSessions]
    /\ rowLock \in [Sessions -> Requests \cup {None}]
    /\ request \in [Requests -> States]

\* Before the registration, or later, with two devices of the user logged in.
Init ==
    /\ time = 0 /\ active = TRUE
    /\ row = None /\ holder = None /\ codes = 0 /\ mailed = {}
    /\ guesses = 0
    /\ parent = [s \in Sessions |-> 0]
    /\ rowLock = [s \in Sessions |-> None]
    /\ request = [r \in Requests |-> Idle]
    /\ \/ account = "none" /\ sessions = [s \in Sessions |-> None]
       \/ /\ account = "verified"
          /\ sessions = [s \in Sessions |-> IF s <= 2 THEN "active" ELSE None]

Set(r, state) == request' = [request EXCEPT ![r] = state]

Tick ==
    /\ time < MaxTime
    /\ time' = time + 1
    /\ UNCHANGED <<account, active, verification, logins, request>>

\* Nothing in src/app clears is_active; every login and refresh checks it.
Disable ==
    /\ active /\ account = "verified"
    /\ active' = FALSE
    /\ UNCHANGED <<time, account, verification, logins, request>>
-----------------------------------------------------------------------------
(* Registration.                                                           *)

NewRow(code, now) ==
    [code |-> code, expires |-> now + TTL, attempts |-> 0, failedFrom |-> None,
     lockedUntil |-> 0, lastSent |-> now, windowFrom |-> now, sends |-> 1]

BeginRegister(r) ==
    /\ request[r].pc = "idle"
    /\ Set(r, IF account = "none" THEN End("registering") ELSE End("refused"))
    /\ UNCHANGED <<time, account, active, verification, logins>>

\* Takes a new code into the transaction of r and goes on to the mail.
TakeCode(r, now) ==
    /\ codes < MaxCodes
    /\ codes' = codes + 1
    /\ holder' = r
    /\ Set(r, [Idle EXCEPT !.pc = "mailing", !.now = now, !.arg = codes + 1])

\* Both flushes: the unique address makes the second of two registrations wait
\* for the first and then fail.
InsertAccount(r) ==
    /\ request[r].pc = "registering" /\ holder = None
    /\ IF account = "none" THEN TakeCode(r, time)
       ELSE Set(r, End("refused")) /\ UNCHANGED <<codes, holder>>
    /\ UNCHANGED <<time, account, active, row, mailed, guesses, logins>>

\* Mutant of MailFails: the transaction goes on without the mail.
MailIgnored(r) ==
    /\ request[r].pc = "mailing"
    /\ mailed' \in {mailed, mailed \cup {request[r].arg}}
    /\ Set(r, [request[r] EXCEPT !.pc = "mailed"])
    /\ UNCHANGED <<time, account, active, row, codes, holder, guesses, logins>>

MailSent(r) ==
    /\ request[r].pc = "mailing"
    /\ mailed' = mailed \cup {request[r].arg}
    /\ Set(r, [request[r] EXCEPT !.pc = "mailed"])
    /\ UNCHANGED <<time, account, active, row, codes, holder, guesses, logins>>

\* EmailDeliveryError, also when the answer of the mail service was lost after
\* the mail had left: everything is rolled back.
MailFails(r) ==
    /\ request[r].pc = "mailing"
    /\ mailed' \in {mailed, mailed \cup {request[r].arg}}
    /\ holder' = None
    /\ Set(r, End("failed"))
    /\ UNCHANGED <<time, account, active, row, codes, guesses, logins>>

\* Mutant of Resent: a new code starts with a clean record.
ResentForgiven(code, now) == [NewRow(code, now) EXCEPT !.sends = row.sends + 1]

\* A new code replaces the old one; the failed attempts and the lock stay.
Resent(code, now) ==
    LET again == now >= row.windowFrom + SEND_WINDOW IN
    [row EXCEPT !.code = code, !.expires = now + TTL, !.lastSent = now,
                !.windowFrom = IF again THEN now ELSE @,
                !.sends = IF again THEN 1 ELSE @ + 1]

\* The commit of register or resend_verification.
CommitCode(r) ==
    /\ request[r].pc = "mailed"
    /\ LET code == request[r].arg  now == request[r].now IN
       row' = IF row = None THEN NewRow(code, now) ELSE Resent(code, now)
    /\ account' = IF account = "none" THEN "pending" ELSE account
    /\ holder' = None
    /\ Set(r, End("done"))
    /\ UNCHANGED <<time, active, codes, mailed, guesses, logins>>
-----------------------------------------------------------------------------
(* verify_email.                                                           *)

\* The user row is read without a lock, and the clock before the lock.
BeginVerify(r) ==
    /\ request[r].pc = "idle"
    /\ \E code \in mailed \cup {0} :
        Set(r, IF account = "pending"
               THEN [Idle EXCEPT !.pc = "verifying", !.now = time, !.arg = code]
               ELSE End("refused"))
    /\ UNCHANGED <<time, account, active, verification, logins>>

\* Mutant of Failed: a new window does not begin with a new count.
FailedCounting(now) ==
    LET again == row.failedFrom = None \/ now >= row.failedFrom + FAILED_WINDOW
        from  == IF again THEN now ELSE row.failedFrom
    IN  [row EXCEPT !.failedFrom = from, !.attempts = @ + 1,
                    !.lockedUntil = IF row.attempts + 1 >= MAX_FAILED
                                    THEN from + FAILED_WINDOW
                                    ELSE IF again THEN 0 ELSE @]

\* _record_verification_failure.
Failed(now) ==
    LET again == row.failedFrom = None \/ now >= row.failedFrom + FAILED_WINDOW
        from  == IF again THEN now ELSE row.failedFrom
        count == IF again THEN 1 ELSE row.attempts + 1
    IN  [row EXCEPT !.failedFrom = from, !.attempts = count,
                    !.lockedUntil = IF count >= MAX_FAILED THEN from + FAILED_WINDOW
                                    ELSE IF again THEN 0 ELSE @]

Usable(now) == row # None /\ now >= row.lockedUntil /\ now < row.expires

\* The row lock, the checks and the commit.
CommitVerify(r) ==
    LET now == request[r].now  code == request[r].arg IN
    /\ request[r].pc = "verifying" /\ (row # None => holder = None)
    /\ IF ~Usable(now)
       THEN Set(r, End("refused")) /\ UNCHANGED <<row, account, guesses>>
       ELSE IF code # row.code
       THEN /\ row' = Failed(now)
            /\ guesses' = IF account = "pending" THEN guesses + 1 ELSE guesses
            /\ Set(r, End("refused")) /\ UNCHANGED account
       ELSE /\ account' = "verified" /\ row' = None
            /\ Set(r, End("done")) /\ UNCHANGED guesses
    /\ UNCHANGED <<time, active, holder, codes, mailed, logins>>
-----------------------------------------------------------------------------
(* resend_verification.  All its answers to the caller are the same.       *)

BeginResend(r) ==
    /\ request[r].pc = "idle"
    /\ Set(r, IF account = "pending" THEN [Idle EXCEPT !.pc = "resending", !.now = time]
              ELSE End("refused"))
    /\ UNCHANGED <<time, account, active, verification, logins>>

MaySend(now) ==
    /\ now >= row.lastSent + COOLDOWN
    /\ now >= row.windowFrom + SEND_WINDOW \/ row.sends < MAX_SENDS

\* SELECT ... FOR UPDATE: the account may have been verified by then, and its
\* row deleted.
LockRow(r) ==
    LET now == request[r].now IN
    /\ request[r].pc = "resending" /\ (row # None => holder = None)
    /\ IF row = None
       THEN /\ Set(r, [request[r] EXCEPT !.pc = "inserting"])
            /\ UNCHANGED <<codes, holder>>
       ELSE IF MaySend(now) THEN TakeCode(r, now)
       ELSE Set(r, End("refused")) /\ UNCHANGED <<codes, holder>>
    /\ UNCHANGED <<time, account, active, row, mailed, guesses, logins>>

\* The insertion of a row that was missing; a second one violates the key.
InsertRow(r) ==
    /\ request[r].pc = "inserting" /\ holder = None
    /\ IF row = None THEN TakeCode(r, request[r].now)
       ELSE Set(r, End("refused")) /\ UNCHANGED <<codes, holder>>
    /\ UNCHANGED <<time, account, active, row, mailed, guesses, logins>>
-----------------------------------------------------------------------------
(* Sessions.                                                               *)

Used  == {s \in Sessions : sessions[s] # None}
Live  == {s \in Sessions : sessions[s] = "active"}
Fresh == Cardinality(Used) + 1

\* create_auth_session and its commit.
Insert(old, from) ==
    /\ Fresh \in Sessions
    /\ sessions' = [old EXCEPT ![Fresh] = "active"]
    /\ parent' = [parent EXCEPT ![Fresh] = from]

\* The password and the flags of the user are read without a lock.
BeginLogin(r) ==
    /\ request[r].pc = "idle"
    /\ Set(r, IF account = "verified" /\ active THEN End("login") ELSE End("refused"))
    /\ UNCHANGED <<time, account, active, verification, logins>>

CommitLogin(r) ==
    /\ request[r].pc = "login"
    /\ Insert(sessions, 0)
    /\ Set(r, End("done"))
    /\ UNCHANGED <<time, account, active, verification, rowLock>>

\* Mutant of FreeFor: the row of the session is read without FOR UPDATE.
FreeOrNot(s) == TRUE

FreeFor(s) == rowLock[s] = None

\* find_refresh_session_for_update and the decision.  A revoked token, and a
\* user who may not log in any more, revoke every session of the user.
LockSession(r) ==
    /\ request[r].pc = "idle"
    /\ \E s \in Used :
        /\ FreeFor(s)
        /\ rowLock' = [rowLock EXCEPT ![s] = r]
        /\ IF sessions[s] = "revoked" \/ ~active \/ account # "verified"
           THEN Set(r, [Idle EXCEPT !.pc = "revoking", !.arg = s, !.live = Live])
           ELSE Set(r, [Idle EXCEPT !.pc = "rotating", !.arg = s])
    /\ UNCHANGED <<time, account, active, verification, sessions, parent>>

Unlocked(r) == [s \in Sessions |-> IF rowLock[s] = r THEN None ELSE rowLock[s]]

Rotate(r) ==
    /\ request[r].pc = "rotating"
    /\ Insert([sessions EXCEPT ![request[r].arg] = "revoked"], request[r].arg)
    /\ rowLock' = Unlocked(r)
    /\ Set(r, End("done"))
    /\ UNCHANGED <<time, account, active, verification>>

\* The rows an UPDATE of this user's sessions finds when it starts.
Revocable(r) == request[r].live

\* revoke_all_active_sessions and the commit: the UPDATE waits for the rows
\* that other transactions have locked and looks at them again.
RevokeAll(r) ==
    /\ request[r].pc = "revoking"
    /\ \A s \in Revocable(r) : rowLock[s] \in {None, r}
    /\ sessions' = [s \in Sessions |->
                        IF s \in Revocable(r) THEN "revoked" ELSE sessions[s]]
    /\ rowLock' = Unlocked(r)
    /\ Set(r, [End("reuse") EXCEPT !.live = request[r].live])
    /\ UNCHANGED <<time, account, active, verification, parent>>

\* logout: the token may be any that was ever given out.
Logout(r) ==
    /\ request[r].pc = "idle"
    /\ \E s \in Used :
        /\ FreeFor(s)
        /\ sessions' = [sessions EXCEPT ![s] = "revoked"]
    /\ Set(r, End("done"))
    /\ UNCHANGED <<time, account, active, verification, parent, rowLock>>
-----------------------------------------------------------------------------
\* A statement or the commit fails, the process stops, or PostgreSQL breaks a
\* deadlock of two revocations: the transaction is rolled back.
Abort(r) ==
    /\ request[r].pc \in {"mailed", "rotating", "revoking"}
    /\ Set(r, End("failed"))
    /\ holder' = IF holder = r THEN None ELSE holder
    /\ rowLock' = Unlocked(r)
    /\ UNCHANGED <<time, account, active, row, codes, mailed, guesses, sessions, parent>>

Next ==
    \/ Tick
    \/ Disable
    \/ \E r \in Requests :
        \/ BeginRegister(r) \/ InsertAccount(r)
        \/ MailSent(r) \/ MailFails(r) \/ CommitCode(r)
        \/ BeginVerify(r) \/ CommitVerify(r)
        \/ BeginResend(r) \/ LockRow(r) \/ InsertRow(r)
        \/ BeginLogin(r) \/ CommitLogin(r)
        \/ LockSession(r) \/ Rotate(r) \/ RevokeAll(r) \/ Logout(r)
        \/ Abort(r)

Spec == Init /\ [][Next]_vars
-----------------------------------------------------------------------------
(* Correctness.                                                            *)

\* A code can be used only after it has left by mail, whatever fails between
\* the insertion, the mail and the commit; and an account that waits for a code
\* has one.
CodeWasMailed ==
    /\ row # None => row.code \in mailed
    /\ account = "pending" => row # None

\* Guessing: every FAILED_WINDOW since the registration allows MAX_FAILED wrong
\* codes, whatever is resent, waits for a lock with an old clock or is compared at
\* the same time in between.
GuessesBounded == guesses <= MAX_FAILED * (time \div FAILED_WINDOW + 1)

\* A refresh token is exchanged at most once, so that the sessions form chains of
\* which only the last link can be active; and a token that was presented again
\* ends every session the user had at that moment, those that other requests were
\* just exchanging included.  (A session another request inserts meanwhile is not
\* among them.)
TokensUsedOnce ==
    /\ \A s \in Sessions :
         LET next == {t \in Sessions : parent[t] = s} IN
         Cardinality(next) <= 1 /\ (next # {} => sessions[s] = "revoked")
    /\ \A r \in Requests : request[r].pc = "reuse" =>
         \A s \in request[r].live : sessions[s] = "revoked"
=============================================================================
