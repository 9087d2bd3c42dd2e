---------------------------- MODULE AuthServer ----------------------------
(***************************************************************************)
(* The HTTP handlers of basicauth, running concurrently (on one server or  *)
(* on several replicas) against one Storage.                               *)
(*                                                                         *)
(* net/http runs each request in a goroutine of its own; between two       *)
(* storage calls of one request any other request may run.  So a handler   *)
(* is a sequence of steps with one storage call each, and what it read     *)
(* stays in its request record (snap, cur) while the stored account moves  *)
(* on.  Steps that touch nothing shared (parsing, hashing, checking a code *)
(* against a value already read) are folded into the neighbouring call.    *)
(*                                                                         *)
(* Sessions live in signed cookies, not on the server.  cookies is the set *)
(* of all session values ever signed: a client may send any of them, in    *)
(* any order, any number of times, so lost, late and repeated responses,   *)
(* several tabs and replayed copies are all in the model.                  *)
(***************************************************************************)
EXTENDS Storage, FiniteSets

CONSTANTS
    Requests,           \* request slots: how many handlers run at once
    Calls,              \* the operations clients invoke in this instance
    InitialTables,      \* the possible contents of the storage at the start
    LongPasswords,      \* passwords over 72 bytes, which HashPassword rejects
    Truncated,          \* the first 72 bytes of each password
    LegacyVerifier,     \* Settings.LegacyPasswordVerifier is BcryptVerifier
    EnableTFA,          \* Settings.EnableTFA
    MaxVerifyAttempts,  \* Settings.TFA.MaxVerifyAttempts, 0 for no limit
    BackupCodeCount,    \* Settings.TFA.BackupCodeCount
    PendingTTL,         \* Settings.TFA.PendingSessionTTL, in clock ticks
    MaxTime             \* bound on the clock

ASSUME ServerConstants ==
    /\ IsFiniteSet(Requests)
    /\ LongPasswords \subseteq Passwords
    /\ Truncated \in [Passwords -> Passwords \ LongPasswords]
    /\ \A pw \in Passwords \ LongPasswords : Truncated[pw] = pw
    /\ LegacyVerifier \in BOOLEAN
    /\ EnableTFA \in BOOLEAN
    /\ MaxVerifyAttempts \in Nat
    /\ BackupCodeCount \in Nat
    /\ PendingTTL \in Nat \ {0}
    /\ MaxTime \in Nat

(* Backup codes and secrets are random: no two users of a storage share    *)
(* one.  SetTOTP stores both and ClearTOTP clears both.                    *)
ASSUME InitialTablesAssumption ==
    /\ InitialTables \subseteq [Users -> Account]
    /\ \A t \in InitialTables : \A u, v \in Users :
          u # v => t[u].codes \cap t[v].codes = {} /\ (Enrolled(t[u]) => t[u].secret # t[v].secret)
    /\ \A t \in InitialTables : \A u \in Users : t[u].codes # {} => Enrolled(t[u])

VARIABLES
    acct,     \* the stored users (acct[u] counts while u is in live)
    live,     \* the users that have not been deleted
    req,      \* the state of each request handler
    cookies,  \* all session values signed so far
    now,      \* the server's clock
    (* History only, read by no handler: *)
    owner,    \* the user a secret or backup code was drawn for, or None
    tries,    \* codes checked for a user since the last fresh budget
    held,     \* requests holding an attempt of that budget, code unchecked
    proved,   \* users for whom a stored second factor has been presented
    everOff,  \* users that were unenrolled at some time
    uses,     \* how many requests a backup code has let through
    promised, \* backup codes a user was shown and has neither used nor dropped
    resetTo,  \* the password the last reset of a user gave it, or None
    raced,    \* users reset while an upgrade was about to write
    doubled   \* users with two enables under way at once

history == <<owner, tries, held, proved, everOff, uses, promised, resetTo, raced, doubled>>
vars == <<acct, live, req, cookies, now, history>>

----------------------------------------------------------------------------
(* Session cookies: the values handler.go and handler_tfa.go keep in one.  *)

Session == [uid: Users \cup {None},      \* "user_id"
            pend: Users \cup {None},     \* "pending_tfa_user_id"
            pexp: Nat,                   \* "pending_tfa_expires_at"
            psec: Secrets \cup {None}]   \* "pending_tfa_secret"

NoSession == [uid |-> None, pend |-> None, pexp |-> 0, psec |-> None]

(* Faulty variant for mutation: the old login stays in the session.        *)
PendingAlsoLoggedIn(c, u, expiry) == [c EXCEPT !.uid = u, !.pend = u, !.pexp = expiry]

PendingSession(c, u, expiry) == [c EXCEPT !.uid = None, !.pend = u, !.pexp = expiry]

LoginSession(c, u) == [c EXCEPT !.uid = u]

EndPending(c) == [c EXCEPT !.pend = None, !.pexp = 0]

(* What one request handler remembers from step to step.                   *)
Request == [pc: {"idle", "upgradeRead", "upgradeWrite", "loginIssue",
                 "verifyRead", "verifyReserve", "verifyCheck",
                 "verifyConsume", "verifyReset", "enableSet", "disableClear"},
            user: Users \cup {None},
            cookie: Session,               \* the session values it was sent
            pw: Passwords \cup {None},      \* the password typed at login
            snap: Account \cup {None},     \* the user as it read it
            cur: Account \cup {None},      \* the upgrade's second read
            codes: SUBSET Codes,           \* freshly drawn backup codes
            code: Codes \cup {None},       \* the matched backup code
            last: BOOLEAN]                 \* it reserved the last attempt

Idle == [pc |-> "idle", user |-> None, cookie |-> NoSession, pw |-> None,
         snap |-> None, cur |-> None, codes |-> {}, code |-> None, last |-> FALSE]

At(r, pc) == req[r].pc = pc

Goto(r, pc) == req' = [req EXCEPT ![r].pc = pc]

Done(r) == req' = [req EXCEPT ![r] = Idle]

(* A fresh attempt budget for u: nothing tried, nothing reserved.          *)
RenewBudget(u) == /\ tries' = [tries EXCEPT ![u] = 0]
                  /\ held' = [held EXCEPT ![u] = {}]

KeepBudget == UNCHANGED <<tries, held>>

----------------------------------------------------------------------------

Init ==
    /\ acct \in InitialTables
    /\ live = Users
    /\ req = [r \in Requests |-> Idle]
    /\ cookies = {NoSession}
    /\ now = 0
    /\ owner = [x \in Secrets \cup Codes |->
                  IF \E u \in Users : x \in acct[u].codes \cup {acct[u].secret}
                  THEN CHOOSE u \in Users : x \in acct[u].codes \cup {acct[u].secret}
                  ELSE None]
    /\ tries = [u \in Users |-> 0]
    /\ held = [u \in Users |-> {}]
    /\ proved = {}
    /\ everOff = {u \in Users : ~Enrolled(acct[u])}
    /\ uses = [c \in Codes |-> 0]
    /\ promised = [u \in Users |-> acct[u].codes]
    /\ resetTo = [u \in Users |-> None]
    /\ raced = {}
    /\ doubled = {}

----------------------------------------------------------------------------
(* POST /auth/login *)

(* BcryptVerifier compares no more than 72 bytes.                          *)
BcryptVerifier(pw, hash) == Truncated[pw] = Truncated[hash.pw]

(* verifyLoginPassword: native hashes directly, others by the verifier.    *)
LoginPassword(pw, hash) ==
    \/ VerifyPassword(pw, hash)
    \/ ~Parseable(hash) /\ LegacyVerifier /\ BcryptVerifier(pw, hash)

(* The password typed is re-hashed unless HashPassword rejects it.         *)
NeedsUpgrade(pw, hash) == ~Parseable(hash) /\ pw \notin LongPasswords

(* The user is read by its identifier and the password verified against    *)
(* the hash just read.                                                     *)
LoginRead(r, u, pw, c) ==
    /\ "login" \in Calls
    /\ At(r, "idle")
    /\ u \in live
    /\ LoginPassword(pw, acct[u].hash)
    /\ req' = [req EXCEPT ![r] =
                 [Idle EXCEPT !.pc = IF NeedsUpgrade(pw, acct[u].hash)
                                     THEN "upgradeRead" ELSE "loginIssue",
                              !.user = u, !.cookie = c, !.pw = pw, !.snap = acct[u]]]
    /\ UNCHANGED <<acct, live, cookies, now, history>>

(* Faulty variant for mutation: the second read is not compared.           *)
AnyHash(r) == TRUE

(* "skipped unless the stored hash is still the one just verified"         *)
StillVerifiedHash(r) == acct[req[r].user].hash = req[r].snap.hash

UpgradeRead(r) ==
    /\ At(r, "upgradeRead")
    /\ req[r].user \in live
    /\ \/ /\ StillVerifiedHash(r)
          /\ req' = [req EXCEPT ![r].pc = "upgradeWrite", ![r].cur = acct[req[r].user]]
       \/ /\ ~StillVerifiedHash(r)
          /\ Goto(r, "loginIssue")
    /\ UNCHANGED <<acct, live, cookies, now, history>>

UpgradeWrite(r) ==
    LET u == req[r].user
    IN  /\ At(r, "upgradeWrite")
        /\ u \in live
        /\ acct' = [acct EXCEPT ![u] =
                      UpdateUser(@, [req[r].cur EXCEPT !.hash = Argon2id(req[r].pw)])]
        /\ req' = [req EXCEPT ![r].pc = "loginIssue", ![r].cur = None]
        /\ UNCHANGED <<live, cookies, now, history>>

(* Faulty variant for mutation: a failed upgrade is answered with 500.     *)
DenyLogin(r) == Done(r)

(* Where the login goes when a call of the upgrade fails: on.              *)
ContinueLogin(r) == req' = [req EXCEPT ![r].pc = "loginIssue", ![r].cur = None]

UpgradeFails(r) ==
    /\ At(r, "upgradeRead") \/ At(r, "upgradeWrite")
    /\ ContinueLogin(r)
    /\ UNCHANGED <<acct, live, cookies, now, history>>

(* Faulty variant for mutation: an enrolled user needs no code.            *)
NeverChallenged(r) == FALSE

(* The user, as read at the password step, must also present a code.       *)
Challenged(r) == EnableTFA /\ Enrolled(req[r].snap)

(* createSession *)
LoginIssueSession(r) ==
    /\ At(r, "loginIssue")
    /\ ~Challenged(r)
    /\ cookies' = cookies \cup {LoginSession(req[r].cookie, req[r].user)}
    /\ Done(r)
    /\ UNCHANGED <<acct, live, now, history>>

(* createPendingTFASession: a fresh budget, then the pending cookie, if    *)
(* the save succeeds.                                                      *)
LoginIssuePending(r) ==
    LET u == req[r].user
    IN  /\ At(r, "loginIssue")
        /\ Challenged(r)
        /\ u \in live
        /\ acct' = [acct EXCEPT ![u] = ResetTOTPAttempts(@)]
        /\ \E signed \in SUBSET {PendingSession(req[r].cookie, u, now + PendingTTL)} :
              cookies' = cookies \cup signed
        /\ RenewBudget(u)
        /\ Done(r)
        /\ UNCHANGED <<live, now, owner, proved, everOff, uses, promised, resetTo, raced, doubled>>

----------------------------------------------------------------------------
(* POST /auth/tfa/verify *)

(* A pending challenge past its signed expiry ends.                        *)
VerifyExpired(c) ==
    /\ EnableTFA /\ "verify" \in Calls
    /\ c.pend # None
    /\ now >= c.pexp
    /\ cookies' = cookies \cup {EndPending(c)}
    /\ UNCHANGED <<acct, live, req, now, history>>

VerifyBegin(r, c) ==
    /\ EnableTFA /\ "verify" \in Calls
    /\ At(r, "idle")
    /\ c.pend # None
    /\ now < c.pexp
    /\ req' = [req EXCEPT ![r] =
                 [Idle EXCEPT !.pc = "verifyRead", !.user = c.pend, !.cookie = c]]
    /\ UNCHANGED <<acct, live, cookies, now, history>>

(* The user is read once; without an attempt limit nothing is reserved.    *)
VerifyRead(r) ==
    LET u == req[r].user
    IN  /\ At(r, "verifyRead")
        /\ u \in live
        /\ \/ /\ Enrolled(acct[u])
              /\ req' = [req EXCEPT
                    ![r].pc = IF MaxVerifyAttempts > 0 THEN "verifyReserve" ELSE "verifyCheck",
                    ![r].snap = acct[u]]
           \/ /\ ~Enrolled(acct[u])
              /\ Done(r)
        /\ UNCHANGED <<acct, live, cookies, now, history>>

(* ConsumeTOTPAttempt, before any code is looked at.                       *)
VerifyReserve(r) ==
    LET u == req[r].user
    IN  /\ At(r, "verifyReserve")
        /\ u \in live
        /\ CanConsumeTOTPAttempt(acct[u], MaxVerifyAttempts)
        /\ acct' = [acct EXCEPT ![u] = ConsumeTOTPAttempt(@)]
        /\ req' = [req EXCEPT ![r].pc = "verifyCheck",
                     ![r].last = AttemptsRemaining(acct'[u], MaxVerifyAttempts) = 0]
        /\ held' = [held EXCEPT ![u] = @ \cup {r}]
        /\ UNCHANGED <<live, cookies, now, owner, tries, proved, everOff, uses,
                       promised, resetTo, raced, doubled>>

(* ErrTFAAttemptsExhausted ends the pending session.                       *)
VerifyExhausted(r) ==
    /\ At(r, "verifyReserve")
    /\ req[r].user \in live
    /\ ~CanConsumeTOTPAttempt(acct[req[r].user], MaxVerifyAttempts)
    /\ cookies' = cookies \cup {EndPending(req[r].cookie)}
    /\ Done(r)
    /\ UNCHANGED <<acct, live, now, history>>

(* A wrong code; the last attempt of a budget ends the pending session.    *)
RejectCode(r) ==
    /\ cookies' = IF req[r].last THEN cookies \cup {EndPending(req[r].cookie)} ELSE cookies
    /\ Done(r)

(* The reservation of r turns into a code checked against its budget.      *)
CountTry(r) ==
    LET u == req[r].user
    IN  IF r \in held[u]
        THEN /\ tries' = [tries EXCEPT ![u] = @ + 1]
             /\ held' = [held EXCEPT ![u] = @ \ {r}]
        ELSE KeepBudget

(* validateTOTPCode against the secret the request read.                   *)
VerifyTOTP(r, secret) ==
    /\ At(r, "verifyCheck")
    /\ secret = req[r].snap.secret
    /\ req' = [req EXCEPT ![r].pc = "verifyReset", ![r].snap = None, ![r].last = FALSE]
    /\ CountTry(r)
    /\ proved' = IF acct[req[r].user].secret = secret THEN proved \cup {req[r].user} ELSE proved
    /\ UNCHANGED <<acct, live, cookies, now, owner, everOff, uses, promised, resetTo, raced, doubled>>

(* findBackupCodeMatch against the hashes the request read.                *)
VerifyBackupMatch(r, code) ==
    /\ At(r, "verifyCheck")
    /\ BackupCodeCount > 0
    /\ code \in req[r].snap.codes
    /\ req' = [req EXCEPT ![r].pc = "verifyConsume", ![r].snap = None, ![r].code = code]
    /\ CountTry(r)
    /\ UNCHANGED <<acct, live, cookies, now, owner, proved, everOff, uses, promised,
                   resetTo, raced, doubled>>

(* Any other input.                                                        *)
VerifyWrong(r) ==
    /\ At(r, "verifyCheck")
    /\ RejectCode(r)
    /\ CountTry(r)
    /\ UNCHANGED <<acct, live, now, owner, proved, everOff, uses, promised, resetTo, raced, doubled>>

(* ConsumeBackupCode removed the hash: this request is let in.             *)
VerifyConsume(r) ==
    LET u == req[r].user
        code == req[r].code
    IN  /\ At(r, "verifyConsume")
        /\ u \in live
        /\ code \in acct[u].codes
        /\ acct' = [acct EXCEPT ![u] = ConsumeBackupCode(@, code)]
        /\ req' = [req EXCEPT ![r].pc = "verifyReset", ![r].code = None, ![r].last = FALSE]
        /\ uses' = [uses EXCEPT ![code] = @ + 1]
        /\ promised' = [promised EXCEPT ![u] = @ \ {code}]
        /\ proved' = proved \cup {u}
        /\ UNCHANGED <<live, cookies, now, owner, tries, held, everOff, resetTo, raced, doubled>>

(* Faulty variant for mutation: the request tries the same call again.     *)
RetryConsume(r) ==
    /\ At(r, "verifyConsume")
    /\ req[r].user \in live
    /\ req[r].code \notin acct[req[r].user].codes
    /\ UNCHANGED vars

(* A racing request removed it first, or it was replaced: rejected.        *)
VerifyConsumeLost(r) ==
    /\ At(r, "verifyConsume")
    /\ req[r].user \in live
    /\ req[r].code \notin acct[req[r].user].codes
    /\ RejectCode(r)
    /\ UNCHANGED <<acct, live, now, history>>

(* Success: the budget is renewed, the pending values leave the session    *)
(* (first save), then createSession signs the login (second save); each    *)
(* save may fail and answer 500.                                           *)
VerifyReset(r) ==
    LET u == req[r].user
        ended == EndPending(req[r].cookie)
    IN  /\ At(r, "verifyReset")
        /\ u \in live
        /\ acct' = [acct EXCEPT ![u] = ResetTOTPAttempts(@)]
        /\ \E signed \in {{}, {ended}, {ended, LoginSession(ended, u)}} :
              cookies' = cookies \cup signed
        /\ RenewBudget(u)
        /\ Done(r)
        /\ UNCHANGED <<live, now, owner, proved, everOff, uses, promised, resetTo, raced, doubled>>

----------------------------------------------------------------------------
(* POST /auth/tfa/setup, /enable and /disable, behind RequireAuth *)

(* RequireAuth: the session names a user that GetUserByID still finds.     *)
Authenticated(c) == c.uid \in live

(* Faulty variant for mutation: an enrolled user may enrol again.          *)
Enrollable(u) == TRUE

NotYetEnrolled(u) == ~Enrolled(acct[u])

(* A secret is drawn and kept in the session only.                         *)
Setup(c, secret) ==
    /\ EnableTFA /\ "setup" \in Calls
    /\ Authenticated(c)
    /\ NotYetEnrolled(c.uid)
    /\ owner[secret] = None
    /\ owner' = [owner EXCEPT ![secret] = c.uid]
    /\ cookies' = cookies \cup {[c EXCEPT !.psec = secret]}
    /\ UNCHANGED <<acct, live, req, now, tries, held, proved, everOff, uses, promised,
                   resetTo, raced, doubled>>

(* Everything /enable checks, on the user RequireAuth read; then the       *)
(* backup codes are drawn.  The TOTP code is the pending secret's.         *)
EnableRead(r, c, pw, drawn) ==
    /\ EnableTFA /\ "enable" \in Calls
    /\ At(r, "idle")
    /\ Authenticated(c)
    /\ NotYetEnrolled(c.uid)
    /\ VerifyPassword(pw, acct[c.uid].hash)
    /\ c.psec # None
    /\ Cardinality(drawn) = BackupCodeCount
    /\ \A x \in drawn : owner[x] = None
    /\ owner' = [x \in Secrets \cup Codes |-> IF x \in drawn THEN c.uid ELSE owner[x]]
    /\ req' = [req EXCEPT ![r] = [Idle EXCEPT !.pc = "enableSet", !.user = c.uid,
                                              !.cookie = c, !.codes = drawn]]
    /\ doubled' = IF \E s \in Requests : At(s, "enableSet") /\ req[s].user = c.uid
                  THEN doubled \cup {c.uid} ELSE doubled
    /\ UNCHANGED <<acct, live, cookies, now, tries, held, proved, everOff, uses, promised,
                   resetTo, raced>>

(* SetTOTP, then the session is saved without the secret and the codes are *)
(* shown; if that save fails the user is enrolled and never sees them.     *)
EnableSet(r, saved) ==
    LET u == req[r].user
    IN  /\ At(r, "enableSet")
        /\ u \in live
        /\ acct' = [acct EXCEPT ![u] = SetTOTP(@, req[r].cookie.psec, req[r].codes)]
        /\ RenewBudget(u)
        /\ \/ /\ saved
              /\ cookies' = cookies \cup {[req[r].cookie EXCEPT !.psec = None]}
              /\ promised' = [promised EXCEPT ![u] = @ \cup req[r].codes]
           \/ /\ ~saved
              /\ UNCHANGED <<cookies, promised>>
        /\ Done(r)
        /\ UNCHANGED <<live, now, owner, proved, everOff, uses, resetTo, raced, doubled>>

DisableRead(r, c, pw) ==
    /\ EnableTFA /\ "disable" \in Calls
    /\ At(r, "idle")
    /\ Authenticated(c)
    /\ Enrolled(acct[c.uid])
    /\ VerifyPassword(pw, acct[c.uid].hash)
    /\ req' = [req EXCEPT ![r] = [Idle EXCEPT !.pc = "disableClear", !.user = c.uid]]
    /\ UNCHANGED <<acct, live, cookies, now, history>>

DisableClear(r) ==
    LET u == req[r].user
    IN  /\ At(r, "disableClear")
        /\ u \in live
        /\ acct' = [acct EXCEPT ![u] = ClearTOTP(@)]
        /\ RenewBudget(u)
        /\ everOff' = everOff \cup {u}
        /\ promised' = [promised EXCEPT ![u] = {}]
        /\ Done(r)
        /\ UNCHANGED <<live, cookies, now, owner, proved, uses, resetTo, raced, doubled>>

----------------------------------------------------------------------------
(* Failure, the application, and time *)

(* Every storage error, "not found" included, outside the upgrade ends the *)
(* request with an error response and nothing else.                        *)
CallFails(r) ==
    /\ req[r].pc \in {"loginIssue", "verifyRead", "verifyReserve", "verifyConsume",
                      "verifyReset", "enableSet", "disableClear"}
    /\ Done(r)
    /\ UNCHANGED <<acct, live, cookies, now, history>>

(* The application resets a password: a read and an UpdateUser of its own, *)
(* as the tests do it.                                                     *)
ResetPassword(u, pw) ==
    /\ "reset" \in Calls
    /\ u \in live
    /\ pw \notin LongPasswords
    /\ acct' = [acct EXCEPT ![u] = UpdateUser(@, [@ EXCEPT !.hash = Argon2id(pw)])]
    /\ resetTo' = [resetTo EXCEPT ![u] = pw]
    /\ raced' = IF \E r \in Requests : At(r, "upgradeWrite") /\ req[r].user = u
                THEN raced \cup {u} ELSE raced
    /\ UNCHANGED <<live, req, cookies, now, owner, tries, held, proved, everOff, uses, promised,
                   doubled>>

DeleteUser(u) ==
    /\ "delete" \in Calls
    /\ u \in live
    /\ live' = live \ {u}
    /\ UNCHANGED <<acct, req, cookies, now, history>>

Tick ==
    /\ now < MaxTime
    /\ now' = now + 1
    /\ UNCHANGED <<acct, live, req, cookies, history>>

----------------------------------------------------------------------------

(* The next step of a request under way when storage answers.              *)
NotFound(r) == req[r].user \notin live /\ (CallFails(r) \/ UpgradeFails(r))

Step(r) ==
    \/ UpgradeRead(r)
    \/ UpgradeWrite(r)
    \/ LoginIssueSession(r)
    \/ LoginIssuePending(r)
    \/ VerifyRead(r)
    \/ VerifyReserve(r)
    \/ VerifyExhausted(r)
    \/ \E secret \in Secrets : VerifyTOTP(r, secret)
    \/ \E code \in Codes : VerifyBackupMatch(r, code)
    \/ VerifyWrong(r)
    \/ VerifyConsume(r)
    \/ VerifyConsumeLost(r)
    \/ VerifyReset(r)
    \/ \E saved \in BOOLEAN : EnableSet(r, saved)
    \/ DisableClear(r)

(* A client sends a request; it may carry any session value ever signed.   *)
Arrive(r) ==
    \E c \in cookies :
        \/ \E u \in Users, pw \in Passwords : LoginRead(r, u, pw, c)
        \/ VerifyBegin(r, c)
        \/ \E pw \in Passwords, drawn \in SUBSET Codes : EnableRead(r, c, pw, drawn)
        \/ \E pw \in Passwords : DisableRead(r, c, pw)

Next ==
    \/ \E r \in Requests :
          Arrive(r) \/ Step(r) \/ UpgradeFails(r) \/ CallFails(r)
    \/ \E c \in cookies : VerifyExpired(c)
    \/ \E c \in cookies, secret \in Secrets : Setup(c, secret)
    \/ \E u \in Users, pw \in Passwords : ResetPassword(u, pw)
    \/ \E u \in Users : DeleteUser(u)
    \/ Tick

Spec == Init /\ [][Next]_vars

(* A handler's goroutine keeps running and its storage calls return.       *)
Fairness == \A r \in Requests : WF_vars(Step(r) \/ NotFound(r))

FairSpec == Spec /\ Fairness

----------------------------------------------------------------------------

TypeOK ==
    /\ acct \in [Users -> Account]
    /\ live \subseteq Users
    /\ req \in [Requests -> Request]
    /\ cookies \subseteq Session
    /\ now \in Nat
    /\ owner \in [Secrets \cup Codes -> Users \cup {None}]
    /\ tries \in [Users -> Nat]
    /\ held \in [Users -> SUBSET Requests]
    /\ proved \subseteq Users
    /\ everOff \subseteq Users
    /\ uses \in [Codes -> Nat]
    /\ promised \in [Users -> SUBSET Codes]
    /\ resetTo \in [Users -> Passwords \cup {None}]
    /\ raced \subseteq Users
    /\ doubled \subseteq Users

----------------------------------------------------------------------------
(* Properties *)

(* However many requests, replayed pending cookies and replicas there are, *)
(* no more than MaxVerifyAttempts codes are checked for a user on attempts *)
(* reserved between two renewals of its budget (each password login,       *)
(* whether its cookie is saved or not, successful code or change of the    *)
(* enrolment).  A code checked after a renewal, on an attempt reserved     *)
(* before it, belongs to the budget before.                                *)
BudgetHolds == \A u \in Users : tries[u] <= MaxVerifyAttempts

(* A backup code lets at most one request in, ever: not two racing ones,   *)
(* and not a later one after a stale write or a new enrolment.             *)
BackupCodeOnce == \A c \in Codes : uses[c] <= 1

(* While a user has been enrolled throughout, a session logged in as that  *)
(* user exists only if a stored second factor was presented for it.        *)
NoSessionWithoutSecondFactor ==
    EnableTFA => \A c \in cookies : c.uid \in Users \ everOff => c.uid \in proved

(* A password reset is not undone by a login that verified the old hash,   *)
(* unless the reset falls between that login's second read and its write   *)
(* (the window upgradePasswordHash's comment admits).                      *)
ResetSticks ==
    \A u \in Users \ raced : resetTo[u] # None => acct[u].hash = Argon2id(resetTo[u])

(* README: the upgrade is skipped if the stored hash changed in the        *)
(* meantime (e.g. a concurrent password reset).                            *)
ResetAlwaysSticks ==
    \A u \in Users : resetTo[u] # None => acct[u].hash = Argon2id(resetTo[u])

(* Whatever races, fails or is replayed, the password that a stored hash   *)
(* stands for changes by a reset alone, and a hash that is replaced is     *)
(* replaced by a native one (again but for the admitted window): of the    *)
(* same password, or of its first 72 bytes if it is longer, as bcrypt has  *)
(* let those in.                                                           *)
PasswordOnlyByReset ==
    [][\A u \in Users \ raced : acct'[u].hash # acct[u].hash =>
          \/ acct'[u].hash = Argon2id(Truncated[acct[u].hash.pw])
          \/ resetTo'[u] # None /\ acct'[u].hash = Argon2id(resetTo'[u])]_vars

(* Every backup code a user was shown by /tfa/enable, and has not used or  *)
(* dropped by /tfa/disable, is one the storage will still accept, unless   *)
(* two enables of that user were under way at once.                        *)
PromisedCodesWork == \A u \in live \ doubled : promised[u] \subseteq acct[u].codes

(* README: "persists TFA on the user, and returns { backupCodes: [...] }"; *)
(* "Each code works once".                                                 *)
PromisedCodesAlwaysWork == \A u \in live : promised[u] \subseteq acct[u].codes

(* /tfa/enable binds an account to a secret that /tfa/setup drew for that  *)
(* account; without such a setup it refuses.                               *)
EnrolledOwnSecret ==
    \A u \in live : Enrolled(acct[u]) => owner[acct[u].secret] = u

(* The password a user logs in with is also accepted where the handlers    *)
(* ask for it again (/tfa/enable, /tfa/disable).                           *)
CurrentPasswordReverifies ==
    \A c \in cookies : c.uid \in live =>
        VerifyPassword(acct[c.uid].hash.pw, acct[c.uid].hash)

(* Neither a failed nor an overtaken upgrade of the hash denies a login    *)
(* whose password was verified: it always reaches the session step.        *)
VerifiedLoginContinues ==
    \A r \in Requests : (At(r, "upgradeRead") \/ At(r, "upgradeWrite")) ~> At(r, "loginIssue")

(* Every request is answered: no handler waits for another.                *)
RequestsFinish == \A r \in Requests : ~At(r, "idle") ~> At(r, "idle")

(* With TFA enabled the handlers together are one second factor, whatever  *)
(* happens between a read and the next storage call: codes are spent once  *)
(* and for all, leave the storage by being spent or by a new enrolment or  *)
(* its end only, and a code signs in no user but its own.                  *)
Factor == INSTANCE TwoFactor WITH
    secret <- [u \in Users |-> acct[u].secret],
    unspent <- [u \in Users |-> acct[u].codes],
    spent <- {c \in Codes : uses[c] > 0},
    cleared <- [r \in Requests |-> IF At(r, "verifyReset") THEN req[r].user ELSE None],
    optional <- everOff,
    sessions <- {c.uid : c \in cookies} \ {None}

ImplementsTwoFactor == Factor!Spec

=============================================================================
