-------------------------- MODULE AuthServerProofs --------------------------
(***************************************************************************)
(* Theorems about AuthServer, for every value of its constants.            *)
(***************************************************************************)
EXTENDS AuthServer, FiniteSetTheorems, TLAPS

(* What a request has read by the time it reaches a step that uses it.     *)
RequestOK(q) ==
    /\ q.pc # "idle" => q.user \in Users
    /\ q.pc \in {"upgradeRead", "upgradeWrite", "loginIssue", "verifyReserve", "verifyCheck"}
          => q.snap \in Account
    /\ q.pc \in {"upgradeRead", "upgradeWrite"} => q.pw \in Passwords
    /\ q.pc = "upgradeWrite" => q.cur \in Account
    /\ q.pc = "verifyConsume" => q.code \in Codes
    /\ q.pc = "enableSet" => q.cookie.psec \in Secrets

TypeInv == TypeOK /\ \A r \in Requests : RequestOK(req[r])

----------------------------------------------------------------------------
(* The storage calls keep an account an account.                           *)
LEMMA StorageTypes ==
    ASSUME NEW a \in Account
    PROVE  /\ \A b \in Account : UpdateUser(a, b) \in Account
           /\ \A pw \in Passwords : [a EXCEPT !.hash = Argon2id(pw)] \in Account
           /\ ConsumeTOTPAttempt(a) \in Account
           /\ ResetTOTPAttempts(a) \in Account
           /\ \A c \in Codes : ConsumeBackupCode(a, c) \in Account
           /\ \A s \in Secrets, C \in SUBSET Codes : SetTOTP(a, s, C) \in Account
           /\ ClearTOTP(a) \in Account
           /\ a.hash.pw \in Passwords
           /\ a.secret \in Secrets \cup {None}
           /\ a.codes \subseteq Codes
<1>1. \A b \in Account : UpdateUser(a, b) \in Account
  BY DEF Account, UpdateUser
<1>2. \A pw \in Passwords : [a EXCEPT !.hash = Argon2id(pw)] \in Account
  BY DEF Account, Hash, Argon2id
<1>3. ConsumeTOTPAttempt(a) \in Account /\ ResetTOTPAttempts(a) \in Account
  BY DEF Account, ConsumeTOTPAttempt, ResetTOTPAttempts
<1>4. \A c \in Codes : ConsumeBackupCode(a, c) \in Account
  BY DEF Account, ConsumeBackupCode
<1>5. \A s \in Secrets, C \in SUBSET Codes : SetTOTP(a, s, C) \in Account
  BY DEF Account, SetTOTP
<1>6. ClearTOTP(a) \in Account
  BY DEF Account, ClearTOTP
<1>7. /\ a.hash.pw \in Passwords
      /\ a.secret \in Secrets \cup {None}
      /\ a.codes \subseteq Codes
  BY DEF Account, Hash
<1> QED
  BY <1>1, <1>2, <1>3, <1>4, <1>5, <1>6, <1>7

(* The session operators keep a session a session.                         *)
LEMMA SessionTypes ==
    ASSUME NEW c \in Session
    PROVE  /\ NoSession \in Session
           /\ \A u \in Users : LoginSession(c, u) \in Session
           /\ \A u \in Users, e \in Nat : PendingSession(c, u, e) \in Session
           /\ EndPending(c) \in Session
           /\ \A s \in Secrets \cup {None} : [c EXCEPT !.psec = s] \in Session
           /\ c.uid \in Users \cup {None}
           /\ c.pend \in Users \cup {None}
           /\ c.psec \in Secrets \cup {None}
           /\ c.pexp \in Nat
  BY DEF Session, NoSession, LoginSession, PendingSession, EndPending

LEMMA IdleType == Idle \in Request /\ RequestOK(Idle)
  BY DEF Idle, Request, RequestOK, NoSession, Session

(* One request record replaced by a sound one leaves all of them sound.    *)
LEMMA ReplaceRequest ==
    ASSUME TypeInv, NEW r \in Requests, NEW q \in Request, RequestOK(q),
           req' = [req EXCEPT ![r] = q]
    PROVE  req' \in [Requests -> Request] /\ \A s \in Requests : RequestOK(req'[s])
  BY DEF TypeInv, TypeOK

LEMMA DoneType ==
    ASSUME TypeInv, NEW r \in Requests, Done(r)
    PROVE  req' \in [Requests -> Request] /\ \A s \in Requests : RequestOK(req'[s])
  BY IdleType, ReplaceRequest DEF Done

LEMMA InitTypeInv == Init => TypeInv
<1> SUFFICES ASSUME Init PROVE TypeInv
  OBVIOUS
<1>1. acct \in [Users -> Account]
  BY InitialTablesAssumption DEF Init
<1>2. req \in [Requests -> Request] /\ \A r \in Requests : RequestOK(req[r])
  BY IdleType DEF Init
<1>3. cookies \subseteq Session
  BY DEF Init, NoSession, Session
<1>4. owner \in [Secrets \cup Codes -> Users \cup {None}]
  BY DEF Init
<1>5. promised \in [Users -> SUBSET Codes]
  BY <1>1 DEF Init, Account
<1> QED
  BY <1>1, <1>2, <1>3, <1>4, <1>5 DEF Init, TypeInv, TypeOK

(* Every action keeps the request records sound.                           *)
LEMMA RequestTypes ==
    ASSUME TypeInv, Next
    PROVE  req' \in [Requests -> Request] /\ \A s \in Requests : RequestOK(req'[s])
<1> DEFINE Sound == req' \in [Requests -> Request] /\ \A s \in Requests : RequestOK(req'[s])
<1> USE DEF At
<1>a. ASSUME UNCHANGED req PROVE Sound
  BY <1>a DEF TypeInv, TypeOK
<1>1. ASSUME NEW r \in Requests, Arrive(r) PROVE Sound
  <2> PICK c \in cookies :
          \/ \E u \in Users, pw \in Passwords : LoginRead(r, u, pw, c)
          \/ VerifyBegin(r, c)
          \/ \E pw \in Passwords, drawn \in SUBSET Codes : EnableRead(r, c, pw, drawn)
          \/ \E pw \in Passwords : DisableRead(r, c, pw)
    BY <1>1 DEF Arrive
  <2>0. c \in Session
    BY DEF TypeInv, TypeOK
  <2>1. ASSUME NEW u \in Users, NEW pw \in Passwords, LoginRead(r, u, pw, c) PROVE Sound
    <3> DEFINE q == [Idle EXCEPT !.pc = IF NeedsUpgrade(pw, acct[u].hash)
                                        THEN "upgradeRead" ELSE "loginIssue",
                                 !.user = u, !.cookie = c, !.pw = pw, !.snap = acct[u]]
    <3>1. acct[u] \in Account
      BY DEF TypeInv, TypeOK
    <3>2. q \in Request /\ RequestOK(q)
      BY <3>1, <2>0 DEF Idle, Request, RequestOK
    <3> QED
      BY <3>2, <2>1, ReplaceRequest DEF LoginRead
  <2>2. ASSUME VerifyBegin(r, c) PROVE Sound
    <3> DEFINE q == [Idle EXCEPT !.pc = "verifyRead", !.user = c.pend, !.cookie = c]
    <3>1. q \in Request /\ RequestOK(q)
      BY <2>0, <2>2, SessionTypes DEF VerifyBegin, Idle, Request, RequestOK
    <3> QED
      BY <3>1, <2>2, ReplaceRequest DEF VerifyBegin
  <2>3. ASSUME NEW pw \in Passwords, NEW drawn \in SUBSET Codes, EnableRead(r, c, pw, drawn)
        PROVE  Sound
    <3> DEFINE q == [Idle EXCEPT !.pc = "enableSet", !.user = c.uid, !.cookie = c,
                                 !.codes = drawn]
    <3>1. c.uid \in Users /\ c.psec \in Secrets
      BY <2>0, <2>3, SessionTypes DEF EnableRead, Authenticated, TypeInv, TypeOK
    <3>2. q \in Request /\ RequestOK(q)
      BY <3>1, <2>0 DEF Idle, Request, RequestOK
    <3> QED
      BY <3>2, <2>3, ReplaceRequest DEF EnableRead
  <2>4. ASSUME NEW pw \in Passwords, DisableRead(r, c, pw) PROVE Sound
    <3> DEFINE q == [Idle EXCEPT !.pc = "disableClear", !.user = c.uid]
    <3>1. c.uid \in Users
      BY <2>4 DEF DisableRead, Authenticated, TypeInv, TypeOK
    <3>2. q \in Request /\ RequestOK(q)
      BY <3>1, IdleType DEF Idle, Request, RequestOK
    <3> QED
      BY <3>2, <2>4, ReplaceRequest DEF DisableRead
  <2> QED
    BY <2>1, <2>2, <2>3, <2>4
<1>2. ASSUME NEW r \in Requests, Step(r) PROVE Sound
  <2>0. req[r] \in Request /\ RequestOK(req[r])
    BY DEF TypeInv, TypeOK
  <2>1. CASE UpgradeRead(r)
    <3> DEFINE q == [req[r] EXCEPT !.pc = "upgradeWrite", !.cur = acct[req[r].user]]
    <3> DEFINE p == [req[r] EXCEPT !.pc = "loginIssue"]
    <3>1. acct[req[r].user] \in Account
      BY <2>1 DEF UpgradeRead, TypeInv, TypeOK
    <3>2. q \in Request /\ RequestOK(q) /\ p \in Request /\ RequestOK(p)
      BY <3>1, <2>0, <2>1 DEF UpgradeRead, Request, RequestOK
    <3>3. req' = [req EXCEPT ![r] = q] \/ req' = [req EXCEPT ![r] = p]
      BY <2>1 DEF UpgradeRead, Goto, TypeInv, TypeOK
    <3> QED
      BY <3>2, <3>3, ReplaceRequest
  <2>2. CASE UpgradeWrite(r)
    <3> DEFINE q == [req[r] EXCEPT !.pc = "loginIssue", !.cur = None]
    <3>1. q \in Request /\ RequestOK(q)
      BY <2>0, <2>2 DEF UpgradeWrite, Request, RequestOK
    <3>2. req' = [req EXCEPT ![r] = q]
      BY <2>2 DEF UpgradeWrite, TypeInv, TypeOK
    <3> QED
      BY <3>1, <3>2, ReplaceRequest
  <2>3. CASE VerifyRead(r)
    <3> DEFINE q == [req[r] EXCEPT
                       !.pc = IF MaxVerifyAttempts > 0 THEN "verifyReserve" ELSE "verifyCheck",
                       !.snap = acct[req[r].user]]
    <3>1. acct[req[r].user] \in Account
      BY <2>3 DEF VerifyRead, TypeInv, TypeOK
    <3>2. q \in Request /\ RequestOK(q)
      BY <3>1, <2>0, <2>3 DEF VerifyRead, Request, RequestOK
    <3>3. req' = [req EXCEPT ![r] = q] \/ Done(r)
      BY <2>3 DEF VerifyRead, TypeInv, TypeOK
    <3> QED
      BY <3>2, <3>3, ReplaceRequest, DoneType
  <2>4. CASE VerifyReserve(r)
    <3> DEFINE l == AttemptsRemaining(acct'[req[r].user], MaxVerifyAttempts) = 0
    <3> DEFINE q == [req[r] EXCEPT !.pc = "verifyCheck", !.last = l]
    <3>1. l \in BOOLEAN
      OBVIOUS
    <3> HIDE DEF l
    <3>2. q \in Request /\ RequestOK(q)
      BY <3>1, <2>0, <2>4 DEF VerifyReserve, Request, RequestOK
    <3>3. req' = [req EXCEPT ![r] = q]
      BY <2>4 DEF l, VerifyReserve, TypeInv, TypeOK
    <3> QED
      BY <3>2, <3>3, ReplaceRequest
  <2>5. ASSUME NEW secret \in Secrets, VerifyTOTP(r, secret) PROVE Sound
    <3> DEFINE q == [req[r] EXCEPT !.pc = "verifyReset", !.snap = None, !.last = FALSE]
    <3>1. q \in Request /\ RequestOK(q)
      BY <2>0, <2>5 DEF VerifyTOTP, Request, RequestOK
    <3>2. req' = [req EXCEPT ![r] = q]
      BY <2>5 DEF VerifyTOTP, TypeInv, TypeOK
    <3> QED
      BY <3>1, <3>2, ReplaceRequest
  <2>6. ASSUME NEW code \in Codes, VerifyBackupMatch(r, code) PROVE Sound
    <3> DEFINE q == [req[r] EXCEPT !.pc = "verifyConsume", !.snap = None, !.code = code]
    <3>1. q \in Request /\ RequestOK(q)
      BY <2>0, <2>6 DEF VerifyBackupMatch, Request, RequestOK
    <3>2. req' = [req EXCEPT ![r] = q]
      BY <2>6 DEF VerifyBackupMatch, TypeInv, TypeOK
    <3> QED
      BY <3>1, <3>2, ReplaceRequest
  <2>7. CASE VerifyConsume(r)
    <3> DEFINE q == [req[r] EXCEPT !.pc = "verifyReset", !.code = None, !.last = FALSE]
    <3>1. q \in Request /\ RequestOK(q)
      BY <2>0, <2>7 DEF VerifyConsume, Request, RequestOK
    <3>2. req' = [req EXCEPT ![r] = q]
      BY <2>7 DEF VerifyConsume, TypeInv, TypeOK
    <3> QED
      BY <3>1, <3>2, ReplaceRequest
  <2>8. CASE \/ LoginIssueSession(r) \/ LoginIssuePending(r) \/ VerifyExhausted(r)
             \/ VerifyWrong(r) \/ VerifyConsumeLost(r) \/ VerifyReset(r)
             \/ (\E saved \in BOOLEAN : EnableSet(r, saved)) \/ DisableClear(r)
    BY <2>8, DoneType DEF LoginIssueSession, LoginIssuePending, VerifyExhausted, VerifyWrong,
       VerifyConsumeLost, VerifyReset, EnableSet, DisableClear, RejectCode
  <2> QED
    BY <1>2, <2>1, <2>2, <2>3, <2>4, <2>5, <2>6, <2>7, <2>8 DEF Step
<1>3. ASSUME NEW r \in Requests, UpgradeFails(r) PROVE Sound
  <2> DEFINE q == [req[r] EXCEPT !.pc = "loginIssue", !.cur = None]
  <2>0. /\ req[r] \in Request /\ RequestOK(req[r])
        /\ req[r].pc \in {"upgradeRead", "upgradeWrite"}
    BY <1>3 DEF UpgradeFails, TypeInv, TypeOK
  <2>1. q \in Request /\ RequestOK(q)
    BY <2>0 DEF Request, RequestOK
  <2>2. req' = [req EXCEPT ![r] = q]
    BY <1>3 DEF UpgradeFails, ContinueLogin, TypeInv, TypeOK
  <2> QED
    BY <2>1, <2>2, ReplaceRequest
<1>4. ASSUME NEW r \in Requests, CallFails(r) PROVE Sound
  BY <1>4, DoneType DEF CallFails
<1> QED
  BY <1>a, <1>1, <1>2, <1>3, <1>4 DEF Next, VerifyExpired, Setup, ResetPassword, DeleteUser, Tick

(* Every action, named once: the cases a step can be.                      *)
LEMMA NextCases ==
    ASSUME Next
    PROVE  \/ \E r \in Requests, c \in cookies, u \in Users, pw \in Passwords : LoginRead(r, u, pw, c)
           \/ \E r \in Requests, c \in cookies : VerifyBegin(r, c)
           \/ \E r \in Requests, c \in cookies, pw \in Passwords, drawn \in SUBSET Codes :
                 EnableRead(r, c, pw, drawn)
           \/ \E r \in Requests, c \in cookies, pw \in Passwords : DisableRead(r, c, pw)
           \/ \E r \in Requests : UpgradeRead(r)
           \/ \E r \in Requests : UpgradeWrite(r)
           \/ \E r \in Requests : UpgradeFails(r)
           \/ \E r \in Requests : LoginIssueSession(r)
           \/ \E r \in Requests : LoginIssuePending(r)
           \/ \E r \in Requests : VerifyRead(r)
           \/ \E r \in Requests : VerifyReserve(r)
           \/ \E r \in Requests : VerifyExhausted(r)
           \/ \E r \in Requests, secret \in Secrets : VerifyTOTP(r, secret)
           \/ \E r \in Requests, code \in Codes : VerifyBackupMatch(r, code)
           \/ \E r \in Requests : VerifyWrong(r)
           \/ \E r \in Requests : VerifyConsume(r)
           \/ \E r \in Requests : VerifyConsumeLost(r)
           \/ \E r \in Requests : VerifyReset(r)
           \/ \E r \in Requests, saved \in BOOLEAN : EnableSet(r, saved)
           \/ \E r \in Requests : DisableClear(r)
           \/ \E r \in Requests : CallFails(r)
           \/ \E c \in cookies : VerifyExpired(c)
           \/ \E c \in cookies, secret \in Secrets : Setup(c, secret)
           \/ \E u \in Users, pw \in Passwords : ResetPassword(u, pw)
           \/ \E u \in Users : DeleteUser(u)
           \/ Tick
  BY DEF Next, Arrive, Step

(* Frames: which actions can change which part of the state.               *)
LEMMA AcctFrame ==
    ASSUME Next
    PROVE  \/ acct' = acct
           \/ \E r \in Requests : \/ UpgradeWrite(r) \/ LoginIssuePending(r) \/ VerifyReserve(r)
                                  \/ VerifyConsume(r) \/ VerifyReset(r) \/ DisableClear(r)
           \/ \E r \in Requests, saved \in BOOLEAN : EnableSet(r, saved)
           \/ \E u \in Users, pw \in Passwords : ResetPassword(u, pw)
  BY NextCases DEF LoginRead, VerifyBegin, EnableRead, DisableRead, UpgradeRead, UpgradeFails,
         LoginIssueSession, VerifyRead, VerifyExhausted, VerifyTOTP, VerifyBackupMatch,
         VerifyWrong, VerifyConsumeLost, CallFails, VerifyExpired, Setup, DeleteUser,
         Tick

LEMMA CookieFrame ==
    ASSUME Next
    PROVE  \/ cookies' = cookies
           \/ \E r \in Requests : \/ LoginIssueSession(r) \/ LoginIssuePending(r)
                                  \/ VerifyExhausted(r) \/ VerifyWrong(r)
                                  \/ VerifyConsumeLost(r) \/ VerifyReset(r)
           \/ \E r \in Requests, saved \in BOOLEAN : EnableSet(r, saved)
           \/ \E c \in cookies : VerifyExpired(c)
           \/ \E c \in cookies, secret \in Secrets : Setup(c, secret)
  BY NextCases DEF LoginRead, VerifyBegin, EnableRead, DisableRead, UpgradeRead, UpgradeWrite,
         UpgradeFails, VerifyRead, VerifyReserve, VerifyTOTP, VerifyBackupMatch,
         VerifyConsume, DisableClear, CallFails, ResetPassword, DeleteUser, Tick

LEMMA BudgetFrame ==
    ASSUME Next
    PROVE  \/ tries' = tries /\ held' = held
           \/ \E r \in Requests : \/ LoginIssuePending(r) \/ VerifyReset(r) \/ DisableClear(r)
                                  \/ VerifyReserve(r) \/ VerifyWrong(r)
           \/ \E r \in Requests, saved \in BOOLEAN : EnableSet(r, saved)
           \/ \E r \in Requests, secret \in Secrets : VerifyTOTP(r, secret)
           \/ \E r \in Requests, code \in Codes : VerifyBackupMatch(r, code)
  BY NextCases DEF history, LoginRead, VerifyBegin, EnableRead, DisableRead, UpgradeRead, UpgradeWrite,
         UpgradeFails, LoginIssueSession, VerifyRead, VerifyExhausted, VerifyConsume,
         VerifyConsumeLost, CallFails, VerifyExpired, Setup, ResetPassword, DeleteUser,
         Tick

LEMMA OwnerFrame ==
    ASSUME Next
    PROVE  \/ owner' = owner
           \/ \E r \in Requests, c \in cookies, pw \in Passwords, drawn \in SUBSET Codes :
                 EnableRead(r, c, pw, drawn)
           \/ \E c \in cookies, secret \in Secrets : Setup(c, secret)
  BY NextCases DEF history, LoginRead, VerifyBegin, DisableRead, UpgradeRead, UpgradeWrite, UpgradeFails,
         LoginIssueSession, LoginIssuePending, VerifyRead, VerifyReserve,
         VerifyExhausted, VerifyTOTP, VerifyBackupMatch, VerifyWrong, VerifyConsume,
         VerifyConsumeLost, VerifyReset, EnableSet, DisableClear, CallFails,
         VerifyExpired, ResetPassword, DeleteUser, Tick

LEMMA UsesFrame ==
    ASSUME Next
    PROVE  uses' = uses \/ \E r \in Requests : VerifyConsume(r)
  BY NextCases DEF history, LoginRead, VerifyBegin, EnableRead, DisableRead, UpgradeRead, UpgradeWrite,
         UpgradeFails, LoginIssueSession, LoginIssuePending, VerifyRead, VerifyReserve,
         VerifyExhausted, VerifyTOTP, VerifyBackupMatch, VerifyWrong, VerifyConsumeLost,
         VerifyReset, EnableSet, DisableClear, CallFails, VerifyExpired, Setup,
         ResetPassword, DeleteUser, Tick

LEMMA EnrolmentFrame ==
    ASSUME Next
    PROVE  /\ \/ proved' = proved
              \/ \E r \in Requests : VerifyConsume(r)
              \/ \E r \in Requests, secret \in Secrets : VerifyTOTP(r, secret)
           /\ everOff' = everOff \/ \E r \in Requests : DisableClear(r)
           /\ \/ promised' = promised
              \/ \E r \in Requests : VerifyConsume(r) \/ DisableClear(r)
              \/ \E r \in Requests, saved \in BOOLEAN : EnableSet(r, saved)
<1>1. \/ proved' = proved
      \/ \E r \in Requests : VerifyConsume(r)
      \/ \E r \in Requests, secret \in Secrets : VerifyTOTP(r, secret)
  BY NextCases DEF history, LoginRead, VerifyBegin, EnableRead, DisableRead, UpgradeRead, UpgradeWrite,
         UpgradeFails, LoginIssueSession, LoginIssuePending, VerifyRead, VerifyReserve,
         VerifyExhausted, VerifyBackupMatch, VerifyWrong, VerifyConsumeLost,
         VerifyReset, EnableSet, DisableClear, CallFails, VerifyExpired, Setup,
         ResetPassword, DeleteUser, Tick
<1>2. everOff' = everOff \/ \E r \in Requests : DisableClear(r)
  BY NextCases DEF history, LoginRead, VerifyBegin, EnableRead, DisableRead, UpgradeRead, UpgradeWrite,
         UpgradeFails, LoginIssueSession, LoginIssuePending, VerifyRead, VerifyReserve,
         VerifyExhausted, VerifyTOTP, VerifyBackupMatch, VerifyWrong, VerifyConsume,
         VerifyConsumeLost, VerifyReset, EnableSet, CallFails, VerifyExpired, Setup,
         ResetPassword, DeleteUser, Tick
<1>3. \/ promised' = promised
      \/ \E r \in Requests : VerifyConsume(r) \/ DisableClear(r)
      \/ \E r \in Requests, saved \in BOOLEAN : EnableSet(r, saved)
  BY NextCases DEF history, LoginRead, VerifyBegin, EnableRead, DisableRead, UpgradeRead, UpgradeWrite,
         UpgradeFails, LoginIssueSession, LoginIssuePending, VerifyRead, VerifyReserve,
         VerifyExhausted, VerifyTOTP, VerifyBackupMatch, VerifyWrong, VerifyConsumeLost,
         VerifyReset, CallFails, VerifyExpired, Setup, ResetPassword, DeleteUser, Tick
<1> QED
  BY <1>1, <1>2, <1>3

LEMMA ResetFrame ==
    ASSUME Next
    PROVE  \/ resetTo' = resetTo /\ raced' = raced
           \/ \E u \in Users, pw \in Passwords : ResetPassword(u, pw)
  BY NextCases DEF history, LoginRead, VerifyBegin, EnableRead, DisableRead, UpgradeRead, UpgradeWrite,
         UpgradeFails, LoginIssueSession, LoginIssuePending, VerifyRead, VerifyReserve,
         VerifyExhausted, VerifyTOTP, VerifyBackupMatch, VerifyWrong, VerifyConsume,
         VerifyConsumeLost, VerifyReset, EnableSet, DisableClear, CallFails,
         VerifyExpired, Setup, DeleteUser, Tick

LEMMA DoubledFrame ==
    ASSUME Next
    PROVE  \/ doubled' = doubled
           \/ \E r \in Requests, c \in cookies, pw \in Passwords, drawn \in SUBSET Codes :
                 EnableRead(r, c, pw, drawn)
  BY NextCases DEF history, LoginRead, VerifyBegin, DisableRead, UpgradeRead, UpgradeWrite,
         UpgradeFails, LoginIssueSession, LoginIssuePending, VerifyRead, VerifyReserve,
         VerifyExhausted, VerifyTOTP, VerifyBackupMatch, VerifyWrong, VerifyConsume,
         VerifyConsumeLost, VerifyReset, EnableSet, DisableClear, CallFails,
         VerifyExpired, Setup, ResetPassword, DeleteUser, Tick

LEMMA OutsideFrame ==
    ASSUME Next
    PROVE  /\ live' = live \/ \E u \in Users : DeleteUser(u)
           /\ now' = now \/ Tick
<1>1. live' = live \/ \E u \in Users : DeleteUser(u)
  BY NextCases DEF LoginRead, VerifyBegin, EnableRead, DisableRead, UpgradeRead, UpgradeWrite,
         UpgradeFails, LoginIssueSession, LoginIssuePending, VerifyRead, VerifyReserve,
         VerifyExhausted, VerifyTOTP, VerifyBackupMatch, VerifyWrong, VerifyConsume,
         VerifyConsumeLost, VerifyReset, EnableSet, DisableClear, CallFails,
         VerifyExpired, Setup, ResetPassword, Tick
<1>2. now' = now \/ Tick
  BY NextCases DEF LoginRead, VerifyBegin, EnableRead, DisableRead, UpgradeRead, UpgradeWrite,
         UpgradeFails, LoginIssueSession, LoginIssuePending, VerifyRead, VerifyReserve,
         VerifyExhausted, VerifyTOTP, VerifyBackupMatch, VerifyWrong, VerifyConsume,
         VerifyConsumeLost, VerifyReset, EnableSet, DisableClear, CallFails,
         VerifyExpired, Setup, ResetPassword, DeleteUser
<1> QED
  BY <1>1, <1>2

(* The stored accounts stay accounts.                                      *)
LEMMA AccountTypes ==
    ASSUME TypeInv, Next
    PROVE  acct' \in [Users -> Account] /\ live' \subseteq Users
<1> USE DEF At
<1>0. acct \in [Users -> Account] /\ live \subseteq Users
  BY DEF TypeInv, TypeOK
<1>1. ASSUME NEW u \in Users, NEW b \in Account, acct' = [acct EXCEPT ![u] = b]
      PROVE  acct' \in [Users -> Account]
  BY <1>0, <1>1
<1>2. ASSUME NEW r \in Requests, UpgradeWrite(r) PROVE acct' \in [Users -> Account]
  <2> DEFINE u == req[r].user
  <2> DEFINE up == [req[r].cur EXCEPT !.hash = Argon2id(req[r].pw)]
  <2>1. u \in Users /\ req[r].cur \in Account /\ req[r].pw \in Passwords
    BY <1>2 DEF UpgradeWrite, TypeInv, RequestOK
  <2>2. up \in Account
    BY <2>1, StorageTypes
  <2>3. UpdateUser(acct[u], up) \in Account
    BY <1>0, <2>1, <2>2, StorageTypes
  <2>4. acct' = [acct EXCEPT ![u] = UpdateUser(acct[u], up)]
    BY <1>0, <1>2, <2>1 DEF UpgradeWrite
  <2> QED
    BY <1>1, <2>1, <2>3, <2>4
<1>3. ASSUME NEW r \in Requests, LoginIssuePending(r) \/ VerifyReset(r)
      PROVE  acct' \in [Users -> Account]
  <2>1. req[r].user \in Users
    BY <1>3 DEF LoginIssuePending, VerifyReset, TypeInv, RequestOK
  <2>2. acct' = [acct EXCEPT ![req[r].user] = ResetTOTPAttempts(acct[req[r].user])]
    BY <1>0, <1>3, <2>1 DEF LoginIssuePending, VerifyReset
  <2> QED
    BY <1>0, <1>1, <2>1, <2>2, StorageTypes
<1>4. ASSUME NEW r \in Requests, VerifyReserve(r) PROVE acct' \in [Users -> Account]
  <2>1. req[r].user \in Users
    BY <1>4 DEF VerifyReserve, TypeInv, RequestOK
  <2>2. acct' = [acct EXCEPT ![req[r].user] = ConsumeTOTPAttempt(acct[req[r].user])]
    BY <1>0, <1>4, <2>1 DEF VerifyReserve
  <2> QED
    BY <1>0, <1>1, <2>1, <2>2, StorageTypes
<1>5. ASSUME NEW r \in Requests, VerifyConsume(r) PROVE acct' \in [Users -> Account]
  <2>1. req[r].user \in Users /\ req[r].code \in Codes
    BY <1>5 DEF VerifyConsume, TypeInv, RequestOK
  <2>2. acct' = [acct EXCEPT ![req[r].user] = ConsumeBackupCode(acct[req[r].user], req[r].code)]
    BY <1>0, <1>5, <2>1 DEF VerifyConsume
  <2> QED
    BY <1>0, <1>1, <2>1, <2>2, StorageTypes
<1>6. ASSUME NEW r \in Requests, NEW saved \in BOOLEAN, EnableSet(r, saved)
      PROVE  acct' \in [Users -> Account]
  <2> DEFINE new == SetTOTP(acct[req[r].user], req[r].cookie.psec, req[r].codes)
  <2>1. req[r].user \in Users /\ req[r].cookie.psec \in Secrets /\ req[r].codes \subseteq Codes
    BY <1>6 DEF EnableSet, TypeInv, TypeOK, Request, RequestOK
  <2>2. acct' = [acct EXCEPT ![req[r].user] = new]
    BY <1>0, <1>6, <2>1 DEF EnableSet
  <2>3. new \in Account
    BY <1>0, <2>1, StorageTypes
  <2> QED
    BY <1>1, <2>1, <2>2, <2>3
<1>7. ASSUME NEW r \in Requests, DisableClear(r) PROVE acct' \in [Users -> Account]
  <2>1. req[r].user \in Users
    BY <1>7 DEF DisableClear, TypeInv, RequestOK
  <2>2. acct' = [acct EXCEPT ![req[r].user] = ClearTOTP(acct[req[r].user])]
    BY <1>0, <1>7, <2>1 DEF DisableClear
  <2> QED
    BY <1>0, <1>1, <2>1, <2>2, StorageTypes
<1>8. ASSUME NEW u \in Users, NEW pw \in Passwords, ResetPassword(u, pw)
      PROVE  acct' \in [Users -> Account]
  <2> DEFINE up == [acct[u] EXCEPT !.hash = Argon2id(pw)]
  <2>1. up \in Account
    BY <1>0, StorageTypes
  <2>2. UpdateUser(acct[u], up) \in Account
    BY <1>0, <2>1, StorageTypes
  <2>3. acct' = [acct EXCEPT ![u] = UpdateUser(acct[u], up)]
    BY <1>0, <1>8 DEF ResetPassword
  <2> QED
    BY <1>1, <2>2, <2>3
<1>9. acct' \in [Users -> Account]
  BY AcctFrame, <1>0, <1>2, <1>3, <1>4, <1>5, <1>6, <1>7, <1>8
<1>10. live' \subseteq Users
  BY OutsideFrame, <1>0 DEF DeleteUser
<1> QED
  BY <1>9, <1>10

(* The signed sessions stay sessions.                                      *)
LEMMA CookieTypes ==
    ASSUME TypeInv, Next
    PROVE  cookies' \subseteq Session
<1> USE DEF At
<1>0. cookies \subseteq Session /\ now \in Nat /\ now + PendingTTL \in Nat
  BY ServerConstants DEF TypeInv, TypeOK
<1>1. ASSUME NEW r \in Requests, req[r].pc # "idle"
      PROVE  req[r].cookie \in Session /\ req[r].user \in Users
  BY <1>1 DEF TypeInv, TypeOK, Request, RequestOK
<1>2. ASSUME NEW r \in Requests, LoginIssueSession(r) PROVE cookies' \subseteq Session
  BY <1>0, <1>1, <1>2, SessionTypes DEF LoginIssueSession
<1>3. ASSUME NEW r \in Requests, LoginIssuePending(r) PROVE cookies' \subseteq Session
  <2>1. PendingSession(req[r].cookie, req[r].user, now + PendingTTL) \in Session
    BY <1>0, <1>1, <1>3, SessionTypes DEF LoginIssuePending
  <2>2. cookies' \subseteq cookies \cup {PendingSession(req[r].cookie, req[r].user, now + PendingTTL)}
    BY <1>3 DEF LoginIssuePending
  <2> QED
    BY <1>0, <2>1, <2>2
<1>4. ASSUME NEW r \in Requests, VerifyExhausted(r) PROVE cookies' \subseteq Session
  BY <1>0, <1>1, <1>4, SessionTypes DEF VerifyExhausted
<1>5. ASSUME NEW r \in Requests, VerifyWrong(r) PROVE cookies' \subseteq Session
  BY <1>0, <1>1, <1>5, SessionTypes DEF VerifyWrong, RejectCode
<1>6. ASSUME NEW r \in Requests, VerifyConsumeLost(r) PROVE cookies' \subseteq Session
  BY <1>0, <1>1, <1>6, SessionTypes DEF VerifyConsumeLost, RejectCode
<1>7. ASSUME NEW r \in Requests, VerifyReset(r) PROVE cookies' \subseteq Session
  <2>1. EndPending(req[r].cookie) \in Session
    BY <1>1, <1>7, SessionTypes DEF VerifyReset
  <2>2. LoginSession(EndPending(req[r].cookie), req[r].user) \in Session
    BY <1>1, <1>7, <2>1, SessionTypes DEF VerifyReset
  <2> QED
    BY <1>0, <1>7, <2>1, <2>2 DEF VerifyReset
<1>8. ASSUME NEW r \in Requests, NEW saved \in BOOLEAN, EnableSet(r, saved)
      PROVE  cookies' \subseteq Session
  <2>1. [req[r].cookie EXCEPT !.psec = None] \in Session
    BY <1>1, <1>8, SessionTypes DEF EnableSet
  <2>2. cookies' = cookies \cup {[req[r].cookie EXCEPT !.psec = None]} \/ cookies' = cookies
    BY <1>8 DEF EnableSet
  <2> QED
    BY <1>0, <2>1, <2>2
<1>9. ASSUME NEW c \in cookies, VerifyExpired(c) PROVE cookies' \subseteq Session
  BY <1>0, <1>9, SessionTypes DEF VerifyExpired
<1>10. ASSUME NEW c \in cookies, NEW secret \in Secrets, Setup(c, secret)
       PROVE  cookies' \subseteq Session
  BY <1>0, <1>10, SessionTypes DEF Setup
<1> QED
  BY CookieFrame, <1>0, <1>2, <1>3, <1>4, <1>5, <1>6, <1>7, <1>8, <1>9, <1>10

(* What the application and the clock change stays in its type.            *)
LEMMA HistoryTypes ==
    ASSUME TypeInv, Next
    PROVE  /\ now' \in Nat
           /\ owner' \in [Secrets \cup Codes -> Users \cup {None}]
           /\ tries' \in [Users -> Nat]
           /\ held' \in [Users -> SUBSET Requests]
           /\ proved' \subseteq Users
           /\ everOff' \subseteq Users
           /\ uses' \in [Codes -> Nat]
           /\ promised' \in [Users -> SUBSET Codes]
           /\ resetTo' \in [Users -> Passwords \cup {None}]
           /\ raced' \subseteq Users
           /\ doubled' \subseteq Users
<1> USE DEF At
<1>a. /\ now \in Nat
      /\ owner \in [Secrets \cup Codes -> Users \cup {None}]
      /\ tries \in [Users -> Nat]
      /\ held \in [Users -> SUBSET Requests]
      /\ proved \subseteq Users
      /\ everOff \subseteq Users
      /\ uses \in [Codes -> Nat]
      /\ promised \in [Users -> SUBSET Codes]
      /\ resetTo \in [Users -> Passwords \cup {None}]
      /\ raced \subseteq Users
      /\ doubled \subseteq Users
  BY DEF TypeInv, TypeOK
<1>b. ASSUME NEW r \in Requests, req[r].pc # "idle"
      PROVE  req[r].user \in Users /\ req[r].codes \subseteq Codes
  BY <1>b DEF TypeInv, TypeOK, Request, RequestOK
<1>1. now' \in Nat
  BY OutsideFrame, <1>a DEF Tick
<1>2. owner' \in [Secrets \cup Codes -> Users \cup {None}]
  <2>1. ASSUME NEW c \in cookies, Authenticated(c) PROVE c.uid \in Users
    BY <2>1 DEF Authenticated, TypeInv, TypeOK
  <2>2. ASSUME NEW r \in Requests, NEW c \in cookies, NEW pw \in Passwords,
               NEW drawn \in SUBSET Codes, EnableRead(r, c, pw, drawn)
        PROVE  owner' \in [Secrets \cup Codes -> Users \cup {None}]
    BY <1>a, <2>1, <2>2 DEF EnableRead
  <2>3. ASSUME NEW c \in cookies, NEW secret \in Secrets, Setup(c, secret)
        PROVE  owner' \in [Secrets \cup Codes -> Users \cup {None}]
    BY <1>a, <2>1, <2>3 DEF Setup
  <2> QED
    BY OwnerFrame, <1>a, <2>2, <2>3
<1>3. tries' \in [Users -> Nat] /\ held' \in [Users -> SUBSET Requests]
  <2>1. ASSUME NEW u \in Users, RenewBudget(u)
        PROVE  tries' \in [Users -> Nat] /\ held' \in [Users -> SUBSET Requests]
    BY <1>a, <2>1 DEF RenewBudget
  <2>2. ASSUME NEW r \in Requests, req[r].pc # "idle", CountTry(r)
        PROVE  tries' \in [Users -> Nat] /\ held' \in [Users -> SUBSET Requests]
    BY <1>a, <1>b, <2>2 DEF CountTry, KeepBudget
  <2>3. ASSUME NEW r \in Requests, VerifyReserve(r)
        PROVE  tries' \in [Users -> Nat] /\ held' \in [Users -> SUBSET Requests]
    BY <1>a, <1>b, <2>3 DEF VerifyReserve
  <2> QED
    BY BudgetFrame, <1>a, <1>b, <2>1, <2>2, <2>3
       DEF LoginIssuePending, VerifyTOTP, VerifyBackupMatch, VerifyWrong, VerifyReset,
           EnableSet, DisableClear
<1>4. proved' \subseteq Users
  <2>1. ASSUME NEW r \in Requests, VerifyConsume(r) PROVE proved' \subseteq Users
    BY <1>a, <1>b, <2>1 DEF VerifyConsume
  <2>2. ASSUME NEW r \in Requests, NEW secret \in Secrets, VerifyTOTP(r, secret)
        PROVE  proved' \subseteq Users
    BY <1>a, <1>b, <2>2 DEF VerifyTOTP
  <2> QED
    BY EnrolmentFrame, <1>a, <2>1, <2>2
<1>5. everOff' \subseteq Users
  <2>1. ASSUME NEW r \in Requests, DisableClear(r) PROVE everOff' \subseteq Users
    BY <1>a, <1>b, <2>1 DEF DisableClear
  <2> QED
    BY EnrolmentFrame, <1>a, <2>1
<1>6. uses' \in [Codes -> Nat]
  <2>1. ASSUME NEW r \in Requests, VerifyConsume(r) PROVE uses' \in [Codes -> Nat]
    <3>1. req[r].code \in Codes /\ uses' = [uses EXCEPT ![req[r].code] = uses[req[r].code] + 1]
      BY <1>a, <2>1 DEF VerifyConsume, TypeInv, RequestOK
    <3> QED
      BY <1>a, <3>1
  <2> QED
    BY UsesFrame, <1>a, <2>1
<1>7. promised' \in [Users -> SUBSET Codes]
  <2>1. ASSUME NEW r \in Requests, VerifyConsume(r) \/ DisableClear(r)
        PROVE  promised' \in [Users -> SUBSET Codes]
    BY <1>a, <2>1 DEF VerifyConsume, DisableClear
  <2>2. ASSUME NEW r \in Requests, NEW saved \in BOOLEAN, EnableSet(r, saved)
        PROVE  promised' \in [Users -> SUBSET Codes]
    BY <1>a, <1>b, <2>2 DEF EnableSet
  <2> QED
    BY EnrolmentFrame, <1>a, <2>1, <2>2
<1>8. resetTo' \in [Users -> Passwords \cup {None}] /\ raced' \subseteq Users
  <2>1. ASSUME NEW u \in Users, NEW pw \in Passwords, ResetPassword(u, pw)
        PROVE  resetTo' \in [Users -> Passwords \cup {None}] /\ raced' \subseteq Users
    BY <1>a, <2>1 DEF ResetPassword
  <2> QED
    BY ResetFrame, <1>a, <2>1
<1>9. doubled' \subseteq Users
  <2>1. ASSUME NEW r \in Requests, NEW c \in cookies, NEW pw \in Passwords,
               NEW drawn \in SUBSET Codes, EnableRead(r, c, pw, drawn)
        PROVE  doubled' \subseteq Users
    BY <1>a, <2>1 DEF EnableRead, Authenticated, TypeInv, TypeOK
  <2> QED
    BY DoubledFrame, <1>a, <2>1
<1> QED
  BY <1>1, <1>2, <1>3, <1>4, <1>5, <1>6, <1>7, <1>8, <1>9

LEMMA StepTypeInv == TypeInv /\ [Next]_vars => TypeInv'
<1>1. CASE TypeInv /\ Next
  BY <1>1, RequestTypes, AccountTypes, CookieTypes, HistoryTypes DEF TypeInv, TypeOK
<1>2. CASE TypeInv /\ UNCHANGED vars
  BY <1>2 DEF TypeInv, TypeOK, vars, history
<1> QED
  BY <1>1, <1>2

(* Type correctness: every value the handlers, the storage and the         *)
(* sessions hold has its type.  The induction needs TypeInv: a handler     *)
(* never uses a user, a code or a pending secret it has not read.          *)
THEOREM TypeCorrect == Spec => []TypeOK
<1>1. TypeInv => TypeOK
  BY DEF TypeInv
<1> QED
  BY <1>1, InitTypeInv, StepTypeInv, PTL DEF Spec

----------------------------------------------------------------------------
(* The attempt budget.  Every code checked against the current budget, and *)
(* every reservation whose code is still to be checked, is an increment of *)
(* the stored counter that happened while it was below the limit.          *)
BudgetInv ==
    \A u \in Users :
        /\ tries[u] + Cardinality(held[u]) <= acct[u].failed
        /\ tries[u] + Cardinality(held[u]) <= MaxVerifyAttempts

LEMMA HeldFinite ==
    ASSUME TypeInv, NEW u \in Users
    PROVE  IsFiniteSet(held[u]) /\ Cardinality(held[u]) \in Nat
  BY ServerConstants, FS_Subset, FS_CardinalityType DEF TypeInv, TypeOK

LEMMA InitBudgetInv == Init => BudgetInv
<1> SUFFICES ASSUME Init, NEW u \in Users
             PROVE  /\ tries[u] + Cardinality(held[u]) <= acct[u].failed
                    /\ tries[u] + Cardinality(held[u]) <= MaxVerifyAttempts
  BY DEF BudgetInv
<1>1. tries[u] = 0 /\ held[u] = {} /\ acct[u].failed \in Nat
  BY InitTypeInv DEF Init, TypeInv, TypeOK, Account
<1>2. Cardinality({}) = 0
  BY FS_EmptySet
<1> QED
  BY <1>1, <1>2, ServerConstants

(* A fresh budget is empty, whatever is stored.                            *)
LEMMA RenewedBudget ==
    ASSUME TypeInv, TypeInv', BudgetInv, NEW u \in Users, RenewBudget(u),
           \A v \in Users \ {u} : acct'[v] = acct[v]
    PROVE  BudgetInv'
<1> SUFFICES ASSUME NEW v \in Users
             PROVE  /\ tries'[v] + Cardinality(held'[v]) <= acct'[v].failed
                    /\ tries'[v] + Cardinality(held'[v]) <= MaxVerifyAttempts
  BY DEF BudgetInv
<1>1. CASE v = u
  <2>1. tries'[v] = 0 /\ held'[v] = {}
    BY <1>1 DEF RenewBudget, TypeInv, TypeOK
  <2>2. acct'[v].failed \in Nat
    BY DEF TypeInv, TypeOK, Account
  <2>3. Cardinality({}) = 0
    BY FS_EmptySet
  <2> QED
    BY <2>1, <2>2, <2>3, ServerConstants
<1>2. CASE v # u
  BY <1>2 DEF RenewBudget, TypeInv, TypeOK, BudgetInv
<1> QED
  BY <1>1, <1>2

(* Checking a code moves one reservation from held to tries.               *)
LEMMA CountedTry ==
    ASSUME TypeInv, BudgetInv, NEW r \in Requests, req[r].user \in Users, CountTry(r),
           acct' = acct
    PROVE  BudgetInv'
<1> DEFINE u == req[r].user
<1> SUFFICES ASSUME NEW v \in Users
             PROVE  tries'[v] + Cardinality(held'[v]) = tries[v] + Cardinality(held[v])
  BY DEF BudgetInv
<1>1. CASE r \in held[u] /\ v = u
  <2>1. tries'[u] = tries[u] + 1 /\ held'[u] = held[u] \ {r} /\ tries[u] \in Nat
    BY <1>1 DEF CountTry, TypeInv, TypeOK
  <2>2. Cardinality(held[u] \ {r}) = Cardinality(held[u]) - 1
    BY <1>1, HeldFinite, FS_RemoveElement
  <2>3. Cardinality(held[u]) \in Nat
    BY HeldFinite
  <2> QED
    BY <1>1, <2>1, <2>2, <2>3
<1>2. CASE ~(r \in held[u] /\ v = u)
  BY <1>2 DEF CountTry, KeepBudget, TypeInv, TypeOK
<1> QED
  BY <1>1, <1>2

(* An update that leaves the counter alone leaves the budget alone.        *)
LEMMA SameBudget ==
    ASSUME TypeInv, BudgetInv, tries' = tries, held' = held,
           \A v \in Users : acct'[v].failed = acct[v].failed
    PROVE  BudgetInv'
  BY DEF BudgetInv

LEMMA StepBudgetInv == TypeInv /\ TypeInv' /\ BudgetInv /\ [Next]_vars => BudgetInv'
<1> SUFFICES ASSUME TypeInv, TypeInv', BudgetInv, [Next]_vars PROVE BudgetInv'
  OBVIOUS
<1>a. acct \in [Users -> Account]
  BY DEF TypeInv, TypeOK
<1>b. ASSUME NEW r \in Requests, req[r].pc # "idle" PROVE req[r].user \in Users
  BY <1>b DEF TypeInv, RequestOK
<1>u. ASSUME NEW a \in Account, NEW b PROVE UpdateUser(a, b).failed = a.failed
  BY DEF UpdateUser, Account
<1>1. ASSUME NEW r \in Requests,
             LoginIssuePending(r) \/ VerifyReset(r) \/ DisableClear(r)
      PROVE  BudgetInv'
  <2>1. req[r].user \in Users /\ RenewBudget(req[r].user)
    BY <1>1, <1>b DEF LoginIssuePending, VerifyReset, DisableClear, At
  <2>2. \A v \in Users \ {req[r].user} : acct'[v] = acct[v]
    BY <1>1, <1>a DEF LoginIssuePending, VerifyReset, DisableClear
  <2> QED
    BY <2>1, <2>2, RenewedBudget
<1>2. ASSUME NEW r \in Requests, NEW saved \in BOOLEAN, EnableSet(r, saved)
      PROVE  BudgetInv'
  <2>1. req[r].user \in Users /\ RenewBudget(req[r].user)
    BY <1>2, <1>b DEF EnableSet, At
  <2>2. \A v \in Users \ {req[r].user} : acct'[v] = acct[v]
    BY <1>2, <1>a DEF EnableSet
  <2> QED
    BY <2>1, <2>2, RenewedBudget
<1>3. ASSUME NEW r \in Requests, VerifyReserve(r) PROVE BudgetInv'
  <2> DEFINE u == req[r].user
  <2>1. u \in Users /\ acct[u] \in Account
    BY <1>3, <1>a, <1>b DEF VerifyReserve, At
  <2>2. /\ acct[u].failed < MaxVerifyAttempts
        /\ acct' = [acct EXCEPT ![u] = ConsumeTOTPAttempt(acct[u])]
        /\ held' = [held EXCEPT ![u] = held[u] \cup {r}]
        /\ tries' = tries
    BY <1>3, <1>a, <2>1 DEF VerifyReserve, CanConsumeTOTPAttempt, TypeInv, TypeOK
  <2>3. acct'[u].failed = acct[u].failed + 1
    BY <1>a, <2>1, <2>2 DEF ConsumeTOTPAttempt, Account
  <2>4. /\ IsFiniteSet(held[u])
        /\ Cardinality(held[u]) \in Nat
        /\ Cardinality(held[u] \cup {r}) <= Cardinality(held[u]) + 1
    <3>1. IsFiniteSet(held[u]) /\ Cardinality(held[u]) \in Nat
      BY <2>1, HeldFinite
    <3>2. \/ Cardinality(held[u] \cup {r}) = Cardinality(held[u])
          \/ Cardinality(held[u] \cup {r}) = Cardinality(held[u]) + 1
      BY <3>1, FS_AddElement
    <3> QED
      BY <3>1, <3>2
  <2>5. held'[u] = held[u] \cup {r}
    BY <2>1, <2>2 DEF TypeInv, TypeOK
  <2>6. Cardinality(held'[u]) \in Nat
    BY <2>1, <2>4, <2>5, FS_AddElement, FS_CardinalityType
  <2>7. tries[u] \in Nat /\ acct[u].failed \in Nat
    BY <2>1 DEF TypeInv, TypeOK, Account
  <2>8. /\ tries'[u] + Cardinality(held'[u]) <= acct'[u].failed
        /\ tries'[u] + Cardinality(held'[u]) <= MaxVerifyAttempts
    <3>1. tries[u] + Cardinality(held[u]) <= acct[u].failed
      BY <2>1 DEF BudgetInv
    <3>2. tries'[u] = tries[u] /\ Cardinality(held'[u]) <= Cardinality(held[u]) + 1
      BY <2>2, <2>4, <2>5
    <3> HIDE DEF u
    <3> QED
      BY <3>1, <3>2, <2>2, <2>3, <2>4, <2>6, <2>7, ServerConstants
  <2>9. \A v \in Users \ {u} : held'[v] = held[v] /\ acct'[v] = acct[v]
    BY <1>a, <2>2 DEF TypeInv, TypeOK
  <2> QED
    BY <2>2, <2>8, <2>9 DEF BudgetInv
<1>4. ASSUME NEW r \in Requests, VerifyWrong(r) PROVE BudgetInv'
  BY <1>4, <1>b, CountedTry DEF VerifyWrong, At
<1>5. ASSUME NEW r \in Requests, NEW secret \in Secrets, VerifyTOTP(r, secret)
      PROVE  BudgetInv'
  BY <1>5, <1>b, CountedTry DEF VerifyTOTP, At
<1>6. ASSUME NEW r \in Requests, NEW code \in Codes, VerifyBackupMatch(r, code)
      PROVE  BudgetInv'
  BY <1>6, <1>b, CountedTry DEF VerifyBackupMatch, At
<1>7. ASSUME NEW r \in Requests, UpgradeWrite(r) PROVE BudgetInv'
  <2>1. \A v \in Users : acct'[v].failed = acct[v].failed
    <3> DEFINE up == [req[r].cur EXCEPT !.hash = Argon2id(req[r].pw)]
    <3>1. req[r].user \in Users
      BY <1>7, <1>b DEF UpgradeWrite, At
    <3>2. acct' = [acct EXCEPT ![req[r].user] = UpdateUser(acct[req[r].user], up)]
      BY <1>7, <1>a, <3>1 DEF UpgradeWrite
    <3> QED
      BY <1>a, <1>u, <3>1, <3>2
  <2> QED
    BY <1>7, <2>1, SameBudget DEF UpgradeWrite, history
<1>8. ASSUME NEW r \in Requests, VerifyConsume(r) PROVE BudgetInv'
  <2>1. \A v \in Users : acct'[v].failed = acct[v].failed
    BY <1>8, <1>a DEF VerifyConsume, ConsumeBackupCode, Account
  <2> QED
    BY <1>8, <2>1, SameBudget DEF VerifyConsume
<1>9. ASSUME NEW u \in Users, NEW pw \in Passwords, ResetPassword(u, pw) PROVE BudgetInv'
  <2>1. \A v \in Users : acct'[v].failed = acct[v].failed
    BY <1>9, <1>a, <1>u DEF ResetPassword
  <2> QED
    BY <1>9, <2>1, SameBudget DEF ResetPassword
<1>10. ASSUME UNCHANGED <<acct, tries, held>> PROVE BudgetInv'
  BY <1>10, SameBudget
<1>11. CASE UNCHANGED vars
  BY <1>10, <1>11 DEF vars, history
<1>12. CASE Next
  BY <1>1, <1>2, <1>3, <1>4, <1>5, <1>6, <1>7, <1>8, <1>9, <1>10, <1>12, AcctFrame, BudgetFrame
<1> QED
  BY <1>11, <1>12

(* For any number of users, requests, replicas and replayed cookies, and   *)
(* any limit, no more than MaxVerifyAttempts codes are checked per budget. *)
THEOREM Budget == Spec => []BudgetHolds
<1>1. TypeInv /\ BudgetInv => BudgetHolds
  <2> SUFFICES ASSUME TypeInv, BudgetInv, NEW u \in Users PROVE tries[u] <= MaxVerifyAttempts
    BY DEF BudgetHolds
  <2>1. Cardinality(held[u]) \in Nat /\ tries[u] \in Nat
    BY HeldFinite DEF TypeInv, TypeOK
  <2> QED
    BY <2>1, ServerConstants DEF BudgetInv
<1> QED
  BY <1>1, InitTypeInv, StepTypeInv, InitBudgetInv, StepBudgetInv, PTL DEF Spec

----------------------------------------------------------------------------
(* Backup codes.  A stored code is unused and belongs to the user that     *)
(* stores it; codes drawn for an enrolment under way are unused, stored    *)
(* nowhere and drawn by no other request; a used code has an owner, so it  *)
(* is never drawn again.                                                   *)
StoredUnused ==
    \A u \in Users : \A c \in acct[u].codes : owner[c] = u /\ uses[c] = 0

DrawnUnused ==
    \A r \in Requests : At(r, "enableSet") =>
        \A c \in req[r].codes :
            /\ owner[c] = req[r].user
            /\ uses[c] = 0
            /\ \A u \in Users : c \notin acct[u].codes

DrawnOnce ==
    \A r, s \in Requests : r # s /\ At(r, "enableSet") /\ At(s, "enableSet") =>
        req[r].codes \cap req[s].codes = {}

UsedOwned == \A c \in Codes : uses[c] = 0 \/ (uses[c] = 1 /\ owner[c] # None)

CodesInv == StoredUnused /\ DrawnUnused /\ DrawnOnce /\ UsedOwned

LEMMA InitCodesInv == Init => CodesInv
<1> SUFFICES ASSUME Init PROVE CodesInv
  OBVIOUS
<1>0. TypeInv
  BY InitTypeInv
<1>1. ASSUME NEW u \in Users, NEW c \in acct[u].codes PROVE owner[c] = u
  <2>1. c \in Codes /\ acct \in [Users -> Account]
    BY <1>0, StorageTypes DEF TypeInv, TypeOK
  <2>2. \A v \in Users : c \in acct[v].codes \cup {acct[v].secret} => v = u
    <3> SUFFICES ASSUME NEW v \in Users, c \in acct[v].codes \cup {acct[v].secret}
                 PROVE  v = u
      OBVIOUS
    <3>1. acct[v].secret \in Secrets \cup {None}
      BY <2>1, StorageTypes
    <3>2. c # acct[v].secret
      BY <2>1, <3>1, StorageConstants
    <3> QED
      BY <1>1, <3>2, InitialTablesAssumption DEF Init
  <2>3. owner[c] = CHOOSE v \in Users : c \in acct[v].codes \cup {acct[v].secret}
    BY <1>1, <2>1 DEF Init
  <2> QED
    BY <1>1, <2>2, <2>3
<1>2. \A c \in Codes : uses[c] = 0
  BY DEF Init
<1>3. StoredUnused
  BY <1>0, <1>1, <1>2 DEF StoredUnused, TypeInv, TypeOK, Account
<1>4. \A r \in Requests : ~At(r, "enableSet")
  BY DEF Init, Idle, At
<1> QED
  BY <1>2, <1>3, <1>4 DEF CodesInv, DrawnUnused, DrawnOnce, UsedOwned

(* Which requests are between drawing backup codes and storing them.       *)
LEMMA EnableSetFrame ==
    ASSUME TypeInv, Next
    PROVE  \/ \E r \in Requests, c \in cookies, pw \in Passwords, drawn \in SUBSET Codes :
                 EnableRead(r, c, pw, drawn)
           \/ \A r \in Requests : At(r, "enableSet")' =>
                 At(r, "enableSet") /\ req'[r] = req[r]
<1> DEFINE Same == \A r \in Requests : At(r, "enableSet")' =>
                      At(r, "enableSet") /\ req'[r] = req[r]
<1>0. req \in [Requests -> Request]
  BY DEF TypeInv, TypeOK
<1>1. ASSUME NEW r \in Requests, NEW q, q.pc # "enableSet", req' = [req EXCEPT ![r] = q]
      PROVE  Same
  BY <1>0, <1>1 DEF At
<1>2. ASSUME NEW r \in Requests, Done(r) PROVE Same
  BY <1>1, <1>2 DEF Done, Idle
<1>3. ASSUME UNCHANGED req PROVE Same
  BY <1>3 DEF At
<1>4. ASSUME NEW r \in Requests, NEW c, NEW u, NEW pw, LoginRead(r, u, pw, c) PROVE Same
  <2> DEFINE q == [Idle EXCEPT !.pc = IF NeedsUpgrade(pw, acct[u].hash)
                                      THEN "upgradeRead" ELSE "loginIssue",
                               !.user = u, !.cookie = c, !.pw = pw, !.snap = acct[u]]
  <2>1. q.pc # "enableSet"
    BY DEF Idle
  <2> QED
    BY <1>1, <1>4, <2>1 DEF LoginRead
<1>5. ASSUME NEW r \in Requests, NEW c, VerifyBegin(r, c) PROVE Same
  <2> DEFINE q == [Idle EXCEPT !.pc = "verifyRead", !.user = c.pend, !.cookie = c]
  <2>1. q.pc # "enableSet"
    BY DEF Idle
  <2> QED
    BY <1>1, <1>5, <2>1 DEF VerifyBegin
<1>6. ASSUME NEW r \in Requests, NEW c, NEW pw, DisableRead(r, c, pw) PROVE Same
  <2> DEFINE q == [Idle EXCEPT !.pc = "disableClear", !.user = c.uid]
  <2>1. q.pc # "enableSet"
    BY DEF Idle
  <2> QED
    BY <1>1, <1>6, <2>1 DEF DisableRead
<1>7. ASSUME NEW r \in Requests, UpgradeRead(r) PROVE Same
  BY <1>0, <1>7 DEF UpgradeRead, Goto, At, Request
<1>8. ASSUME NEW r \in Requests, UpgradeWrite(r) \/ UpgradeFails(r) PROVE Same
  BY <1>0, <1>8 DEF UpgradeWrite, UpgradeFails, ContinueLogin, At, Request
<1>9. ASSUME NEW r \in Requests, VerifyRead(r) PROVE Same
  BY <1>0, <1>2, <1>9 DEF VerifyRead, At, Request
<1>10. ASSUME NEW r \in Requests, VerifyReserve(r) PROVE Same
  BY <1>0, <1>10 DEF VerifyReserve, At, Request
<1>11. ASSUME NEW r \in Requests, NEW x, VerifyTOTP(r, x) \/ VerifyBackupMatch(r, x)
       PROVE  Same
  BY <1>0, <1>11 DEF VerifyTOTP, VerifyBackupMatch, At, Request
<1>12. ASSUME NEW r \in Requests, VerifyConsume(r) PROVE Same
  BY <1>0, <1>12 DEF VerifyConsume, At, Request
<1>13. ASSUME NEW r \in Requests,
              \/ LoginIssueSession(r) \/ LoginIssuePending(r) \/ VerifyExhausted(r)
              \/ VerifyWrong(r) \/ VerifyConsumeLost(r) \/ VerifyReset(r)
              \/ (\E saved \in BOOLEAN : EnableSet(r, saved)) \/ DisableClear(r) \/ CallFails(r)
       PROVE  Same
  BY <1>2, <1>13 DEF LoginIssueSession, LoginIssuePending, VerifyExhausted, VerifyWrong,
     VerifyConsumeLost, VerifyReset, EnableSet, DisableClear, CallFails, RejectCode
<1>14. ASSUME \/ \E c \in cookies : VerifyExpired(c)
              \/ \E c \in cookies, secret \in Secrets : Setup(c, secret)
              \/ \E u \in Users, pw \in Passwords : ResetPassword(u, pw)
              \/ \E u \in Users : DeleteUser(u)
              \/ Tick
       PROVE  Same
  BY <1>3, <1>14 DEF VerifyExpired, Setup, ResetPassword, DeleteUser, Tick
<1> QED
  BY NextCases, <1>4, <1>5, <1>6, <1>7, <1>8, <1>9, <1>10, <1>11, <1>12, <1>13, <1>14

(* The stored codes only shrink, except where SetTOTP stores new ones.     *)
LEMMA CodesFrame ==
    ASSUME TypeInv, Next
    PROVE  \/ \A u \in Users : acct'[u].codes \subseteq acct[u].codes
           \/ \E r \in Requests, saved \in BOOLEAN : EnableSet(r, saved)
<1> USE DEF At
<1>0. acct \in [Users -> Account]
  BY DEF TypeInv, TypeOK
<1>1. ASSUME NEW v, NEW b, acct' = [acct EXCEPT ![v] = b], v \in Users => b.codes \subseteq acct[v].codes
      PROVE  \A u \in Users : acct'[u].codes \subseteq acct[u].codes
  BY <1>0, <1>1
<1>2. ASSUME NEW r \in Requests, UpgradeWrite(r)
      PROVE  \A u \in Users : acct'[u].codes \subseteq acct[u].codes
  <2> DEFINE up == [req[r].cur EXCEPT !.hash = Argon2id(req[r].pw)]
  <2>1. req[r].user \in Users
    BY <1>2 DEF UpgradeWrite, TypeInv, RequestOK
  <2>2. acct' = [acct EXCEPT ![req[r].user] = UpdateUser(acct[req[r].user], up)]
    BY <1>0, <1>2, <2>1 DEF UpgradeWrite
  <2>3. UpdateUser(acct[req[r].user], up).codes = acct[req[r].user].codes
    BY <1>0, <2>1 DEF UpdateUser, Account
  <2> QED
    BY <1>1, <2>2, <2>3
<1>3. ASSUME NEW u \in Users, NEW pw \in Passwords, ResetPassword(u, pw)
      PROVE  \A v \in Users : acct'[v].codes \subseteq acct[v].codes
  <2> DEFINE up == [acct[u] EXCEPT !.hash = Argon2id(pw)]
  <2>1. acct' = [acct EXCEPT ![u] = UpdateUser(acct[u], up)]
    BY <1>0, <1>3 DEF ResetPassword
  <2>2. UpdateUser(acct[u], up).codes = acct[u].codes
    BY <1>0 DEF UpdateUser, Account
  <2> QED
    BY <1>1, <2>1, <2>2
<1>4. ASSUME NEW r \in Requests,
             LoginIssuePending(r) \/ VerifyReset(r) \/ VerifyReserve(r)
      PROVE  \A u \in Users : acct'[u].codes \subseteq acct[u].codes
  <2>1. req[r].user \in Users
    BY <1>4 DEF LoginIssuePending, VerifyReset, VerifyReserve, TypeInv, RequestOK
  <2>2. \/ acct' = [acct EXCEPT ![req[r].user] = ResetTOTPAttempts(acct[req[r].user])]
        \/ acct' = [acct EXCEPT ![req[r].user] = ConsumeTOTPAttempt(acct[req[r].user])]
    BY <1>0, <1>4, <2>1 DEF LoginIssuePending, VerifyReset, VerifyReserve
  <2>3. /\ ResetTOTPAttempts(acct[req[r].user]).codes = acct[req[r].user].codes
        /\ ConsumeTOTPAttempt(acct[req[r].user]).codes = acct[req[r].user].codes
    BY <1>0, <2>1 DEF ResetTOTPAttempts, ConsumeTOTPAttempt, Account
  <2> QED
    BY <1>1, <2>2, <2>3
<1>5. ASSUME NEW r \in Requests, VerifyConsume(r) \/ DisableClear(r)
      PROVE  \A u \in Users : acct'[u].codes \subseteq acct[u].codes
  <2>1. req[r].user \in Users
    BY <1>5 DEF VerifyConsume, DisableClear, TypeInv, RequestOK
  <2>2. \/ acct' = [acct EXCEPT ![req[r].user] = ConsumeBackupCode(acct[req[r].user], req[r].code)]
        \/ acct' = [acct EXCEPT ![req[r].user] = ClearTOTP(acct[req[r].user])]
    BY <1>0, <1>5, <2>1 DEF VerifyConsume, DisableClear
  <2>3. /\ ConsumeBackupCode(acct[req[r].user], req[r].code).codes \subseteq acct[req[r].user].codes
        /\ ClearTOTP(acct[req[r].user]).codes \subseteq acct[req[r].user].codes
    BY <1>0, <2>1 DEF ConsumeBackupCode, ClearTOTP, Account
  <2> QED
    BY <1>1, <2>2, <2>3
<1> QED
  BY AcctFrame, <1>2, <1>3, <1>4, <1>5

LEMMA StepCodesInv == TypeInv /\ TypeInv' /\ CodesInv /\ [Next]_vars => CodesInv'
<1> SUFFICES ASSUME TypeInv, TypeInv', CodesInv, [Next]_vars PROVE CodesInv'
  OBVIOUS
<1>a. /\ acct \in [Users -> Account] /\ acct' \in [Users -> Account]
      /\ req \in [Requests -> Request] /\ req' \in [Requests -> Request]
      /\ owner \in [Secrets \cup Codes -> Users \cup {None}]
      /\ uses \in [Codes -> Nat]
  BY DEF TypeInv, TypeOK
<1>b. \A u \in Users : acct[u].codes \subseteq Codes /\ acct'[u].codes \subseteq Codes
  BY <1>a, StorageTypes
<1>c. \A r \in Requests : /\ req[r].codes \subseteq Codes
                          /\ At(r, "enableSet") => req[r].user \in Users
  BY <1>a DEF Request, TypeInv, RequestOK, At
<1>1. ASSUME NEW r \in Requests, NEW c \in cookies, NEW pw \in Passwords,
             NEW drawn \in SUBSET Codes, EnableRead(r, c, pw, drawn)
      PROVE  CodesInv'
  <2>1. /\ \A x \in drawn : owner[x] = None /\ owner'[x] = c.uid
        /\ \A x \in (Secrets \cup Codes) \ drawn : owner'[x] = owner[x]
        /\ UNCHANGED <<acct, uses>>
    BY <1>1 DEF EnableRead, history
  <2>2. /\ req'[r].codes = drawn /\ req'[r].user = c.uid /\ req'[r].pc = "enableSet"
        /\ \A s \in Requests \ {r} : req'[s] = req[s]
        /\ ~At(r, "enableSet")
    BY <1>1, <1>a DEF EnableRead, Idle, At
  <2>3. c.uid \in Users
    BY <1>1 DEF EnableRead, Authenticated, TypeInv, TypeOK
  <2>4. \A x \in drawn : /\ uses[x] = 0
                         /\ \A u \in Users : x \notin acct[u].codes
                         /\ \A s \in Requests : At(s, "enableSet") => x \notin req[s].codes
    BY <2>1, <1>c, StorageConstants DEF CodesInv, StoredUnused, DrawnUnused, UsedOwned
  <2>5. StoredUnused'
    BY <2>1, <2>4, <1>b DEF CodesInv, StoredUnused
  <2>6. DrawnUnused'
    BY <2>1, <2>2, <2>4, <1>c DEF CodesInv, DrawnUnused, At
  <2>7. DrawnOnce'
    BY <2>2, <2>4 DEF CodesInv, DrawnOnce, At
  <2>8. UsedOwned'
    BY <2>1, <2>3, <2>4, StorageConstants DEF CodesInv, UsedOwned
  <2> QED
    BY <2>5, <2>6, <2>7, <2>8 DEF CodesInv
<1>2. ASSUME NEW r \in Requests, NEW saved \in BOOLEAN, EnableSet(r, saved), Next
      PROVE  CodesInv'
  <2> DEFINE u == req[r].user
  <2>1. At(r, "enableSet") /\ u \in Users /\ UNCHANGED <<owner, uses>>
    BY <1>2, <1>c DEF EnableSet
  <2>2. acct' = [acct EXCEPT ![u] = SetTOTP(acct[u], req[r].cookie.psec, req[r].codes)]
    BY <1>2, <1>a, <2>1 DEF EnableSet
  <2>3. acct'[u].codes = req[r].codes /\ \A v \in Users \ {u} : acct'[v] = acct[v]
    BY <1>a, <2>1, <2>2 DEF SetTOTP, Account
  <2>4. ~At(r, "enableSet")' /\ \A s \in Requests \ {r} : req'[s] = req[s]
    BY <1>2, <1>a DEF EnableSet, Done, Idle, At
  <2>5. StoredUnused'
    <3>1. \A c \in req[r].codes : owner[c] = u /\ uses[c] = 0
      BY <2>1 DEF CodesInv, DrawnUnused
    <3> QED
      BY <2>1, <2>3, <3>1 DEF CodesInv, StoredUnused
  <2>6. DrawnUnused'
    <3> SUFFICES ASSUME NEW s \in Requests, At(s, "enableSet")', NEW c \in req'[s].codes
                 PROVE  /\ owner'[c] = req'[s].user
                        /\ uses'[c] = 0
                        /\ \A v \in Users : c \notin acct'[v].codes
      BY DEF DrawnUnused
    <3>1. s # r /\ req'[s] = req[s] /\ At(s, "enableSet")
      BY <2>4 DEF At
    <3>2. c \notin req[r].codes
      BY <2>1, <3>1 DEF CodesInv, DrawnOnce
    <3> QED
      BY <2>1, <2>3, <3>1, <3>2 DEF CodesInv, DrawnUnused
  <2>7. DrawnOnce'
    BY <2>4 DEF CodesInv, DrawnOnce, At
  <2>8. UsedOwned'
    BY <2>1 DEF CodesInv, UsedOwned
  <2> QED
    BY <2>5, <2>6, <2>7, <2>8 DEF CodesInv
<1>3. ASSUME NEW r \in Requests, VerifyConsume(r)
      PROVE  CodesInv'
  <2> DEFINE u == req[r].user
  <2> DEFINE code == req[r].code
  <2>1. u \in Users /\ code \in Codes /\ code \in acct[u].codes
    BY <1>3 DEF VerifyConsume, TypeInv, RequestOK, At
  <2>2. owner' = owner /\ uses' = [uses EXCEPT ![code] = uses[code] + 1]
    BY <1>3 DEF VerifyConsume
  <2>3. acct' = [acct EXCEPT ![u] = ConsumeBackupCode(acct[u], code)]
    BY <1>3, <1>a, <2>1 DEF VerifyConsume
  <2>4. acct'[u].codes = acct[u].codes \ {code} /\ \A v \in Users \ {u} : acct'[v] = acct[v]
    BY <1>a, <2>1, <2>3 DEF ConsumeBackupCode, Account
  <2>5. owner[code] = u /\ uses[code] = 0 /\ \A v \in Users \ {u} : code \notin acct[v].codes
    BY <2>1 DEF CodesInv, StoredUnused
  <2>6. uses'[code] = 1 /\ \A c \in Codes \ {code} : uses'[c] = uses[c]
    BY <1>a, <2>1, <2>2, <2>5
  <2>7. \A s \in Requests : At(s, "enableSet")' =>
            At(s, "enableSet") /\ req'[s] = req[s] /\ code \notin req[s].codes
    <3>1. \A s \in Requests : At(s, "enableSet") => code \notin req[s].codes
      BY <2>1 DEF CodesInv, DrawnUnused
    <3>2. \A s \in Requests : s # r => req'[s] = req[s]
      BY <1>3, <1>a DEF VerifyConsume
    <3>3. req'[r].pc = "verifyReset"
      BY <1>3, <1>a DEF VerifyConsume, Request
    <3> QED
      BY <3>1, <3>2, <3>3 DEF At
  <2> HIDE DEF u, code
  <2>8. StoredUnused'
    BY <1>b, <2>2, <2>4, <2>5, <2>6 DEF CodesInv, StoredUnused
  <2>9. DrawnUnused'
    BY <1>c, <2>2, <2>4, <2>6, <2>7 DEF CodesInv, DrawnUnused
  <2>10. DrawnOnce'
    BY <2>7 DEF CodesInv, DrawnOnce
  <2>11. UsedOwned'
    BY <2>1, <2>2, <2>5, <2>6, StorageConstants DEF CodesInv, UsedOwned
  <2> QED
    BY <2>8, <2>9, <2>10, <2>11 DEF CodesInv
<1>4. ASSUME uses' = uses,
             \A c \in Codes : owner'[c] = owner[c],
             \A u \in Users : acct'[u].codes \subseteq acct[u].codes,
             \A r \in Requests : At(r, "enableSet")' =>
                 At(r, "enableSet") /\ req'[r] = req[r]
      PROVE  CodesInv'
  <2>1. StoredUnused'
    BY <1>4, <1>b DEF CodesInv, StoredUnused
  <2>2. DrawnUnused'
    BY <1>4, <1>c DEF CodesInv, DrawnUnused
  <2>3. DrawnOnce'
    BY <1>4 DEF CodesInv, DrawnOnce
  <2>4. UsedOwned'
    BY <1>4 DEF CodesInv, UsedOwned
  <2> QED
    BY <2>1, <2>2, <2>3, <2>4 DEF CodesInv
<1>5. ASSUME NEW c \in cookies, NEW secret \in Secrets, Setup(c, secret)
      PROVE  \A x \in Codes : owner'[x] = owner[x]
  BY <1>5, <1>a, StorageConstants DEF Setup
<1>6. CASE UNCHANGED vars
  BY <1>4, <1>6 DEF vars, history, At
<1>7. CASE Next
  BY <1>1, <1>2, <1>3, <1>4, <1>5, <1>7, EnableSetFrame, CodesFrame, OwnerFrame, UsesFrame
<1> QED
  BY <1>6, <1>7

(* For any number of concurrent requests and enrolments, a backup code     *)
(* lets at most one request in.                                            *)
THEOREM CodesOnce == Spec => []BackupCodeOnce
<1>1. CodesInv => BackupCodeOnce
  BY DEF CodesInv, UsedOwned, BackupCodeOnce
<1> QED
  BY <1>1, InitTypeInv, StepTypeInv, InitCodesInv, StepCodesInv, PTL DEF Spec

----------------------------------------------------------------------------
(* The second factor.  While a user has been enrolled throughout, every    *)
(* login of it was read as enrolled, no enrolment of it is under way, the  *)
(* secret a verification compares with is the stored one, and a request    *)
(* past the check has presented a factor.  A request's session is one that *)
(* was signed, so it adds no login that was not there.                     *)
FactorOK(u, q, secret, seen) ==
    q.user = u =>
        /\ q.pc \in {"upgradeRead", "upgradeWrite", "loginIssue"} => Enrolled(q.snap)
        /\ q.pc # "enableSet"
        /\ q.pc \in {"verifyReserve", "verifyCheck"} => q.snap.secret = secret
        /\ q.pc = "verifyReset" => u \in seen

FactorInv ==
    /\ \A r \in Requests : req[r].cookie \in cookies
    /\ NoSession \in cookies
    /\ NoSessionWithoutSecondFactor
    /\ \A u \in Users \ everOff :
          Enrolled(acct[u]) /\ \A r \in Requests : FactorOK(u, req[r], acct[u].secret, proved)

LEMMA InitFactorInv == EnableTFA /\ Init => FactorInv
<1> SUFFICES ASSUME EnableTFA, Init PROVE FactorInv
  OBVIOUS
<1>1. cookies = {NoSession} /\ \A r \in Requests : req[r] = Idle
  BY DEF Init
<1>2. NoSession.uid = None /\ Idle.cookie = NoSession /\ Idle.user = None /\ Idle.pc = "idle"
  BY DEF NoSession, Idle
<1>3. NoSessionWithoutSecondFactor
  BY <1>1, <1>2, StorageConstants DEF NoSessionWithoutSecondFactor
<1>4. \A u \in Users \ everOff : Enrolled(acct[u])
  BY DEF Init
<1> QED
  BY <1>1, <1>2, <1>3, <1>4, StorageConstants DEF FactorInv, FactorOK

(* A request's session is one that was signed.                             *)
LEMMA SentCookies ==
    ASSUME TypeInv, Next, \A r \in Requests : req[r].cookie \in cookies, NoSession \in cookies
    PROVE  /\ \A r \in Requests : req'[r].cookie \in cookies'
           /\ NoSession \in cookies'
<1>1. cookies \subseteq cookies'
  BY CookieFrame DEF LoginIssueSession, LoginIssuePending, VerifyExhausted, VerifyWrong,
     VerifyConsumeLost, VerifyReset, EnableSet, VerifyExpired, Setup, RejectCode
<1>2. \A r \in Requests : req'[r].cookie \in cookies \cup {req[r].cookie, NoSession}
  <2>0. req \in [Requests -> Request]
    BY DEF TypeInv, TypeOK
  <2>1. ASSUME NEW r \in Requests, NEW q, req' = [req EXCEPT ![r] = q],
               q.cookie \in cookies \cup {req[r].cookie, NoSession}
        PROVE  \A s \in Requests : req'[s].cookie \in cookies \cup {req[s].cookie, NoSession}
    BY <2>0, <2>1
  <2>2. ASSUME NEW r \in Requests, Done(r)
        PROVE  \A s \in Requests : req'[s].cookie \in cookies \cup {req[s].cookie, NoSession}
    BY <2>1, <2>2 DEF Done, Idle
  <2>3. ASSUME NEW r \in Requests, NEW c \in cookies,
               \/ \E u \in Users, pw \in Passwords : LoginRead(r, u, pw, c)
               \/ VerifyBegin(r, c)
               \/ \E pw \in Passwords, drawn \in SUBSET Codes : EnableRead(r, c, pw, drawn)
        PROVE  \A s \in Requests : req'[s].cookie \in cookies \cup {req[s].cookie, NoSession}
    <3>1. ASSUME NEW u, NEW pw, LoginRead(r, u, pw, c)
          PROVE  \A s \in Requests : req'[s].cookie \in cookies \cup {req[s].cookie, NoSession}
      <4> DEFINE q == [Idle EXCEPT !.pc = IF NeedsUpgrade(pw, acct[u].hash)
                                          THEN "upgradeRead" ELSE "loginIssue",
                                   !.user = u, !.cookie = c, !.pw = pw, !.snap = acct[u]]
      <4>1. q.cookie = c
        BY DEF Idle
      <4> QED
        BY <2>1, <3>1, <4>1 DEF LoginRead
    <3>2. ASSUME VerifyBegin(r, c)
          PROVE  \A s \in Requests : req'[s].cookie \in cookies \cup {req[s].cookie, NoSession}
      <4> DEFINE q == [Idle EXCEPT !.pc = "verifyRead", !.user = c.pend, !.cookie = c]
      <4>1. q.cookie = c
        BY DEF Idle
      <4> QED
        BY <2>1, <3>2, <4>1 DEF VerifyBegin
    <3>3. ASSUME NEW pw, NEW drawn, EnableRead(r, c, pw, drawn)
          PROVE  \A s \in Requests : req'[s].cookie \in cookies \cup {req[s].cookie, NoSession}
      <4> DEFINE q == [Idle EXCEPT !.pc = "enableSet", !.user = c.uid, !.cookie = c,
                                   !.codes = drawn]
      <4>1. q.cookie = c
        BY DEF Idle
      <4> QED
        BY <2>1, <3>3, <4>1 DEF EnableRead
    <3> QED
      BY <2>3, <3>1, <3>2, <3>3
  <2>4. ASSUME NEW r \in Requests, NEW c \in cookies, NEW pw, DisableRead(r, c, pw)
        PROVE  \A s \in Requests : req'[s].cookie \in cookies \cup {req[s].cookie, NoSession}
    BY <2>0, <2>4 DEF DisableRead, Idle
  <2>5. ASSUME NEW r \in Requests,
               \/ UpgradeRead(r) \/ UpgradeWrite(r) \/ UpgradeFails(r) \/ VerifyReserve(r)
               \/ VerifyConsume(r)
        PROVE  \A s \in Requests : req'[s].cookie = req[s].cookie
    BY <2>0, <2>5 DEF UpgradeRead, UpgradeWrite, UpgradeFails, ContinueLogin, Goto,
       VerifyReserve, VerifyConsume, Request
  <2>6. ASSUME NEW r \in Requests, NEW x, VerifyTOTP(r, x) \/ VerifyBackupMatch(r, x)
        PROVE  \A s \in Requests : req'[s].cookie = req[s].cookie
    BY <2>0, <2>6 DEF VerifyTOTP, VerifyBackupMatch, Request
  <2>7. ASSUME NEW r \in Requests, VerifyRead(r)
        PROVE  \A s \in Requests : req'[s].cookie \in cookies \cup {req[s].cookie, NoSession}
    BY <2>0, <2>2, <2>7 DEF VerifyRead, Request
  <2>8. ASSUME NEW r \in Requests,
              \/ LoginIssueSession(r) \/ LoginIssuePending(r) \/ VerifyExhausted(r)
              \/ VerifyWrong(r) \/ VerifyConsumeLost(r) \/ VerifyReset(r)
              \/ (\E saved \in BOOLEAN : EnableSet(r, saved)) \/ DisableClear(r) \/ CallFails(r)
        PROVE  \A s \in Requests : req'[s].cookie \in cookies \cup {req[s].cookie, NoSession}
    BY <2>2, <2>8 DEF LoginIssueSession, LoginIssuePending, VerifyExhausted, VerifyWrong,
       VerifyConsumeLost, VerifyReset, EnableSet, DisableClear, CallFails, RejectCode
  <2>9. ASSUME \/ \E c \in cookies : VerifyExpired(c)
               \/ \E c \in cookies, secret \in Secrets : Setup(c, secret)
               \/ \E u \in Users, pw \in Passwords : ResetPassword(u, pw)
               \/ \E u \in Users : DeleteUser(u)
               \/ Tick
        PROVE  req' = req
    BY <2>9 DEF VerifyExpired, Setup, ResetPassword, DeleteUser, Tick
  <2> QED
    BY NextCases, <2>3, <2>4, <2>5, <2>6, <2>7, <2>8, <2>9
<1> QED
  BY <1>1, <1>2

(* No new login of a user enrolled throughout, without a factor presented. *)
LEMMA StepNoSession ==
    ASSUME EnableTFA, TypeInv, FactorInv, Next
    PROVE  \A c \in cookies' : c.uid \in Users \ everOff => c.uid \in proved
<1> USE DEF At
<1>a. ASSUME NEW c \in cookies PROVE c.uid \in Users \ everOff => c.uid \in proved
  BY <1>a DEF FactorInv, NoSessionWithoutSecondFactor
<1>b. ASSUME NEW r \in Requests
      PROVE  /\ req[r].cookie \in cookies /\ req[r].cookie \in Session
             /\ req[r].pc # "idle" => req[r].user \in Users
             /\ req[r].user \in Users \ everOff =>
                   FactorOK(req[r].user, req[r], acct[req[r].user].secret, proved)
  BY DEF FactorInv, TypeInv, TypeOK, Request, RequestOK
<1>c. \A c \in cookies : c \in Session
  BY DEF TypeInv, TypeOK
<1>d. ASSUME NEW c \in Session, NEW x
      PROVE  /\ EndPending(c).uid = c.uid
             /\ [c EXCEPT !.psec = x].uid = c.uid
             /\ \A u : LoginSession(c, u).uid = u
             /\ \A u, e : PendingSession(c, u, e).uid = None
  BY DEF Session, EndPending, LoginSession, PendingSession
<1>1. ASSUME NEW r \in Requests, LoginIssueSession(r)
      PROVE  \A c \in cookies' : c.uid \in Users \ everOff => c.uid \in proved
  <2>1. req[r].user \in everOff
    BY <1>1, <1>b DEF LoginIssueSession, Challenged, FactorOK
  <2>2. LoginSession(req[r].cookie, req[r].user).uid = req[r].user
    BY <1>b, <1>d
  <2> QED
    BY <1>1, <1>a, <2>1, <2>2 DEF LoginIssueSession
<1>2. ASSUME NEW r \in Requests, LoginIssuePending(r)
      PROVE  \A c \in cookies' : c.uid \in Users \ everOff => c.uid \in proved
  <2>1. PendingSession(req[r].cookie, req[r].user, now + PendingTTL).uid = None
    BY <1>b, <1>d
  <2> QED
    BY <1>2, <1>a, <2>1, StorageConstants DEF LoginIssuePending
<1>3. ASSUME NEW r \in Requests, VerifyExhausted(r) \/ VerifyWrong(r) \/ VerifyConsumeLost(r)
      PROVE  \A c \in cookies' : c.uid \in Users \ everOff => c.uid \in proved
  <2>1. EndPending(req[r].cookie).uid = req[r].cookie.uid
    BY <1>b, <1>d
  <2>2. cookies' \subseteq cookies \cup {EndPending(req[r].cookie)}
    BY <1>3 DEF VerifyExhausted, VerifyWrong, VerifyConsumeLost, RejectCode
  <2> QED
    BY <1>a, <1>b, <2>1, <2>2
<1>4. ASSUME NEW r \in Requests, VerifyReset(r)
      PROVE  \A c \in cookies' : c.uid \in Users \ everOff => c.uid \in proved
  <2> DEFINE ended == EndPending(req[r].cookie)
  <2>1. ended \in Session /\ ended.uid = req[r].cookie.uid
    BY <1>b, <1>d, SessionTypes
  <2>2. LoginSession(ended, req[r].user).uid = req[r].user
    BY <2>1, <1>d
  <2>3. req[r].user \in Users \ everOff => req[r].user \in proved
    BY <1>4, <1>b DEF VerifyReset, FactorOK
  <2>4. cookies' \subseteq cookies \cup {ended, LoginSession(ended, req[r].user)}
    BY <1>4 DEF VerifyReset
  <2> QED
    BY <1>a, <1>b, <2>1, <2>2, <2>3, <2>4
<1>5. ASSUME NEW r \in Requests, NEW saved \in BOOLEAN, EnableSet(r, saved)
      PROVE  \A c \in cookies' : c.uid \in Users \ everOff => c.uid \in proved
  <2>1. [req[r].cookie EXCEPT !.psec = None].uid = req[r].cookie.uid
    BY <1>b, <1>d
  <2>2. cookies' \subseteq cookies \cup {[req[r].cookie EXCEPT !.psec = None]}
    BY <1>5 DEF EnableSet
  <2> QED
    BY <1>a, <1>b, <2>1, <2>2
<1>6. ASSUME NEW c \in cookies, VerifyExpired(c)
      PROVE  \A d \in cookies' : d.uid \in Users \ everOff => d.uid \in proved
  <2>1. EndPending(c).uid = c.uid
    BY <1>c, <1>d
  <2> QED
    BY <1>6, <1>a, <2>1 DEF VerifyExpired
<1>7. ASSUME NEW c \in cookies, NEW secret \in Secrets, Setup(c, secret)
      PROVE  \A d \in cookies' : d.uid \in Users \ everOff => d.uid \in proved
  <2>1. [c EXCEPT !.psec = secret].uid = c.uid
    BY <1>c, <1>d
  <2> QED
    BY <1>7, <1>a, <2>1 DEF Setup
<1> QED
  BY CookieFrame, <1>a, <1>1, <1>2, <1>3, <1>4, <1>5, <1>6, <1>7

(* A user enrolled throughout keeps its secret.                            *)
LEMMA SecretFrame ==
    ASSUME TypeInv, FactorInv, Next, NEW u \in Users \ everOff'
    PROVE  acct'[u].secret = acct[u].secret /\ u \in Users \ everOff /\ proved \subseteq proved'
<1> USE DEF At
<1>0. acct \in [Users -> Account]
  BY DEF TypeInv, TypeOK
<1>1. u \in Users \ everOff
  BY EnrolmentFrame DEF DisableClear
<1>2. proved \subseteq proved'
  BY EnrolmentFrame DEF VerifyConsume, VerifyTOTP
<1>3. ASSUME NEW v, NEW b, acct' = [acct EXCEPT ![v] = b], v \in Users => b.secret = acct[v].secret
      PROVE  acct'[u].secret = acct[u].secret
  BY <1>0, <1>3
<1>4. ASSUME NEW r \in Requests, UpgradeWrite(r) PROVE acct'[u].secret = acct[u].secret
  <2> DEFINE up == [req[r].cur EXCEPT !.hash = Argon2id(req[r].pw)]
  <2>1. req[r].user \in Users
    BY <1>4 DEF UpgradeWrite, TypeInv, RequestOK
  <2>2. acct' = [acct EXCEPT ![req[r].user] = UpdateUser(acct[req[r].user], up)]
    BY <1>0, <1>4, <2>1 DEF UpgradeWrite
  <2>3. UpdateUser(acct[req[r].user], up).secret = acct[req[r].user].secret
    BY <1>0, <2>1 DEF UpdateUser, Account
  <2> QED
    BY <1>3, <2>2, <2>3
<1>5. ASSUME NEW v \in Users, NEW pw \in Passwords, ResetPassword(v, pw)
      PROVE  acct'[u].secret = acct[u].secret
  <2> DEFINE up == [acct[v] EXCEPT !.hash = Argon2id(pw)]
  <2>1. acct' = [acct EXCEPT ![v] = UpdateUser(acct[v], up)]
    BY <1>0, <1>5 DEF ResetPassword
  <2>2. UpdateUser(acct[v], up).secret = acct[v].secret
    BY <1>0 DEF UpdateUser, Account
  <2> QED
    BY <1>3, <2>1, <2>2
<1>6. ASSUME NEW r \in Requests,
             LoginIssuePending(r) \/ VerifyReset(r) \/ VerifyReserve(r) \/ VerifyConsume(r)
      PROVE  acct'[u].secret = acct[u].secret
  <2> DEFINE v == req[r].user
  <2>1. v \in Users
    BY <1>6 DEF LoginIssuePending, VerifyReset, VerifyReserve, VerifyConsume, TypeInv, RequestOK
  <2>2. \/ acct' = [acct EXCEPT ![v] = ResetTOTPAttempts(acct[v])]
        \/ acct' = [acct EXCEPT ![v] = ConsumeTOTPAttempt(acct[v])]
        \/ acct' = [acct EXCEPT ![v] = ConsumeBackupCode(acct[v], req[r].code)]
    BY <1>0, <1>6, <2>1 DEF LoginIssuePending, VerifyReset, VerifyReserve, VerifyConsume
  <2>3. /\ ResetTOTPAttempts(acct[v]).secret = acct[v].secret
        /\ ConsumeTOTPAttempt(acct[v]).secret = acct[v].secret
        /\ ConsumeBackupCode(acct[v], req[r].code).secret = acct[v].secret
    BY <1>0, <2>1 DEF ResetTOTPAttempts, ConsumeTOTPAttempt, ConsumeBackupCode, Account
  <2> QED
    BY <1>3, <2>2, <2>3
<1>7. ASSUME NEW r \in Requests, DisableClear(r) PROVE acct'[u].secret = acct[u].secret
  <2>1. req[r].user # u
    BY <1>7 DEF DisableClear
  <2> QED
    BY <1>0, <1>7, <2>1 DEF DisableClear
<1>8. ASSUME NEW r \in Requests, NEW saved \in BOOLEAN, EnableSet(r, saved)
      PROVE  acct'[u].secret = acct[u].secret
  <2>1. req[r].user # u
    BY <1>1, <1>8 DEF EnableSet, FactorInv, FactorOK
  <2> QED
    BY <1>0, <1>8, <2>1 DEF EnableSet
<1> QED
  BY AcctFrame, <1>1, <1>2, <1>4, <1>5, <1>6, <1>7, <1>8

LEMMA StepFactorOK ==
    ASSUME EnableTFA, TypeInv, FactorInv, Next, NEW u \in Users \ everOff', NEW s \in Requests
    PROVE  FactorOK(u, req'[s], acct'[u].secret, proved')
<1> DEFINE Good(q) == FactorOK(u, q, acct'[u].secret, proved')
<1> USE DEF At
<1>a. /\ acct'[u].secret = acct[u].secret
      /\ u \in Users \ everOff
      /\ proved \subseteq proved'
      /\ Enrolled(acct[u])
      /\ u # None
  BY SecretFrame, StorageConstants DEF FactorInv
<1>b. ASSUME NEW r \in Requests
      PROVE  Good(req[r]) /\ FactorOK(u, req[r], acct[u].secret, proved)
  BY <1>a DEF FactorInv, FactorOK
<1>c. req \in [Requests -> Request]
  BY DEF TypeInv, TypeOK
<1>d. ASSUME NEW r \in Requests, NEW q, req' = [req EXCEPT ![r] = q], Good(q)
      PROVE  Good(req'[s])
  BY <1>b, <1>c, <1>d
<1>e. ASSUME NEW r \in Requests, Done(r) PROVE Good(req'[s])
  <2>1. Good(Idle)
    BY <1>a DEF Idle, FactorOK
  <2> QED
    BY <1>d, <1>e, <2>1 DEF Done
<1>1. ASSUME NEW r \in Requests, NEW c, NEW v, NEW pw, LoginRead(r, v, pw, c) PROVE Good(req'[s])
  <2> DEFINE q == [Idle EXCEPT !.pc = IF NeedsUpgrade(pw, acct[v].hash)
                                      THEN "upgradeRead" ELSE "loginIssue",
                               !.user = v, !.cookie = c, !.pw = pw, !.snap = acct[v]]
  <2>1. q.user = v /\ q.snap = acct[v] /\ q.pc \in {"upgradeRead", "loginIssue"}
    BY DEF Idle
  <2>2. Good(q)
    BY <1>a, <2>1 DEF FactorOK
  <2> QED
    BY <1>d, <1>1, <2>2 DEF LoginRead
<1>2. ASSUME NEW r \in Requests, NEW c, VerifyBegin(r, c) PROVE Good(req'[s])
  <2> DEFINE q == [Idle EXCEPT !.pc = "verifyRead", !.user = c.pend, !.cookie = c]
  <2>1. q.pc = "verifyRead"
    BY DEF Idle
  <2>2. Good(q)
    BY <2>1 DEF FactorOK
  <2> QED
    BY <1>d, <1>2, <2>2 DEF VerifyBegin
<1>3. ASSUME NEW r \in Requests, NEW c, NEW pw, NEW drawn, EnableRead(r, c, pw, drawn)
      PROVE  Good(req'[s])
  <2> DEFINE q == [Idle EXCEPT !.pc = "enableSet", !.user = c.uid, !.cookie = c,
                               !.codes = drawn]
  <2>1. q.user = c.uid
    BY DEF Idle
  <2>2. c.uid # u
    BY <1>a, <1>3 DEF EnableRead, NotYetEnrolled
  <2>3. Good(q)
    BY <2>1, <2>2 DEF FactorOK
  <2> QED
    BY <1>d, <1>3, <2>3 DEF EnableRead
<1>4. ASSUME NEW r \in Requests, NEW c, NEW pw, DisableRead(r, c, pw) PROVE Good(req'[s])
  <2> DEFINE q == [Idle EXCEPT !.pc = "disableClear", !.user = c.uid]
  <2>1. q.pc = "disableClear"
    BY DEF Idle
  <2>2. Good(q)
    BY <2>1 DEF FactorOK
  <2> QED
    BY <1>d, <1>4, <2>2 DEF DisableRead
<1>5. ASSUME NEW r \in Requests, UpgradeRead(r) PROVE Good(req'[s])
  <2> DEFINE q == [req[r] EXCEPT !.pc = "upgradeWrite", !.cur = acct[req[r].user]]
  <2> DEFINE p == [req[r] EXCEPT !.pc = "loginIssue"]
  <2>1. req' = [req EXCEPT ![r] = q] \/ req' = [req EXCEPT ![r] = p]
    BY <1>5, <1>c DEF UpgradeRead, Goto
  <2>2. /\ q.user = req[r].user /\ q.snap = req[r].snap /\ q.pc = "upgradeWrite"
        /\ p.user = req[r].user /\ p.snap = req[r].snap /\ p.pc = "loginIssue"
        /\ req[r].pc = "upgradeRead"
    BY <1>5, <1>c DEF UpgradeRead, Request
  <2>3. Good(q) /\ Good(p)
    BY <1>b, <2>2 DEF FactorOK
  <2> QED
    BY <1>d, <2>1, <2>3
<1>6. ASSUME NEW r \in Requests, UpgradeWrite(r) \/ UpgradeFails(r) PROVE Good(req'[s])
  <2> DEFINE q == [req[r] EXCEPT !.pc = "loginIssue", !.cur = None]
  <2>1. req' = [req EXCEPT ![r] = q]
    BY <1>6, <1>c DEF UpgradeWrite, UpgradeFails, ContinueLogin
  <2>2. /\ q.user = req[r].user /\ q.snap = req[r].snap /\ q.pc = "loginIssue"
        /\ req[r].pc \in {"upgradeRead", "upgradeWrite"}
    BY <1>6, <1>c DEF UpgradeWrite, UpgradeFails, Request
  <2>3. Good(q)
    BY <1>b, <2>2 DEF FactorOK
  <2> QED
    BY <1>d, <2>1, <2>3
<1>7. ASSUME NEW r \in Requests, VerifyRead(r) PROVE Good(req'[s])
  <2> DEFINE q == [req[r] EXCEPT
                     !.pc = IF MaxVerifyAttempts > 0 THEN "verifyReserve" ELSE "verifyCheck",
                     !.snap = acct[req[r].user]]
  <2>1. req' = [req EXCEPT ![r] = q] \/ Done(r)
    BY <1>7, <1>c DEF VerifyRead
  <2>2. /\ q.user = req[r].user /\ q.snap = acct[req[r].user]
        /\ q.pc \in {"verifyReserve", "verifyCheck"}
    BY <1>c DEF Request
  <2>3. Good(q)
    BY <1>a, <2>2 DEF FactorOK
  <2> QED
    BY <1>d, <1>e, <2>1, <2>3
<1>8. ASSUME NEW r \in Requests, VerifyReserve(r) PROVE Good(req'[s])
  <2> DEFINE l == AttemptsRemaining(acct'[req[r].user], MaxVerifyAttempts) = 0
  <2> DEFINE q == [req[r] EXCEPT !.pc = "verifyCheck", !.last = l]
  <2>1. req' = [req EXCEPT ![r] = q]
    BY <1>8, <1>c DEF VerifyReserve
  <2> HIDE DEF l
  <2>2. /\ q.user = req[r].user /\ q.snap = req[r].snap /\ q.pc = "verifyCheck"
        /\ req[r].pc = "verifyReserve"
    BY <1>8, <1>c DEF VerifyReserve, Request
  <2>3. Good(q)
    BY <1>a, <1>b, <2>2 DEF FactorOK
  <2> QED
    BY <1>d, <2>1, <2>3
<1>9. ASSUME NEW r \in Requests, NEW secret, VerifyTOTP(r, secret) PROVE Good(req'[s])
  <2> DEFINE q == [req[r] EXCEPT !.pc = "verifyReset", !.snap = None, !.last = FALSE]
  <2>1. req' = [req EXCEPT ![r] = q]
    BY <1>9, <1>c DEF VerifyTOTP
  <2>2. q.user = req[r].user /\ q.pc = "verifyReset"
    BY <1>c DEF Request
  <2>3. req[r].user = u => u \in proved'
    BY <1>9, <1>a, <1>b DEF VerifyTOTP, FactorOK
  <2>4. Good(q)
    BY <2>2, <2>3 DEF FactorOK
  <2> QED
    BY <1>d, <2>1, <2>4
<1>10. ASSUME NEW r \in Requests, NEW code, VerifyBackupMatch(r, code) PROVE Good(req'[s])
  <2> DEFINE q == [req[r] EXCEPT !.pc = "verifyConsume", !.snap = None, !.code = code]
  <2>1. req' = [req EXCEPT ![r] = q]
    BY <1>10, <1>c DEF VerifyBackupMatch
  <2>2. q.pc = "verifyConsume"
    BY <1>c DEF Request
  <2>3. Good(q)
    BY <2>2 DEF FactorOK
  <2> QED
    BY <1>d, <2>1, <2>3
<1>11. ASSUME NEW r \in Requests, VerifyConsume(r) PROVE Good(req'[s])
  <2> DEFINE q == [req[r] EXCEPT !.pc = "verifyReset", !.code = None, !.last = FALSE]
  <2>1. req' = [req EXCEPT ![r] = q]
    BY <1>11, <1>c DEF VerifyConsume
  <2>2. q.user = req[r].user /\ q.pc = "verifyReset"
    BY <1>c DEF Request
  <2>3. req[r].user \in proved'
    BY <1>11 DEF VerifyConsume
  <2>4. Good(q)
    BY <2>2, <2>3 DEF FactorOK
  <2> QED
    BY <1>d, <2>1, <2>4
<1>12. ASSUME NEW r \in Requests,
              \/ LoginIssueSession(r) \/ LoginIssuePending(r) \/ VerifyExhausted(r)
              \/ VerifyWrong(r) \/ VerifyConsumeLost(r) \/ VerifyReset(r)
              \/ (\E saved \in BOOLEAN : EnableSet(r, saved)) \/ DisableClear(r) \/ CallFails(r)
       PROVE  Good(req'[s])
  BY <1>e, <1>12 DEF LoginIssueSession, LoginIssuePending, VerifyExhausted, VerifyWrong,
     VerifyConsumeLost, VerifyReset, EnableSet, DisableClear, CallFails, RejectCode
<1>13. ASSUME \/ \E c \in cookies : VerifyExpired(c)
              \/ \E c \in cookies, secret \in Secrets : Setup(c, secret)
              \/ \E v \in Users, pw \in Passwords : ResetPassword(v, pw)
              \/ \E v \in Users : DeleteUser(v)
              \/ Tick
       PROVE  Good(req'[s])
  <2>1. req' = req
    BY <1>13 DEF VerifyExpired, Setup, ResetPassword, DeleteUser, Tick
  <2> QED
    BY <1>b, <2>1
<1> HIDE DEF Good
<1>14. Good(req'[s])
  BY NextCases, <1>1, <1>2, <1>3, <1>4, <1>5, <1>6, <1>7, <1>8, <1>9, <1>10, <1>11, <1>12, <1>13
<1> QED
  BY <1>14 DEF Good

LEMMA StepFactorInv == EnableTFA /\ TypeInv /\ FactorInv /\ [Next]_vars => FactorInv'
<1>1. CASE EnableTFA /\ TypeInv /\ FactorInv /\ Next
  <2>1. /\ \A r \in Requests : req'[r].cookie \in cookies'
        /\ NoSession \in cookies'
    BY <1>1, SentCookies DEF FactorInv
  <2>2. everOff \subseteq everOff' /\ proved \subseteq proved'
    BY <1>1, EnrolmentFrame DEF DisableClear, VerifyConsume, VerifyTOTP
  <2>3. NoSessionWithoutSecondFactor'
    BY <1>1, <2>2, StepNoSession DEF NoSessionWithoutSecondFactor
  <2>4. ASSUME NEW u \in Users \ everOff'
        PROVE  /\ Enrolled(acct'[u])
               /\ \A r \in Requests : FactorOK(u, req'[r], acct'[u].secret, proved')
    <3>1. Enrolled(acct'[u])
      BY <1>1, SecretFrame DEF FactorInv, Enrolled
    <3> QED
      BY <1>1, <3>1, StepFactorOK
  <2> QED
    BY <2>1, <2>3, <2>4 DEF FactorInv
<1>2. CASE FactorInv /\ UNCHANGED vars
  BY <1>2 DEF FactorInv, NoSessionWithoutSecondFactor, vars, history
<1> QED
  BY <1>1, <1>2

(* For any users, requests and interleaving: with TFA enabled, a user that *)
(* was enrolled throughout is logged in only after a factor was presented. *)
THEOREM SecondFactor == Spec => []NoSessionWithoutSecondFactor
<1>1. CASE EnableTFA
  <2>1. EnableTFA /\ Init => FactorInv
    BY InitFactorInv
  <2>2. EnableTFA /\ TypeInv /\ FactorInv /\ [Next]_vars => FactorInv'
    BY StepFactorInv
  <2>3. FactorInv => NoSessionWithoutSecondFactor
    BY DEF FactorInv
  <2> QED
    BY <1>1, <2>1, <2>2, <2>3, InitTypeInv, StepTypeInv, PTL DEF Spec
<1>2. CASE ~EnableTFA
  <2>1. NoSessionWithoutSecondFactor
    BY <1>2 DEF NoSessionWithoutSecondFactor
  <2> QED
    BY <2>1, PTL
<1> QED
  BY <1>1, <1>2

----------------------------------------------------------------------------
(* AuthServer implements TwoFactor.  The frames first: which actions can   *)
(* change each part of the abstract state.                                 *)
secretOf == [u \in Users |-> acct[u].secret]
unspentOf == [u \in Users |-> acct[u].codes]
spentOf == {c \in Codes : uses[c] > 0}
clearedOf == [r \in Requests |-> IF At(r, "verifyReset") THEN req[r].user ELSE None]
sessionsOf == {c.uid : c \in cookies} \ {None}

LEMMA SameCleared ==
    ASSUME TypeInv, NEW r \in Requests, NEW q, q.pc # "verifyReset",
           req[r].pc # "verifyReset", req' = [req EXCEPT ![r] = q]
    PROVE  clearedOf' = clearedOf
<1>1. req \in [Requests -> Request]
  BY DEF TypeInv, TypeOK
<1> QED
  BY <1>1 DEF At, clearedOf

LEMMA DoneCleared ==
    ASSUME TypeInv, NEW r \in Requests, req[r].pc # "verifyReset", Done(r)
    PROVE  clearedOf' = clearedOf
<1>1. Idle.pc # "verifyReset"
  BY DEF Idle
<1> QED
  BY <1>1, SameCleared DEF Done

LEMMA SameSessions ==
    ASSUME NEW old \in cookies, NEW c, c.uid \in {old.uid, None},
           cookies' \in {cookies, cookies \cup {c}}
    PROVE  sessionsOf' = sessionsOf
  BY DEF sessionsOf

LEMMA ClearedFrame ==
    ASSUME TypeInv, Next
    PROVE  \/ clearedOf' = clearedOf
           \/ \E r \in Requests : VerifyConsume(r) \/ VerifyReset(r)
           \/ \E r \in Requests, secret \in Secrets : VerifyTOTP(r, secret)
           \/ \E r \in Requests : CallFails(r) /\ At(r, "verifyReset")
<1> DEFINE Same == clearedOf' = clearedOf
<1>0. req \in [Requests -> Request]
  BY DEF TypeInv, TypeOK
<1>3. ASSUME UNCHANGED req PROVE Same
  BY <1>3 DEF At, clearedOf
<1>4. ASSUME NEW r \in Requests, NEW c, NEW u, NEW pw, LoginRead(r, u, pw, c) PROVE Same
  <2> DEFINE q == [Idle EXCEPT !.pc = IF NeedsUpgrade(pw, acct[u].hash)
                                      THEN "upgradeRead" ELSE "loginIssue",
                               !.user = u, !.cookie = c, !.pw = pw, !.snap = acct[u]]
  <2>1. q.pc # "verifyReset"
    BY DEF Idle
  <2> QED
    BY SameCleared, <1>4, <2>1 DEF LoginRead, At
<1>5. ASSUME NEW r \in Requests, NEW c, VerifyBegin(r, c) PROVE Same
  <2> DEFINE q == [Idle EXCEPT !.pc = "verifyRead", !.user = c.pend, !.cookie = c]
  <2>1. q.pc # "verifyReset"
    BY DEF Idle
  <2> QED
    BY SameCleared, <1>5, <2>1 DEF VerifyBegin, At
<1>6. ASSUME NEW r \in Requests, NEW c, NEW pw, NEW drawn, EnableRead(r, c, pw, drawn)
      PROVE  Same
  <2> DEFINE q == [Idle EXCEPT !.pc = "enableSet", !.user = c.uid, !.cookie = c,
                               !.codes = drawn]
  <2>1. q.pc # "verifyReset"
    BY DEF Idle
  <2> QED
    BY SameCleared, <1>6, <2>1 DEF EnableRead, At
<1>7. ASSUME NEW r \in Requests, NEW c, NEW pw, DisableRead(r, c, pw) PROVE Same
  <2> DEFINE q == [Idle EXCEPT !.pc = "disableClear", !.user = c.uid]
  <2>1. q.pc # "verifyReset"
    BY DEF Idle
  <2> QED
    BY SameCleared, <1>7, <2>1 DEF DisableRead, At
<1>8. ASSUME NEW r \in Requests,
             UpgradeRead(r) \/ UpgradeWrite(r) \/ UpgradeFails(r) \/ VerifyReserve(r)
      PROVE  Same
  BY <1>0, <1>8 DEF UpgradeRead, UpgradeWrite, UpgradeFails, ContinueLogin, Goto,
     VerifyReserve, At, Request, clearedOf
<1>9. ASSUME NEW r \in Requests, VerifyRead(r) PROVE Same
  BY <1>0, DoneCleared, <1>9 DEF VerifyRead, At, Request, clearedOf
<1>10. ASSUME NEW r \in Requests, NEW code, VerifyBackupMatch(r, code) PROVE Same
  BY <1>0, <1>10 DEF VerifyBackupMatch, At, Request, clearedOf
<1>11. ASSUME NEW r \in Requests,
              \/ LoginIssueSession(r) \/ LoginIssuePending(r) \/ VerifyExhausted(r)
              \/ VerifyWrong(r) \/ VerifyConsumeLost(r)
              \/ (\E saved \in BOOLEAN : EnableSet(r, saved)) \/ DisableClear(r)
              \/ CallFails(r) /\ ~At(r, "verifyReset")
       PROVE  Same
  BY DoneCleared, <1>11 DEF LoginIssueSession, LoginIssuePending, VerifyExhausted, VerifyWrong,
     VerifyConsumeLost, EnableSet, DisableClear, CallFails, RejectCode, At
<1>12. ASSUME \/ \E c \in cookies : VerifyExpired(c)
              \/ \E c \in cookies, secret \in Secrets : Setup(c, secret)
              \/ \E u \in Users, pw \in Passwords : ResetPassword(u, pw)
              \/ \E u \in Users : DeleteUser(u)
              \/ Tick
       PROVE  Same
  BY <1>3, <1>12 DEF VerifyExpired, Setup, ResetPassword, DeleteUser, Tick
<1> QED
  BY NextCases, <1>4, <1>5, <1>6, <1>7, <1>8, <1>9, <1>10, <1>11, <1>12

LEMMA SecurityFrame ==
    ASSUME TypeInv, Next
    PROVE  \/ secretOf' = secretOf /\ unspentOf' = unspentOf
           \/ \E r \in Requests : VerifyConsume(r) \/ DisableClear(r)
           \/ \E r \in Requests, saved \in BOOLEAN : EnableSet(r, saved)
<1> DEFINE Same == secretOf' = secretOf /\ unspentOf' = unspentOf
<1> USE DEF At
<1>0. acct \in [Users -> Account]
  BY DEF TypeInv, TypeOK
<1>1. ASSUME NEW v \in Users, NEW b, acct' = [acct EXCEPT ![v] = b],
             b.secret = acct[v].secret, b.codes = acct[v].codes
      PROVE  Same
  BY <1>0, <1>1 DEF secretOf, unspentOf
<1>2. ASSUME acct' = acct PROVE Same
  BY <1>2 DEF secretOf, unspentOf
<1>3. ASSUME NEW r \in Requests, UpgradeWrite(r) PROVE Same
  <2> DEFINE up == [req[r].cur EXCEPT !.hash = Argon2id(req[r].pw)]
             b == UpdateUser(acct[req[r].user], up)
  <2>1. req[r].user \in Users
    BY <1>3 DEF UpgradeWrite, TypeInv, RequestOK
  <2>2. acct' = [acct EXCEPT ![req[r].user] = b]
    BY <1>0, <1>3, <2>1 DEF UpgradeWrite
  <2>3. b.secret = acct[req[r].user].secret /\ b.codes = acct[req[r].user].codes
    BY <1>0, <2>1 DEF UpdateUser, Account
  <2> HIDE DEF b
  <2> QED
    BY <1>1, <2>1, <2>2, <2>3
<1>4. ASSUME NEW u \in Users, NEW pw \in Passwords, ResetPassword(u, pw) PROVE Same
  <2> DEFINE b == UpdateUser(acct[u], [acct[u] EXCEPT !.hash = Argon2id(pw)])
  <2>1. acct' = [acct EXCEPT ![u] = b]
    BY <1>0, <1>4 DEF ResetPassword
  <2>2. b.secret = acct[u].secret /\ b.codes = acct[u].codes
    BY <1>0 DEF UpdateUser, Account
  <2> HIDE DEF b
  <2> QED
    BY <1>1, <2>1, <2>2
<1>5. ASSUME NEW r \in Requests, LoginIssuePending(r) \/ VerifyReset(r) \/ VerifyReserve(r)
      PROVE  Same
  <2> DEFINE u == req[r].user
  <2>1. u \in Users
    BY <1>5 DEF LoginIssuePending, VerifyReset, VerifyReserve, TypeInv, RequestOK
  <2>2. \/ acct' = [acct EXCEPT ![u] = ResetTOTPAttempts(acct[u])]
        \/ acct' = [acct EXCEPT ![u] = ConsumeTOTPAttempt(acct[u])]
    BY <1>0, <1>5, <2>1 DEF LoginIssuePending, VerifyReset, VerifyReserve
  <2>3. /\ ResetTOTPAttempts(acct[u]).secret = acct[u].secret
        /\ ResetTOTPAttempts(acct[u]).codes = acct[u].codes
        /\ ConsumeTOTPAttempt(acct[u]).secret = acct[u].secret
        /\ ConsumeTOTPAttempt(acct[u]).codes = acct[u].codes
    BY <1>0, <2>1 DEF ResetTOTPAttempts, ConsumeTOTPAttempt, Account
  <2> QED
    BY <1>1, <2>1, <2>2, <2>3
<1> QED
  BY AcctFrame, <1>2, <1>3, <1>4, <1>5

LEMMA SessionsFrame ==
    ASSUME TypeInv, FactorInv, Next
    PROVE  \/ sessionsOf' = sessionsOf
           \/ \E r \in Requests : LoginIssueSession(r) \/ VerifyReset(r)
<1> DEFINE Same == sessionsOf' = sessionsOf
<1>2. ASSUME cookies' = cookies PROVE Same
  BY <1>2 DEF sessionsOf
<1>3. ASSUME NEW r \in Requests
      PROVE  req[r].cookie \in cookies /\ req[r].cookie \in Session
  BY DEF FactorInv, TypeInv, TypeOK, Request
<1>4. ASSUME NEW c \in Session, NEW u, NEW e, NEW x
      PROVE  /\ EndPending(c).uid = c.uid
             /\ [c EXCEPT !.psec = x].uid = c.uid
             /\ PendingSession(c, u, e).uid = None
  BY DEF EndPending, PendingSession, Session
<1>5. ASSUME NEW r \in Requests, LoginIssuePending(r) PROVE Same
  <2> DEFINE c == PendingSession(req[r].cookie, req[r].user, now + PendingTTL)
  <2>1. cookies' \in {cookies, cookies \cup {c}}
    <3>1. PICK signed \in SUBSET {c} : cookies' = cookies \cup signed
      BY <1>5 DEF LoginIssuePending
    <3>2. signed = {} \/ signed = {c}
      OBVIOUS
    <3> QED
      BY <3>1, <3>2
  <2>2. c.uid = None
    BY <1>3, <1>4
  <2> HIDE DEF c
  <2> QED
    BY SameSessions, <1>3, <2>1, <2>2
<1>6. ASSUME NEW r \in Requests, VerifyExhausted(r) \/ VerifyWrong(r) \/ VerifyConsumeLost(r)
      PROVE  Same
  <2> DEFINE c == EndPending(req[r].cookie)
  <2>1. cookies' \in {cookies, cookies \cup {c}}
    BY <1>6 DEF VerifyExhausted, VerifyWrong, VerifyConsumeLost, RejectCode
  <2>2. c.uid = req[r].cookie.uid
    BY <1>3, <1>4
  <2> HIDE DEF c
  <2> QED
    BY SameSessions, <1>3, <2>1, <2>2
<1>7. ASSUME NEW r \in Requests, NEW saved \in BOOLEAN, EnableSet(r, saved) PROVE Same
  <2> DEFINE c == [req[r].cookie EXCEPT !.psec = None]
  <2>1. cookies' \in {cookies, cookies \cup {c}}
    BY <1>7 DEF EnableSet
  <2>2. c.uid = req[r].cookie.uid
    BY <1>3, <1>4
  <2> HIDE DEF c
  <2> QED
    BY SameSessions, <1>3, <2>1, <2>2
<1>8. ASSUME NEW c \in cookies, VerifyExpired(c) \/ \E x \in Secrets : Setup(c, x) PROVE Same
  <2>1. c \in Session
    BY DEF TypeInv, TypeOK
  <2>2. CASE VerifyExpired(c)
    BY SameSessions, <1>4, <2>1, <2>2 DEF VerifyExpired
  <2>3. ASSUME NEW x \in Secrets, Setup(c, x) PROVE Same
    <3> DEFINE d == [c EXCEPT !.psec = x]
    <3>1. cookies' = cookies \cup {d} /\ d.uid = c.uid
      BY <1>4, <2>1, <2>3 DEF Setup
    <3> HIDE DEF d
    <3> QED
      BY SameSessions, <3>1
  <2> QED
    BY <1>8, <2>2, <2>3
<1> QED
  BY CookieFrame, <1>2, <1>5, <1>6, <1>7, <1>8

LEMMA InitTwoFactor == Init => Factor!Init
<1> SUFFICES ASSUME Init PROVE Factor!Init
  OBVIOUS
<1>1. /\ acct \in [Users -> Account]
      /\ \A u, v \in Users : u # v => acct[u].codes \cap acct[v].codes = {}
  BY InitialTablesAssumption DEF Init
<1>2. secretOf \in [Users -> Secrets \cup {None}]
  BY <1>1 DEF secretOf, Account
<1>3. /\ unspentOf \in [Users -> SUBSET Codes]
      /\ \A u, v \in Users : u # v => unspentOf[u] \cap unspentOf[v] = {}
  BY <1>1 DEF unspentOf, Account
<1>4. spentOf = {}
  BY DEF Init, spentOf
<1>5. clearedOf = [r \in Requests |-> None]
  BY DEF Init, clearedOf, At, Idle
<1>6. everOff = {u \in Users : secretOf[u] = None}
  BY DEF Init, secretOf, Enrolled
<1>7. sessionsOf = {}
  BY DEF Init, sessionsOf, NoSession
<1> QED
  BY <1>2, <1>3, <1>4, <1>5, <1>6, <1>7
  DEF Factor!Init, secretOf, unspentOf, spentOf, clearedOf, sessionsOf

(* A step that changes the abstract state maps to a step of TwoFactor.     *)
LEMMA MapTOTP ==
    ASSUME TypeInv, FactorInv, NEW r \in Requests, NEW x \in Secrets, VerifyTOTP(r, x)
    PROVE  Factor!Next
<1> DEFINE u == req[r].user
<1>0. req \in [Requests -> Request]
  BY DEF TypeInv, TypeOK
<1>1. u \in Users
  BY DEF VerifyTOTP, At, TypeInv, RequestOK
<1>2. secretOf[u] # None \/ u \in everOff
  BY <1>1 DEF FactorInv, Enrolled, secretOf
<1>3. clearedOf[r] = None /\ clearedOf' = [clearedOf EXCEPT ![r] = u]
  BY <1>0 DEF VerifyTOTP, At, Request, clearedOf
<1>4. UNCHANGED <<secretOf, unspentOf, spentOf, everOff, sessionsOf>>
  BY DEF VerifyTOTP, secretOf, unspentOf, spentOf, sessionsOf
<1>5. Factor!Show(r, u)
  BY <1>2, <1>3, <1>4
  DEF Factor!Show, secretOf, unspentOf, spentOf, clearedOf, sessionsOf
<1> QED
  BY <1>1, <1>5 DEF Factor!Next, Factor!Show

LEMMA MapConsume ==
    ASSUME TypeInv, CodesInv, NEW r \in Requests, VerifyConsume(r)
    PROVE  Factor!Next
<1> DEFINE u == req[r].user
           code == req[r].code
<1>0. /\ req \in [Requests -> Request]
      /\ acct \in [Users -> Account]
      /\ uses \in [Codes -> Nat]
  BY DEF TypeInv, TypeOK
<1>1. u \in Users /\ code \in Codes
  BY DEF VerifyConsume, At, TypeInv, RequestOK
<1>2. code \in unspentOf[u] \ spentOf
  BY <1>1 DEF VerifyConsume, CodesInv, StoredUnused, unspentOf, spentOf
<1>3. /\ secretOf' = secretOf
      /\ unspentOf' = [unspentOf EXCEPT ![u] = @ \ {code}]
  <2>1. acct' = [acct EXCEPT ![u] = ConsumeBackupCode(acct[u], code)]
    BY <1>0, <1>1 DEF VerifyConsume
  <2>2. /\ ConsumeBackupCode(acct[u], code).secret = acct[u].secret
        /\ ConsumeBackupCode(acct[u], code).codes = acct[u].codes \ {code}
    BY <1>0, <1>1 DEF ConsumeBackupCode, Account
  <2> QED
    BY <1>0, <1>1, <2>1, <2>2 DEF secretOf, unspentOf
<1>4. spentOf' = spentOf \cup {code}
  <2>1. uses' = [uses EXCEPT ![code] = @ + 1]
    BY DEF VerifyConsume
  <2> QED
    BY <1>0, <1>1, <2>1 DEF spentOf
<1>5. clearedOf[r] = None /\ clearedOf' = [clearedOf EXCEPT ![r] = u]
  BY <1>0 DEF VerifyConsume, At, Request, clearedOf
<1>6. UNCHANGED <<everOff, sessionsOf>>
  BY DEF VerifyConsume, sessionsOf
<1>7. Factor!Spend(r, u, code)
  BY <1>2, <1>3, <1>4, <1>5, <1>6
  DEF Factor!Spend, secretOf, unspentOf, spentOf, clearedOf, sessionsOf
<1> QED
  BY <1>1, <1>7 DEF Factor!Next, Factor!Spend

LEMMA MapFinish ==
    ASSUME TypeInv, FactorInv, NEW r \in Requests,
           VerifyReset(r) \/ (CallFails(r) /\ At(r, "verifyReset"))
    PROVE  Factor!Next
<1> DEFINE u == req[r].user
<1>0. /\ req \in [Requests -> Request]
      /\ acct \in [Users -> Account]
      /\ req[r].cookie \in cookies /\ req[r].cookie \in Session
  BY DEF TypeInv, TypeOK, FactorInv, Request
<1>1. u \in Users /\ u # None /\ req[r].pc = "verifyReset"
  BY StorageConstants DEF VerifyReset, At, TypeInv, RequestOK
<1>2. clearedOf[r] = u /\ clearedOf' = [clearedOf EXCEPT ![r] = None]
  <2>1. req' = [req EXCEPT ![r] = Idle] /\ Idle.pc # "verifyReset"
    BY DEF VerifyReset, CallFails, Done, Idle
  <2> QED
    BY <1>0, <1>1, <2>1 DEF At, clearedOf
<1>3. secretOf' = secretOf /\ unspentOf' = unspentOf
  <2>1. CASE VerifyReset(r)
    <3>1. acct' = [acct EXCEPT ![u] = ResetTOTPAttempts(acct[u])]
      BY <1>0, <1>1, <2>1 DEF VerifyReset
    <3>2. /\ ResetTOTPAttempts(acct[u]).secret = acct[u].secret
          /\ ResetTOTPAttempts(acct[u]).codes = acct[u].codes
      BY <1>0, <1>1 DEF ResetTOTPAttempts, Account
    <3> QED
      BY <1>0, <1>1, <3>1, <3>2 DEF secretOf, unspentOf
  <2>2. CASE CallFails(r)
    BY <2>2 DEF CallFails, secretOf, unspentOf
  <2> QED
    BY <2>1, <2>2
<1>4. sessionsOf' \in {sessionsOf, sessionsOf \cup {u}}
  <2>1. CASE VerifyReset(r)
    <3> DEFINE ended == EndPending(req[r].cookie)
    <3>1. ended.uid = req[r].cookie.uid /\ LoginSession(ended, u).uid = u
      BY <1>0 DEF EndPending, LoginSession, Session
    <3>2. PICK signed \in {{}, {ended}, {ended, LoginSession(ended, u)}} :
              cookies' = cookies \cup signed
      BY <2>1 DEF VerifyReset
    <3> HIDE DEF ended
    <3> DEFINE uids == {c.uid : c \in signed}
    <3>3. sessionsOf' = sessionsOf \cup (uids \ {None})
      BY <3>2 DEF sessionsOf
    <3>4. uids \subseteq {req[r].cookie.uid, u}
      BY <3>1, <3>2
    <3>5. req[r].cookie.uid \in sessionsOf \cup {None}
      BY <1>0 DEF sessionsOf
    <3> HIDE DEF uids, u
    <3>6. CASE u \in uids
      <4>1. sessionsOf' = sessionsOf \cup {u}
        BY <1>1, <3>3, <3>4, <3>5, <3>6
      <4> QED
        BY <4>1
    <3>7. CASE u \notin uids
      <4>1. sessionsOf' = sessionsOf
        BY <3>3, <3>4, <3>5, <3>7
      <4> QED
        BY <4>1
    <3> QED
      BY <3>6, <3>7
  <2>2. CASE CallFails(r)
    BY <2>2 DEF CallFails, sessionsOf
  <2> QED
    BY <2>1, <2>2
<1>5. UNCHANGED <<spentOf, everOff>>
  BY DEF VerifyReset, CallFails, history, spentOf
<1>6. Factor!Finish(r)
  BY <1>1, <1>2, <1>3, <1>4, <1>5
  DEF Factor!Finish, secretOf, unspentOf, spentOf, clearedOf, sessionsOf
<1> QED
  BY <1>6 DEF Factor!Next

LEMMA MapSession ==
    ASSUME EnableTFA, TypeInv, FactorInv, NEW r \in Requests, LoginIssueSession(r)
    PROVE  Factor!Next
<1> DEFINE u == req[r].user
<1>1. u \in Users /\ u # None /\ req[r].pc = "loginIssue"
  BY StorageConstants DEF LoginIssueSession, At, TypeInv, RequestOK
<1>2. u \in everOff
  BY <1>1 DEF LoginIssueSession, Challenged, FactorInv, FactorOK
<1>3. sessionsOf' = sessionsOf \cup {u}
  <2>1. LoginSession(req[r].cookie, u).uid = u
    BY DEF LoginSession, Session, TypeInv, TypeOK, Request
  <2>2. cookies' = cookies \cup {LoginSession(req[r].cookie, u)}
    BY DEF LoginIssueSession
  <2> QED
    BY <1>1, <2>1, <2>2 DEF sessionsOf
<1>4. clearedOf' = clearedOf
  BY <1>1, DoneCleared DEF LoginIssueSession
<1>5. UNCHANGED <<secretOf, unspentOf, spentOf, everOff>>
  BY DEF LoginIssueSession, history, secretOf, unspentOf, spentOf
<1>6. Factor!SignInByPassword(u)
  BY <1>2, <1>3, <1>4, <1>5
  DEF Factor!SignInByPassword, secretOf, unspentOf, spentOf, clearedOf, sessionsOf
<1> QED
  BY <1>1, <1>6 DEF Factor!Next, Factor!SignInByPassword

LEMMA MapEnable ==
    ASSUME TypeInv, CodesInv, FactorInv, NEW r \in Requests, NEW saved \in BOOLEAN,
           EnableSet(r, saved)
    PROVE  Factor!Next
<1>0. /\ acct \in [Users -> Account]
      /\ req[r] \in Request /\ req[r].cookie \in cookies /\ req[r].cookie \in Session
  BY DEF TypeInv, TypeOK, FactorInv, Request
<1>a. req[r].pc = "enableSet"
  BY DEF EnableSet, At
<1>1. PICK u \in Users, new \in Secrets, codes \in SUBSET Codes :
          u = req[r].user /\ new = req[r].cookie.psec /\ codes = req[r].codes
  BY <1>0, <1>a DEF TypeInv, RequestOK, Request
<1>2. codes \cap spentOf = {} /\ \A v \in Users : codes \cap unspentOf[v] = {}
  BY <1>1 DEF EnableSet, CodesInv, DrawnUnused, spentOf, unspentOf
<1>3. /\ secretOf' = [secretOf EXCEPT ![u] = new]
      /\ unspentOf' = [unspentOf EXCEPT ![u] = codes]
  <2>1. acct' = [acct EXCEPT ![u] = SetTOTP(acct[u], new, codes)]
    BY <1>0, <1>1 DEF EnableSet
  <2>2. SetTOTP(acct[u], new, codes).secret = new /\ SetTOTP(acct[u], new, codes).codes = codes
    BY <1>0, <1>1 DEF SetTOTP, Account
  <2> QED
    BY <1>0, <1>1, <2>1, <2>2 DEF secretOf, unspentOf
<1>4. clearedOf' = clearedOf
  BY <1>a, DoneCleared DEF EnableSet
<1>5. sessionsOf' = sessionsOf
  <2> DEFINE c == [req[r].cookie EXCEPT !.psec = None]
  <2>1. c.uid = req[r].cookie.uid
    BY <1>0 DEF Session
  <2>2. cookies' \in {cookies, cookies \cup {c}}
    BY DEF EnableSet
  <2> HIDE DEF c
  <2> QED
    BY <1>0, <2>1, <2>2, SameSessions
<1>6. UNCHANGED <<spentOf, everOff>>
  BY DEF EnableSet, spentOf
<1>7. Factor!Enrol(u, new, codes)
  BY <1>2, <1>3, <1>4, <1>5, <1>6
  DEF Factor!Enrol, secretOf, unspentOf, spentOf, clearedOf, sessionsOf
<1> QED
  BY <1>1, <1>7 DEF Factor!Next

LEMMA MapDisable ==
    ASSUME TypeInv, NEW r \in Requests, DisableClear(r)
    PROVE  Factor!Next
<1> DEFINE u == req[r].user
<1>0. acct \in [Users -> Account]
  BY DEF TypeInv, TypeOK
<1>1. u \in Users /\ req[r].pc = "disableClear"
  BY DEF DisableClear, At, TypeInv, RequestOK
<1>2. /\ secretOf' = [secretOf EXCEPT ![u] = None]
      /\ unspentOf' = [unspentOf EXCEPT ![u] = {}]
  <2>1. acct' = [acct EXCEPT ![u] = ClearTOTP(acct[u])]
    BY <1>0, <1>1 DEF DisableClear
  <2>2. ClearTOTP(acct[u]).secret = None /\ ClearTOTP(acct[u]).codes = {}
    BY <1>0, <1>1 DEF ClearTOTP, Account
  <2> QED
    BY <1>0, <1>1, <2>1, <2>2 DEF secretOf, unspentOf
<1>3. clearedOf' = clearedOf
  BY <1>1, DoneCleared DEF DisableClear
<1>4. everOff' = everOff \cup {u} /\ UNCHANGED <<spentOf, sessionsOf>>
  BY DEF DisableClear, spentOf, sessionsOf
<1>5. Factor!Unenrol(u)
  BY <1>2, <1>3, <1>4
  DEF Factor!Unenrol, secretOf, unspentOf, spentOf, clearedOf, sessionsOf
<1> QED
  BY <1>1, <1>5 DEF Factor!Next, Factor!Unenrol

LEMMA StepTwoFactor ==
    EnableTFA /\ TypeInv /\ CodesInv /\ FactorInv /\ [Next]_vars
        => [Factor!Next]_(Factor!vars)
<1> SUFFICES ASSUME EnableTFA, TypeInv, CodesInv, FactorInv, [Next]_vars
             PROVE  Factor!Next \/ UNCHANGED Factor!vars
  OBVIOUS
<1>1. CASE UNCHANGED vars
  BY <1>1 DEF vars, history, Factor!vars, At
<1>2. CASE Next
  <2>1. \/ UNCHANGED <<secretOf, unspentOf, spentOf, clearedOf, everOff, sessionsOf>>
        \/ \E r \in Requests : \/ VerifyConsume(r) \/ VerifyReset(r) \/ DisableClear(r)
                               \/ LoginIssueSession(r)
                               \/ CallFails(r) /\ At(r, "verifyReset")
        \/ \E r \in Requests, x \in Secrets : VerifyTOTP(r, x)
        \/ \E r \in Requests, saved \in BOOLEAN : EnableSet(r, saved)
    BY <1>2, ClearedFrame, SecurityFrame, SessionsFrame, UsesFrame, EnrolmentFrame DEF spentOf
  <2>2. CASE UNCHANGED <<secretOf, unspentOf, spentOf, clearedOf, everOff, sessionsOf>>
    BY <2>2 DEF Factor!vars, secretOf, unspentOf, spentOf, clearedOf, sessionsOf
  <2> QED
    BY <2>1, <2>2, MapTOTP, MapConsume, MapFinish, MapSession, MapEnable, MapDisable
<1> QED
  BY <1>1, <1>2

(* On a server with TFA enabled, for any users, requests and interleaving, *)
(* the handlers implement the second factor of TwoFactor.                  *)
THEOREM FactorRefined == EnableTFA => (Spec => ImplementsTwoFactor)
<1> SUFFICES ASSUME EnableTFA PROVE Spec => ImplementsTwoFactor
  OBVIOUS
<1>1. Init => FactorInv
  BY InitFactorInv
<1>2. TypeInv /\ FactorInv /\ [Next]_vars => FactorInv'
  BY StepFactorInv
<1>3. Init => Factor!Init
  BY InitTwoFactor
<1>4. TypeInv /\ CodesInv /\ FactorInv /\ [Next]_vars => [Factor!Next]_(Factor!vars)
  BY StepTwoFactor
<1> QED
  BY <1>1, <1>2, <1>3, <1>4, InitTypeInv, StepTypeInv, InitCodesInv, StepCodesInv, PTL
  DEF Spec, ImplementsTwoFactor, Factor!Spec

----------------------------------------------------------------------------
(* The legacy upgrade.  It runs only for a hash that is not argon2id.  So  *)
(* once a reset stored an argon2id hash, the second read of any upgrade    *)
(* under way differs from the first, and no upgrade reaches its write.     *)
UpgradesLegacy ==
    \A r \in Requests :
        req[r].pc \in {"upgradeRead", "upgradeWrite"} => ~Parseable(req[r].snap.hash)

NoWriteAfterReset ==
    \A u \in Users \ raced : resetTo[u] # None =>
        \A r \in Requests : ~(At(r, "upgradeWrite") /\ req[r].user = u)

ResetInv == ResetSticks /\ UpgradesLegacy /\ NoWriteAfterReset

LEMMA InitResetInv == Init => ResetInv
  BY DEF Init, Idle, ResetInv, ResetSticks, UpgradesLegacy, NoWriteAfterReset, At

(* What a login brings to the upgrade: bcrypt has compared what was typed  *)
(* with the hash it read, and HashPassword takes what was typed.           *)
BcryptVerified(q) == ~Parseable(q.snap.hash) /\ q.pw = Truncated[q.snap.hash.pw]

(* How a request comes to be in the upgrade.                               *)
LEMMA UpgradeFrame ==
    ASSUME TypeInv, Next, NEW s \in Requests,
           req'[s].pc \in {"upgradeRead", "upgradeWrite"}
    PROVE  \/ req'[s] = req[s]
           \/ UpgradeRead(s) /\ StillVerifiedHash(s) /\ req'[s].pc = "upgradeWrite"
                /\ req'[s].user = req[s].user /\ req'[s].snap = req[s].snap
                /\ req'[s].pw = req[s].pw
           \/ req'[s].pc = "upgradeRead" /\ BcryptVerified(req'[s])
<1> USE DEF At
<1>0. req \in [Requests -> Request]
  BY DEF TypeInv, TypeOK
<1>1. ASSUME NEW r \in Requests, NEW q, req' = [req EXCEPT ![r] = q],
             q.pc \notin {"upgradeRead", "upgradeWrite"}
      PROVE  req'[s] = req[s]
  BY <1>0, <1>1
<1>2. ASSUME NEW r \in Requests, Done(r) PROVE req'[s] = req[s]
  BY <1>1, <1>2 DEF Done, Idle
<1>3. ASSUME NEW r \in Requests, NEW c, NEW v, NEW pw \in Passwords, LoginRead(r, v, pw, c)
      PROVE  \/ req'[s] = req[s]
             \/ req'[s].pc = "upgradeRead" /\ BcryptVerified(req'[s])
  <2> DEFINE q == [Idle EXCEPT !.pc = IF NeedsUpgrade(pw, acct[v].hash)
                                      THEN "upgradeRead" ELSE "loginIssue",
                               !.user = v, !.cookie = c, !.pw = pw, !.snap = acct[v]]
  <2>1. /\ q.snap = acct[v] /\ q.pw = pw
        /\ q.pc = IF NeedsUpgrade(pw, acct[v].hash) THEN "upgradeRead" ELSE "loginIssue"
    BY DEF Idle
  <2>2. req' = [req EXCEPT ![r] = q]
    BY <1>3 DEF LoginRead
  <2>3. NeedsUpgrade(pw, acct[v].hash) =>
           ~Parseable(acct[v].hash) /\ pw = Truncated[acct[v].hash.pw]
    BY <1>3, ServerConstants DEF LoginRead, LoginPassword, VerifyPassword, BcryptVerifier,
       NeedsUpgrade
  <2> HIDE DEF q
  <2> QED
    BY <1>0, <2>1, <2>2, <2>3 DEF BcryptVerified
<1>4. ASSUME NEW r \in Requests, NEW c, VerifyBegin(r, c) PROVE req'[s] = req[s]
  <2> DEFINE q == [Idle EXCEPT !.pc = "verifyRead", !.user = c.pend, !.cookie = c]
  <2>1. q.pc = "verifyRead"
    BY DEF Idle
  <2> QED
    BY <1>1, <1>4, <2>1 DEF VerifyBegin
<1>5. ASSUME NEW r \in Requests, NEW c, NEW pw, NEW drawn, EnableRead(r, c, pw, drawn)
      PROVE  req'[s] = req[s]
  <2> DEFINE q == [Idle EXCEPT !.pc = "enableSet", !.user = c.uid, !.cookie = c,
                               !.codes = drawn]
  <2>1. q.pc = "enableSet"
    BY DEF Idle
  <2> QED
    BY <1>1, <1>5, <2>1 DEF EnableRead
<1>6. ASSUME NEW r \in Requests, NEW c, NEW pw, DisableRead(r, c, pw) PROVE req'[s] = req[s]
  <2> DEFINE q == [Idle EXCEPT !.pc = "disableClear", !.user = c.uid]
  <2>1. q.pc = "disableClear"
    BY DEF Idle
  <2> QED
    BY <1>1, <1>6, <2>1 DEF DisableRead
<1>7. ASSUME NEW r \in Requests, UpgradeRead(r)
      PROVE  \/ req'[s] = req[s]
             \/ UpgradeRead(s) /\ StillVerifiedHash(s) /\ req'[s].pc = "upgradeWrite"
                  /\ req'[s].user = req[s].user /\ req'[s].snap = req[s].snap
                  /\ req'[s].pw = req[s].pw
  BY <1>0, <1>7 DEF UpgradeRead, Goto, Request
<1>8. ASSUME NEW r \in Requests, UpgradeWrite(r) \/ UpgradeFails(r) PROVE req'[s] = req[s]
  BY <1>0, <1>8 DEF UpgradeWrite, UpgradeFails, ContinueLogin, Request
<1>9. ASSUME NEW r \in Requests, VerifyRead(r) PROVE req'[s] = req[s]
  BY <1>0, <1>2, <1>9 DEF VerifyRead, Request
<1>10. ASSUME NEW r \in Requests, VerifyReserve(r) \/ VerifyConsume(r) PROVE req'[s] = req[s]
  BY <1>0, <1>10 DEF VerifyReserve, VerifyConsume, Request
<1>11. ASSUME NEW r \in Requests, NEW x, VerifyTOTP(r, x) \/ VerifyBackupMatch(r, x)
       PROVE  req'[s] = req[s]
  BY <1>0, <1>11 DEF VerifyTOTP, VerifyBackupMatch, Request
<1>12. ASSUME NEW r \in Requests,
              \/ LoginIssueSession(r) \/ LoginIssuePending(r) \/ VerifyExhausted(r)
              \/ VerifyWrong(r) \/ VerifyConsumeLost(r) \/ VerifyReset(r)
              \/ (\E saved \in BOOLEAN : EnableSet(r, saved)) \/ DisableClear(r) \/ CallFails(r)
       PROVE  req'[s] = req[s]
  BY <1>2, <1>12 DEF LoginIssueSession, LoginIssuePending, VerifyExhausted, VerifyWrong,
     VerifyConsumeLost, VerifyReset, EnableSet, DisableClear, CallFails, RejectCode
<1>13. ASSUME \/ \E c \in cookies : VerifyExpired(c)
              \/ \E c \in cookies, secret \in Secrets : Setup(c, secret)
              \/ \E v \in Users, pw \in Passwords : ResetPassword(v, pw)
              \/ \E v \in Users : DeleteUser(v)
              \/ Tick
       PROVE  req'[s] = req[s]
  BY <1>13 DEF VerifyExpired, Setup, ResetPassword, DeleteUser, Tick
<1> QED
  BY NextCases, <1>3, <1>4, <1>5, <1>6, <1>7, <1>8, <1>9, <1>10, <1>11, <1>12, <1>13

(* Only the upgrade's write and the reset change a stored hash.            *)
LEMMA HashFrame ==
    ASSUME TypeInv, Next
    PROVE  \/ \A u \in Users : acct'[u].hash = acct[u].hash
           \/ \E r \in Requests : UpgradeWrite(r)
           \/ \E u \in Users, pw \in Passwords : ResetPassword(u, pw)
<1> USE DEF At
<1>0. acct \in [Users -> Account]
  BY DEF TypeInv, TypeOK
<1>1. ASSUME NEW r \in Requests,
             \/ LoginIssuePending(r) \/ VerifyReset(r) \/ VerifyReserve(r)
             \/ VerifyConsume(r) \/ DisableClear(r)
      PROVE  \A u \in Users : acct'[u].hash = acct[u].hash
  <2> DEFINE v == req[r].user
  <2>1. v \in Users
    BY <1>1 DEF LoginIssuePending, VerifyReset, VerifyReserve, VerifyConsume, DisableClear,
       TypeInv, RequestOK
  <2>2. \/ acct' = [acct EXCEPT ![v] = ResetTOTPAttempts(acct[v])]
        \/ acct' = [acct EXCEPT ![v] = ConsumeTOTPAttempt(acct[v])]
        \/ acct' = [acct EXCEPT ![v] = ConsumeBackupCode(acct[v], req[r].code)]
        \/ acct' = [acct EXCEPT ![v] = ClearTOTP(acct[v])]
    BY <1>0, <1>1, <2>1 DEF LoginIssuePending, VerifyReset, VerifyReserve, VerifyConsume,
       DisableClear
  <2>3. /\ ResetTOTPAttempts(acct[v]).hash = acct[v].hash
        /\ ConsumeTOTPAttempt(acct[v]).hash = acct[v].hash
        /\ ConsumeBackupCode(acct[v], req[r].code).hash = acct[v].hash
        /\ ClearTOTP(acct[v]).hash = acct[v].hash
    BY <1>0, <2>1 DEF ResetTOTPAttempts, ConsumeTOTPAttempt, ConsumeBackupCode, ClearTOTP, Account
  <2> QED
    BY <1>0, <2>1, <2>2, <2>3
<1>2. ASSUME NEW r \in Requests, NEW saved \in BOOLEAN, EnableSet(r, saved)
      PROVE  \A u \in Users : acct'[u].hash = acct[u].hash
  <2> DEFINE v == req[r].user
  <2> DEFINE b == SetTOTP(acct[v], req[r].cookie.psec, req[r].codes)
  <2>1. v \in Users /\ acct' = [acct EXCEPT ![v] = b]
    BY <1>0, <1>2 DEF EnableSet, TypeInv, RequestOK
  <2>2. b.hash = acct[v].hash
    BY <1>0, <2>1 DEF SetTOTP, Account
  <2> QED
    BY <1>0, <2>1, <2>2
<1> QED
  BY AcctFrame, <1>1, <1>2

LEMMA StepResetInv == TypeInv /\ ResetInv /\ [Next]_vars => ResetInv'
<1> SUFFICES ASSUME TypeInv, ResetInv, [Next]_vars PROVE ResetInv'
  OBVIOUS
<1>a. CASE UNCHANGED vars
  BY <1>a DEF ResetInv, ResetSticks, UpgradesLegacy, NoWriteAfterReset, At, vars, history
<1>b. CASE Next
  <2>0. /\ acct \in [Users -> Account] /\ req \in [Requests -> Request]
        /\ resetTo \in [Users -> Passwords \cup {None}]
    BY DEF TypeInv, TypeOK
  <2>1. UpgradesLegacy'
    BY <1>b, UpgradeFrame DEF ResetInv, UpgradesLegacy, UpgradeRead, At, BcryptVerified
  <2>2. \A u \in Users \ raced' :
           /\ u \in Users \ raced
           /\ resetTo'[u] # resetTo[u] => \E pw \in Passwords : ResetPassword(u, pw)
    BY <1>b, <2>0, ResetFrame DEF ResetPassword
  <2>3. NoWriteAfterReset'
    <3> SUFFICES ASSUME NEW u \in Users \ raced', resetTo'[u] # None, NEW s \in Requests,
                        At(s, "upgradeWrite")', req'[s].user = u
                 PROVE  FALSE
      BY DEF NoWriteAfterReset
    <3>1. CASE resetTo'[u] # resetTo[u]
      <4>1. PICK pw \in Passwords : ResetPassword(u, pw)
        BY <2>2, <3>1
      <4>2. req' = req /\ ~(At(s, "upgradeWrite") /\ req[s].user = u)
        BY <4>1 DEF ResetPassword
      <4> QED
        BY <4>2 DEF At
    <3>2. CASE resetTo'[u] = resetTo[u]
      <4>1. acct[u].hash = Argon2id(resetTo[u]) /\ ~(At(s, "upgradeWrite") /\ req[s].user = u)
        BY <2>2, <3>2 DEF ResetInv, ResetSticks, NoWriteAfterReset
      <4>2. UpgradeRead(s) /\ StillVerifiedHash(s) /\ req[s].user = u
        BY <1>b, <4>1, UpgradeFrame DEF At
      <4>3. ~Parseable(req[s].snap.hash) /\ req[s].snap.hash = acct[u].hash
        BY <4>2 DEF ResetInv, UpgradesLegacy, UpgradeRead, StillVerifiedHash, At
      <4> QED
        BY <4>1, <4>3 DEF Argon2id, Parseable
    <3> QED
      BY <3>1, <3>2
  <2>4. ResetSticks'
    <3> SUFFICES ASSUME NEW u \in Users \ raced', resetTo'[u] # None
                 PROVE  acct'[u].hash = Argon2id(resetTo'[u])
      BY DEF ResetSticks
    <3>1. ASSUME NEW v \in Users, NEW pw \in Passwords, ResetPassword(v, pw)
          PROVE  acct'[u].hash = Argon2id(resetTo'[u])
      <4> DEFINE up == [acct[v] EXCEPT !.hash = Argon2id(pw)]
      <4>1. acct' = [acct EXCEPT ![v] = UpdateUser(acct[v], up)]
        BY <2>0, <3>1 DEF ResetPassword
      <4>2. UpdateUser(acct[v], up).hash = Argon2id(pw)
        BY <2>0 DEF UpdateUser, Account
      <4>3. resetTo' = [resetTo EXCEPT ![v] = pw]
        BY <3>1 DEF ResetPassword
      <4> HIDE DEF up
      <4>4. CASE u = v
        BY <2>0, <4>1, <4>2, <4>3, <4>4
      <4>5. CASE u # v
        BY <2>0, <2>2, <4>1, <4>3, <4>5 DEF ResetInv, ResetSticks
      <4> QED
        BY <4>4, <4>5
    <3>2. ASSUME NEW r \in Requests, UpgradeWrite(r)
          PROVE  acct'[u].hash = Argon2id(resetTo'[u])
      <4>1. resetTo' = resetTo /\ raced' = raced /\ At(r, "upgradeWrite")
        BY <3>2 DEF UpgradeWrite, history
      <4>2. req[r].user # u
        BY <2>2, <4>1 DEF ResetInv, NoWriteAfterReset
      <4>3. acct'[u] = acct[u]
        BY <2>0, <3>2, <4>2 DEF UpgradeWrite
      <4> QED
        BY <2>2, <4>1, <4>3 DEF ResetInv, ResetSticks
    <3>3. ASSUME \A v \in Users : acct'[v].hash = acct[v].hash,
                 ~\E v \in Users, pw \in Passwords : ResetPassword(v, pw)
          PROVE  acct'[u].hash = Argon2id(resetTo'[u])
      BY <2>2, <3>3 DEF ResetInv, ResetSticks
    <3> QED
      BY <1>b, <3>1, <3>2, <3>3, HashFrame
  <2> QED
    BY <2>1, <2>3, <2>4 DEF ResetInv
<1> QED
  BY <1>a, <1>b

(* For any users, requests and interleaving: a reset outside the upgrade's *)
(* last round trip is never overwritten by an upgrade.                     *)
THEOREM ResetsStick == Spec => []ResetSticks
<1>1. ResetInv => ResetSticks
  BY DEF ResetInv
<1> QED
  BY <1>1, InitTypeInv, StepTypeInv, InitResetInv, StepResetInv, PTL DEF Spec

----------------------------------------------------------------------------
(* Passwords.  The password that an upgrade is about to store is the one   *)
(* bcrypt compares with the stored hash, unless a reset came between the   *)
(* upgrade's second read and its write.                                    *)
WritesVerified ==
    \A r \in Requests :
        /\ At(r, "upgradeRead") => req[r].pw = Truncated[req[r].snap.hash.pw]
        /\ At(r, "upgradeWrite") /\ req[r].user \notin raced =>
              req[r].pw = Truncated[acct[req[r].user].hash.pw]

LEMMA InitWritesVerified == Init => WritesVerified
  BY DEF Init, Idle, WritesVerified, At

LEMMA ResetHash ==
    ASSUME TypeInv, NEW u \in Users, NEW pw \in Passwords, ResetPassword(u, pw)
    PROVE  /\ acct'[u].hash = Argon2id(pw) /\ resetTo'[u] = pw
           /\ \A v \in Users \ {u} : acct'[v] = acct[v]
<1> DEFINE b == UpdateUser(acct[u], [acct[u] EXCEPT !.hash = Argon2id(pw)])
<1>1. acct \in [Users -> Account] /\ resetTo \in [Users -> Passwords \cup {None}]
  BY DEF TypeInv, TypeOK
<1>2. acct' = [acct EXCEPT ![u] = b] /\ resetTo'[u] = pw
  BY <1>1 DEF ResetPassword
<1>3. b.hash = Argon2id(pw)
  BY <1>1 DEF UpdateUser, Account
<1> HIDE DEF b
<1> QED
  BY <1>1, <1>2, <1>3

LEMMA WriteHash ==
    ASSUME TypeInv, NEW r \in Requests, UpgradeWrite(r)
    PROVE  /\ req[r].user \in Users
           /\ acct'[req[r].user].hash = Argon2id(req[r].pw)
           /\ \A v \in Users \ {req[r].user} : acct'[v] = acct[v]
<1> DEFINE u == req[r].user
           up == [req[r].cur EXCEPT !.hash = Argon2id(req[r].pw)]
           b == UpdateUser(acct[u], up)
<1>1. acct \in [Users -> Account] /\ u \in Users /\ req[r].cur \in Account
  BY DEF TypeInv, TypeOK, RequestOK, UpgradeWrite, At
<1>2. acct' = [acct EXCEPT ![u] = b]
  BY <1>1 DEF UpgradeWrite
<1>3. b.hash = Argon2id(req[r].pw)
  BY <1>1 DEF UpdateUser, Account
<1> HIDE DEF b
<1> QED
  BY <1>1, <1>2, <1>3

LEMMA StepWritesVerified ==
    ASSUME TypeInv, WritesVerified, [Next]_vars
    PROVE  WritesVerified'
<1>a. CASE UNCHANGED vars
  BY <1>a DEF WritesVerified, At, vars, history
<1>b. CASE Next
  <2> SUFFICES ASSUME NEW s \in Requests
               PROVE  /\ At(s, "upgradeRead")' => req'[s].pw = Truncated[req'[s].snap.hash.pw]
                      /\ At(s, "upgradeWrite")' /\ req'[s].user \notin raced' =>
                            req'[s].pw = Truncated[acct'[req'[s].user].hash.pw]
    BY DEF WritesVerified
  <2>0. raced \subseteq raced'
    BY <1>b, ResetFrame DEF ResetPassword
  <2>1. ASSUME At(s, "upgradeRead")'
        PROVE  req'[s].pw = Truncated[req'[s].snap.hash.pw]
    BY <1>b, <2>1, UpgradeFrame DEF At, WritesVerified, BcryptVerified
  <2>2. ASSUME At(s, "upgradeWrite")', req'[s].user \notin raced', req'[s] # req[s]
        PROVE  req'[s].pw = Truncated[acct'[req'[s].user].hash.pw]
    <3>1. /\ UpgradeRead(s) /\ StillVerifiedHash(s)
          /\ req'[s].user = req[s].user /\ req'[s].pw = req[s].pw
      BY <1>b, <2>2, UpgradeFrame DEF At
    <3> QED
      BY <3>1 DEF UpgradeRead, StillVerifiedHash, WritesVerified
  <2>3. ASSUME At(s, "upgradeWrite")', req'[s].user \notin raced', req'[s] = req[s]
        PROVE  req'[s].pw = Truncated[acct'[req'[s].user].hash.pw]
    <3> DEFINE u == req[s].user
    <3>1. /\ At(s, "upgradeWrite") /\ u \in Users /\ u \notin raced
          /\ req[s].pw = Truncated[acct[u].hash.pw]
      BY <2>0, <2>3 DEF WritesVerified, At, TypeInv, RequestOK
    <3>2. ASSUME NEW v \in Users, NEW pw \in Passwords, ResetPassword(v, pw)
          PROVE  acct'[u].hash = acct[u].hash
      <4>1. v # u
        BY <2>3, <3>1, <3>2 DEF ResetPassword
      <4> QED
        BY <3>1, <3>2, <4>1, ResetHash
    <3>3. ASSUME NEW r \in Requests, UpgradeWrite(r), req[r].user = u
          PROVE  Truncated[acct'[u].hash.pw] = Truncated[acct[u].hash.pw]
      <4>0. req[r].pw = Truncated[acct[u].hash.pw]
        BY <3>1, <3>3 DEF WritesVerified, UpgradeWrite
      <4>1. acct'[u].hash = Argon2id(Truncated[acct[u].hash.pw])
        BY <3>3, <4>0, WriteHash
      <4>2. \A x : Argon2id(x).pw = x
        BY DEF Argon2id
      <4>3. acct[u].hash.pw \in Passwords
        BY <3>1, StorageTypes DEF TypeInv, TypeOK
      <4> QED
        BY <4>1, <4>2, <4>3, ServerConstants
    <3>4. ASSUME NEW r \in Requests, UpgradeWrite(r), req[r].user # u
          PROVE  acct'[u].hash = acct[u].hash
      BY <3>1, <3>4, WriteHash
    <3> QED
      BY <1>b, <2>3, <3>1, <3>2, <3>3, <3>4, HashFrame
  <2> QED
    BY <2>1, <2>2, <2>3
<1> QED
  BY <1>a, <1>b

(* For any users, requests and interleaving: the password behind a stored  *)
(* hash changes by a reset alone, but for an imported password over 72     *)
(* bytes, which an upgrade cuts to the 72 bytes that were typed and that   *)
(* bcrypt let in.  Every other login, upgrade, enrolment, code and failure *)
(* in between leaves it; the upgrade only makes it native.                 *)
THEOREM PasswordsStay == Spec => PasswordOnlyByReset
<1> DEFINE Kept ==
        \A u \in Users \ raced : acct'[u].hash # acct[u].hash =>
            \/ acct'[u].hash = Argon2id(Truncated[acct[u].hash.pw])
            \/ resetTo'[u] # None /\ acct'[u].hash = Argon2id(resetTo'[u])
<1>1. ASSUME TypeInv, WritesVerified, [Next]_vars PROVE [Kept]_vars
  <2> SUFFICES ASSUME Next, NEW u \in Users \ raced, acct'[u].hash # acct[u].hash
               PROVE  \/ acct'[u].hash = Argon2id(Truncated[acct[u].hash.pw])
                      \/ resetTo'[u] # None /\ acct'[u].hash = Argon2id(resetTo'[u])
    BY <1>1
  <2>1. ASSUME NEW r \in Requests, UpgradeWrite(r)
        PROVE  acct'[u].hash = Argon2id(Truncated[acct[u].hash.pw])
    <3>1. req[r].user = u
      BY <1>1, <2>1, WriteHash
    <3>2. req[r].pw = Truncated[acct[u].hash.pw]
      BY <1>1, <2>1, <3>1 DEF WritesVerified, UpgradeWrite
    <3> QED
      BY <1>1, <2>1, <3>1, <3>2, WriteHash
  <2>2. ASSUME NEW v \in Users, NEW pw \in Passwords, ResetPassword(v, pw)
        PROVE  resetTo'[u] # None /\ acct'[u].hash = Argon2id(resetTo'[u])
    <3>1. u = v
      BY <1>1, <2>2, ResetHash
    <3> QED
      BY <1>1, <2>2, <3>1, ResetHash, StorageConstants
  <2> QED
    BY <1>1, <2>1, <2>2, HashFrame
<1>2. Spec => [][Kept]_vars
  BY <1>1, InitTypeInv, StepTypeInv, InitWritesVerified, StepWritesVerified, PTL DEF Spec
<1> QED
  BY <1>2 DEF PasswordOnlyByReset

----------------------------------------------------------------------------
(* Promised backup codes.  Only an enrolled user has any; so an enrolment  *)
(* under way, with no other of that user, finds none to throw away.        *)
StoredPromised == \A u \in Users \ doubled : promised[u] \subseteq acct[u].codes

CodesOfEnrolled == \A u \in Users : acct[u].codes # {} => Enrolled(acct[u])

EnablesUnenrolled ==
    \A r \in Requests : At(r, "enableSet") /\ req[r].user \notin doubled =>
        ~Enrolled(acct[req[r].user])

EnablesAlone ==
    \A r, s \in Requests :
        At(r, "enableSet") /\ At(s, "enableSet") /\ req[r].user = req[s].user /\ r # s =>
            req[r].user \in doubled

PromisedInv == StoredPromised /\ CodesOfEnrolled /\ EnablesUnenrolled /\ EnablesAlone

LEMMA InitPromisedInv == Init => PromisedInv
<1> SUFFICES ASSUME Init PROVE PromisedInv
  OBVIOUS
<1>1. StoredPromised
  BY DEF Init, StoredPromised
<1>2. CodesOfEnrolled
  BY InitialTablesAssumption DEF Init, CodesOfEnrolled
<1>3. \A r \in Requests : ~At(r, "enableSet")
  BY DEF Init, Idle, At
<1> QED
  BY <1>1, <1>2, <1>3 DEF PromisedInv, EnablesUnenrolled, EnablesAlone

(* The four steps that touch codes, promises or enrolments, one by one.    *)
LEMMA EnableReadPromised ==
    ASSUME TypeInv, PromisedInv, NEW r \in Requests, NEW c \in cookies, NEW pw \in Passwords,
           NEW drawn \in SUBSET Codes, EnableRead(r, c, pw, drawn)
    PROVE  PromisedInv'
<1>1. /\ acct' = acct /\ promised' = promised /\ doubled \subseteq doubled'
      /\ ~Enrolled(acct[c.uid])
      /\ (\E s \in Requests : At(s, "enableSet") /\ req[s].user = c.uid) => c.uid \in doubled'
  BY DEF EnableRead, NotYetEnrolled
<1>2. req'[r].user = c.uid /\ \A s \in Requests \ {r} : req'[s] = req[s]
  BY DEF EnableRead, Idle, TypeInv, TypeOK
<1>3. StoredPromised' /\ CodesOfEnrolled'
  BY <1>1 DEF PromisedInv, StoredPromised, CodesOfEnrolled
<1>4. EnablesUnenrolled'
  BY <1>1, <1>2 DEF PromisedInv, EnablesUnenrolled, At
<1>5. EnablesAlone'
  BY <1>1, <1>2 DEF PromisedInv, EnablesAlone, At
<1> QED
  BY <1>3, <1>4, <1>5 DEF PromisedInv

LEMMA EnableSetPromised ==
    ASSUME TypeInv, PromisedInv, NEW r \in Requests, NEW saved \in BOOLEAN, EnableSet(r, saved)
    PROVE  PromisedInv'
<1> DEFINE u == req[r].user
           b == SetTOTP(acct[u], req[r].cookie.psec, req[r].codes)
<1>0. /\ acct \in [Users -> Account] /\ req \in [Requests -> Request]
      /\ promised \in [Users -> SUBSET Codes]
  BY DEF TypeInv, TypeOK
<1>1. At(r, "enableSet") /\ u \in Users /\ req[r].cookie.psec \in Secrets /\ doubled' = doubled
  BY DEF EnableSet, TypeInv, RequestOK, At
<1>2. acct' = [acct EXCEPT ![u] = b]
  BY <1>0, <1>1 DEF EnableSet
<1>3. b.codes = req[r].codes /\ b.secret = req[r].cookie.psec
  BY <1>0, <1>1 DEF SetTOTP, Account
<1> HIDE DEF b
<1>4. acct'[u].codes = req[r].codes /\ Enrolled(acct'[u]) /\ \A v \in Users \ {u} : acct'[v] = acct[v]
  BY <1>0, <1>1, <1>2, <1>3, StorageConstants DEF Enrolled
<1>5. ~At(r, "enableSet")' /\ \A s \in Requests \ {r} : req'[s] = req[s]
  BY <1>0 DEF EnableSet, Done, Idle, At
<1>6. promised'[u] \subseteq promised[u] \cup req[r].codes
      /\ \A v \in Users \ {u} : promised'[v] = promised[v]
  BY <1>0, <1>1 DEF EnableSet
<1>7. u \notin doubled => promised[u] = {}
  BY <1>1 DEF PromisedInv, StoredPromised, CodesOfEnrolled, EnablesUnenrolled
<1>8. StoredPromised'
  BY <1>1, <1>4, <1>6, <1>7 DEF PromisedInv, StoredPromised
<1>9. CodesOfEnrolled'
  BY <1>4 DEF PromisedInv, CodesOfEnrolled
<1>10. EnablesUnenrolled'
  BY <1>1, <1>4, <1>5 DEF PromisedInv, EnablesUnenrolled, EnablesAlone, At, TypeInv, RequestOK
<1>11. EnablesAlone'
  BY <1>1, <1>5 DEF PromisedInv, EnablesAlone, At
<1> QED
  BY <1>8, <1>9, <1>10, <1>11 DEF PromisedInv

LEMMA CodesLeavePromised ==
    ASSUME TypeInv, Next, PromisedInv, NEW r \in Requests, VerifyConsume(r) \/ DisableClear(r)
    PROVE  PromisedInv'
<1> DEFINE u == req[r].user
<1>0. acct \in [Users -> Account] /\ promised \in [Users -> SUBSET Codes]
  BY DEF TypeInv, TypeOK
<1>1. u \in Users /\ doubled' = doubled
  BY DEF VerifyConsume, DisableClear, TypeInv, RequestOK, At
<1>2. \A v \in Users \ {u} : acct'[v] = acct[v] /\ promised'[v] = promised[v]
  BY <1>0, <1>1 DEF VerifyConsume, DisableClear
<1>3. \/ /\ acct'[u].codes = acct[u].codes \ {req[r].code}
         /\ acct'[u].secret = acct[u].secret
         /\ promised'[u] = promised[u] \ {req[r].code}
      \/ acct'[u].codes = {} /\ acct'[u].secret = None /\ promised'[u] = {}
  <2>1. /\ ConsumeBackupCode(acct[u], req[r].code).codes = acct[u].codes \ {req[r].code}
        /\ ConsumeBackupCode(acct[u], req[r].code).secret = acct[u].secret
        /\ ClearTOTP(acct[u]).codes = {} /\ ClearTOTP(acct[u]).secret = None
    BY <1>0, <1>1 DEF ConsumeBackupCode, ClearTOTP, Account
  <2>2. \/ /\ acct'[u] = ConsumeBackupCode(acct[u], req[r].code)
           /\ promised'[u] = promised[u] \ {req[r].code}
        \/ acct'[u] = ClearTOTP(acct[u]) /\ promised'[u] = {}
    BY <1>0, <1>1 DEF VerifyConsume, DisableClear
  <2> QED
    BY <2>1, <2>2
<1>4. \A s \in Requests : At(s, "enableSet")' => At(s, "enableSet") /\ req'[s] = req[s]
  BY DEF VerifyConsume, DisableClear, Done, Idle, At, TypeInv, TypeOK, Request
<1>5. StoredPromised'
  BY <1>1, <1>2, <1>3 DEF PromisedInv, StoredPromised
<1>6. CodesOfEnrolled'
  BY <1>1, <1>2, <1>3 DEF PromisedInv, CodesOfEnrolled, Enrolled
<1>7. EnablesUnenrolled'
  BY <1>1, <1>2, <1>3, <1>4 DEF PromisedInv, EnablesUnenrolled, Enrolled, At, TypeInv, RequestOK
<1>8. EnablesAlone'
  BY <1>1, <1>4 DEF PromisedInv, EnablesAlone
<1> QED
  BY <1>5, <1>6, <1>7, <1>8 DEF PromisedInv

LEMMA StepPromisedInv == TypeInv /\ PromisedInv /\ [Next]_vars => PromisedInv'
<1> SUFFICES ASSUME TypeInv, PromisedInv, [Next]_vars PROVE PromisedInv'
  OBVIOUS
<1>1. CASE UNCHANGED vars
  BY <1>1 DEF PromisedInv, StoredPromised, CodesOfEnrolled, EnablesUnenrolled, EnablesAlone,
     At, vars, history
<1>2. CASE Next
  <2>1. CASE /\ secretOf' = secretOf /\ unspentOf' = unspentOf
             /\ promised' = promised /\ doubled' = doubled
             /\ \A r \in Requests : At(r, "enableSet")' => At(r, "enableSet") /\ req'[r] = req[r]
    <3>1. \A u \in Users : acct'[u].secret = acct[u].secret /\ acct'[u].codes = acct[u].codes
      <4> TAKE u \in Users
      <4>1. secretOf[u] = acct[u].secret /\ secretOf'[u] = acct'[u].secret
        BY DEF secretOf
      <4>2. unspentOf[u] = acct[u].codes /\ unspentOf'[u] = acct'[u].codes
        BY DEF unspentOf
      <4> QED
        BY <2>1, <4>1, <4>2
    <3>2. StoredPromised' /\ CodesOfEnrolled'
      BY <2>1, <3>1 DEF PromisedInv, StoredPromised, CodesOfEnrolled, Enrolled
    <3>3. EnablesUnenrolled' /\ EnablesAlone'
      BY <2>1, <3>1 DEF PromisedInv, EnablesUnenrolled, EnablesAlone, Enrolled, At,
         TypeInv, RequestOK
    <3> QED
      BY <3>2, <3>3 DEF PromisedInv
  <2>2. CASE ~\E r \in Requests, c \in cookies, pw \in Passwords, drawn \in SUBSET Codes :
                 EnableRead(r, c, pw, drawn)
    BY <1>2, <2>1, <2>2, SecurityFrame, EnrolmentFrame, DoubledFrame, EnableSetFrame,
       EnableSetPromised, CodesLeavePromised
  <2> QED
    BY <1>2, <2>2, EnableReadPromised
<1> QED
  BY <1>1, <1>2

(* For any users, requests and interleaving: a backup code a user was      *)
(* shown stays in the storage until it is used or dropped, unless two      *)
(* enables of that user were under way at once.                            *)
THEOREM PromisedCodes == Spec => []PromisedCodesWork
<1>1. TypeInv /\ PromisedInv => PromisedCodesWork
  BY DEF PromisedInv, StoredPromised, PromisedCodesWork, TypeInv, TypeOK
<1> QED
  BY <1>1, InitTypeInv, StepTypeInv, InitPromisedInv, StepPromisedInv, PTL DEF Spec

(* What the README says of backup codes holds without an exception where   *)
(* requests are served one at a time.                                      *)
THEOREM PromisedCodesOneByOne ==
    ASSUME \A r, s \in Requests : r = s
    PROVE  Spec => []PromisedCodesAlwaysWork
<1> DEFINE Never == doubled = {}
<1>1. Init => Never
  BY DEF Init
<1>2. TypeInv /\ Never /\ [Next]_vars => Never'
  <2> SUFFICES ASSUME TypeInv, Never, [Next]_vars PROVE Never'
    OBVIOUS
  <2>1. ASSUME NEW r \in Requests, NEW c \in cookies, NEW pw \in Passwords,
               NEW drawn \in SUBSET Codes, EnableRead(r, c, pw, drawn)
        PROVE  Never'
    BY <2>1 DEF EnableRead, At
  <2> QED
    BY <2>1, DoubledFrame DEF vars, history
<1>3. TypeInv /\ Never /\ PromisedInv => PromisedCodesAlwaysWork
  BY DEF PromisedInv, StoredPromised, PromisedCodesAlwaysWork, TypeInv, TypeOK
<1> QED
  BY <1>1, <1>2, <1>3, InitTypeInv, StepTypeInv, InitPromisedInv, StepPromisedInv, PTL DEF Spec

----------------------------------------------------------------------------
(* Pending secrets.  EnrolledOwnSecret fails because a login leaves the    *)
(* pending secret of the session's last user in place.  That is the only   *)
(* way: where no user logs in over another's pending secret, every secret  *)
(* in a login's session, in an enable under way and in the storage was     *)
(* drawn for the user it serves.                                           *)
OwnBrowser ==
    \A r \in Requests :
        req[r].pc \in {"loginIssue", "verifyReset"} /\ req[r].cookie.psec # None =>
            owner[req[r].cookie.psec] = req[r].user

OwnPending(c) == c.uid # None /\ c.psec # None => owner[c.psec] = c.uid

SignedSent ==
    /\ NoSession \in cookies
    /\ \A r \in Requests : req[r].cookie \in cookies

SecretInv ==
    /\ SignedSent
    /\ \A c \in cookies : OwnPending(c)
    /\ \A r \in Requests : At(r, "enableSet") => owner[req[r].cookie.psec] = req[r].user
    /\ \A u \in Users : Enrolled(acct[u]) => owner[acct[u].secret] = u

LEMMA InitSecretInv == Init => SecretInv
<1> SUFFICES ASSUME Init PROVE SecretInv
  OBVIOUS
<1>0. acct \in [Users -> Account]
  BY InitTypeInv DEF TypeInv, TypeOK
<1>1. cookies = {NoSession} /\ \A r \in Requests : req[r] = Idle
  BY DEF Init
<1>2. SignedSent /\ \A c \in cookies : OwnPending(c)
  BY <1>1 DEF SignedSent, OwnPending, Idle, NoSession
<1>3. \A r \in Requests : ~At(r, "enableSet")
  BY <1>1 DEF Idle, At
<1>4. ASSUME NEW u \in Users, Enrolled(acct[u]) PROVE owner[acct[u].secret] = u
  <2> DEFINE x == acct[u].secret
  <2>1. x \in Secrets
    BY <1>0, <1>4, StorageTypes DEF Enrolled
  <2>2. ASSUME NEW v \in Users, x \in acct[v].codes \cup {acct[v].secret} PROVE v = u
    <3>1. x \notin acct[v].codes
      BY <1>0, <2>1, StorageTypes, StorageConstants
    <3> QED
      BY <1>4, <2>2, <3>1, InitialTablesAssumption DEF Init
  <2>3. owner[x] = CHOOSE v \in Users : x \in acct[v].codes \cup {acct[v].secret}
    BY <2>1 DEF Init
  <2> QED
    BY <2>2, <2>3
<1> QED
  BY <1>2, <1>3, <1>4 DEF SecretInv

(* The owner of a secret never changes.                                    *)
LEMMA OwnersStay ==
    ASSUME TypeInv, Next, NEW x \in Secrets, owner[x] # None
    PROVE  owner'[x] = owner[x]
<1>1. ASSUME NEW r \in Requests, NEW c \in cookies, NEW pw \in Passwords,
             NEW drawn \in SUBSET Codes, EnableRead(r, c, pw, drawn)
      PROVE  owner'[x] = owner[x]
  BY <1>1, StorageConstants DEF EnableRead
<1>2. ASSUME NEW c \in cookies, NEW secret \in Secrets, Setup(c, secret)
      PROVE  owner'[x] = owner[x]
  BY <1>2 DEF Setup, TypeInv, TypeOK
<1> QED
  BY <1>1, <1>2, OwnerFrame

LEMMA StepOwnPending ==
    ASSUME TypeInv, SecretInv, OwnBrowser, Next
    PROVE  \A c \in cookies' : OwnPending(c)'
<1> DEFINE Own(c) == c.uid # None /\ c.psec # None => owner'[c.psec] = c.uid
<1>a. \A c \in cookies : c \in Session /\ c.uid \in Users \cup {None} /\ c.psec \in Secrets \cup {None}
  BY SessionTypes DEF TypeInv, TypeOK
<1>b. ASSUME NEW c \in cookies PROVE Own(c)
  BY <1>a, <1>b, OwnersStay DEF SecretInv, OwnPending
<1>c. ASSUME NEW r \in Requests PROVE req[r].cookie \in cookies
  BY DEF SecretInv, SignedSent
<1>d. ASSUME NEW c \in Session
      PROVE  /\ EndPending(c) \in Session
             /\ EndPending(c).uid = c.uid /\ EndPending(c).psec = c.psec
             /\ \A u : LoginSession(c, u).uid = u /\ LoginSession(c, u).psec = c.psec
             /\ \A x : [c EXCEPT !.psec = x].uid = c.uid /\ [c EXCEPT !.psec = x].psec = x
  BY SessionTypes DEF Session, EndPending, LoginSession
<1>e. ASSUME NEW c \in cookies PROVE Own(EndPending(c))
  BY <1>a, <1>b, <1>d
<1>f. ASSUME NEW r \in Requests, req[r].pc \in {"loginIssue", "verifyReset"},
             req[r].cookie.psec # None
      PROVE  owner'[req[r].cookie.psec] = req[r].user
  <2>1. req[r].cookie.psec \in Secrets /\ req[r].user \in Users
    BY <1>a, <1>c, <1>f DEF TypeInv, RequestOK
  <2>2. owner[req[r].cookie.psec] = req[r].user /\ req[r].user # None
    BY <1>f, <2>1, StorageConstants DEF OwnBrowser
  <2> QED
    BY <2>1, <2>2, OwnersStay
<1>1. ASSUME NEW r \in Requests, LoginIssueSession(r) PROVE \A c \in cookies' : Own(c)
  <2> DEFINE d == LoginSession(req[r].cookie, req[r].user)
  <2>1. d.uid = req[r].user /\ d.psec = req[r].cookie.psec
    BY <1>a, <1>c, <1>d
  <2>2. Own(d)
    BY <1>1, <1>f, <2>1 DEF LoginIssueSession, At
  <2> QED
    BY <1>1, <1>b, <2>2 DEF LoginIssueSession
<1>2. ASSUME NEW r \in Requests, LoginIssuePending(r) PROVE \A c \in cookies' : Own(c)
  <2> DEFINE d == PendingSession(req[r].cookie, req[r].user, now + PendingTTL)
  <2>1. d.uid = None
    BY <1>a, <1>c DEF PendingSession, Session
  <2>2. cookies' \subseteq cookies \cup {d}
    BY <1>2 DEF LoginIssuePending
  <2> HIDE DEF d
  <2> QED
    BY <1>b, <2>1, <2>2
<1>3. ASSUME NEW r \in Requests, VerifyExhausted(r) \/ VerifyWrong(r) \/ VerifyConsumeLost(r)
      PROVE  \A c \in cookies' : Own(c)
  <2>1. cookies' \subseteq cookies \cup {EndPending(req[r].cookie)}
    BY <1>3 DEF VerifyExhausted, VerifyWrong, VerifyConsumeLost, RejectCode
  <2> QED
    BY <1>b, <1>c, <1>e, <2>1
<1>4. ASSUME NEW r \in Requests, VerifyReset(r) PROVE \A c \in cookies' : Own(c)
  <2> DEFINE ended == EndPending(req[r].cookie)
             d == LoginSession(ended, req[r].user)
  <2>1. Own(ended) /\ ended \in Session /\ ended.psec = req[r].cookie.psec
    BY <1>a, <1>c, <1>d, <1>e
  <2>2. d.uid = req[r].user /\ d.psec = req[r].cookie.psec
    BY <1>d, <2>1
  <2>3. Own(d)
    BY <1>4, <1>f, <2>2 DEF VerifyReset, At
  <2>4. cookies' \subseteq cookies \cup {ended, d}
    BY <1>4 DEF VerifyReset
  <2> HIDE DEF ended, d
  <2> QED
    BY <1>b, <2>1, <2>3, <2>4
<1>5. ASSUME NEW r \in Requests, NEW saved \in BOOLEAN, EnableSet(r, saved)
      PROVE  \A c \in cookies' : Own(c)
  <2>1. [req[r].cookie EXCEPT !.psec = None].psec = None
    BY <1>a, <1>c, <1>d
  <2>2. cookies' \subseteq cookies \cup {[req[r].cookie EXCEPT !.psec = None]}
    BY <1>5 DEF EnableSet
  <2> QED
    BY <1>b, <2>1, <2>2
<1>6. ASSUME NEW c \in cookies, VerifyExpired(c) PROVE \A d \in cookies' : Own(d)
  BY <1>6, <1>b, <1>e DEF VerifyExpired
<1>7. ASSUME NEW c \in cookies, NEW secret \in Secrets, Setup(c, secret)
      PROVE  \A d \in cookies' : Own(d)
  <2>1. /\ [c EXCEPT !.psec = secret].uid = c.uid
        /\ [c EXCEPT !.psec = secret].psec = secret
    BY <1>a, <1>d
  <2>2. owner'[secret] = c.uid
    BY <1>7 DEF Setup, TypeInv, TypeOK
  <2> QED
    BY <1>7, <1>b, <2>1, <2>2 DEF Setup
<1>8. \A c \in cookies' : Own(c)
  BY CookieFrame, <1>b, <1>1, <1>2, <1>3, <1>4, <1>5, <1>6, <1>7
<1> QED
  BY <1>8 DEF OwnPending

LEMMA StepSecretInv == TypeInv /\ SecretInv /\ OwnBrowser /\ [Next]_vars => SecretInv'
<1> SUFFICES ASSUME TypeInv, SecretInv, OwnBrowser, [Next]_vars PROVE SecretInv'
  OBVIOUS
<1>a. CASE UNCHANGED vars
  BY <1>a DEF SecretInv, SignedSent, OwnPending, At, vars, history
<1>b. CASE Next
  <2>0. acct \in [Users -> Account] /\ req \in [Requests -> Request]
    BY DEF TypeInv, TypeOK
  <2>1. SignedSent'
    BY <1>b, SentCookies DEF SecretInv, SignedSent
  <2>2. \A c \in cookies' : OwnPending(c)'
    BY <1>b, StepOwnPending
  <2>3. ASSUME NEW s \in Requests, At(s, "enableSet")'
        PROVE  owner'[req'[s].cookie.psec] = req'[s].user
    <3>1. CASE At(s, "enableSet") /\ req'[s] = req[s]
      <4>1. req[s].cookie.psec \in Secrets /\ req[s].user \in Users
        BY <3>1 DEF TypeInv, RequestOK, At
      <4>2. owner[req[s].cookie.psec] = req[s].user
        BY <3>1 DEF SecretInv
      <4> QED
        BY <1>b, <3>1, <4>1, <4>2, OwnersStay, StorageConstants
    <3>2. ASSUME NEW r \in Requests, NEW c \in cookies, NEW pw \in Passwords,
                 NEW drawn \in SUBSET Codes, EnableRead(r, c, pw, drawn), s = r
          PROVE  owner'[req'[s].cookie.psec] = req'[s].user
      <4>1. c.uid \in Users /\ c.psec \in Secrets
        BY <3>2, SessionTypes DEF EnableRead, Authenticated, TypeInv, TypeOK
      <4>2. owner[c.psec] = c.uid
        BY <4>1, StorageConstants DEF SecretInv, OwnPending
      <4>3. req'[s].cookie = c /\ req'[s].user = c.uid
        BY <2>0, <3>2 DEF EnableRead, Idle
      <4> QED
        BY <1>b, <4>1, <4>2, <4>3, OwnersStay, StorageConstants
    <3>3. ASSUME NEW r \in Requests, NEW c \in cookies, NEW pw \in Passwords,
                 NEW drawn \in SUBSET Codes, EnableRead(r, c, pw, drawn), s # r
          PROVE  At(s, "enableSet") /\ req'[s] = req[s]
      BY <2>0, <2>3, <3>3 DEF EnableRead, At
    <3> QED
      BY <1>b, <2>3, <3>1, <3>2, <3>3, EnableSetFrame
  <2>4. ASSUME NEW u \in Users, Enrolled(acct'[u]) PROVE owner'[acct'[u].secret] = u
    <3>1. CASE acct'[u].secret = acct[u].secret
      <4>1. acct[u].secret \in Secrets /\ owner[acct[u].secret] = u
        BY <2>0, <2>4, <3>1, StorageTypes DEF Enrolled, SecretInv
      <4> QED
        BY <1>b, <3>1, <4>1, OwnersStay, StorageConstants
    <3>2. ASSUME NEW r \in Requests, NEW saved \in BOOLEAN, EnableSet(r, saved)
          PROVE  owner'[acct'[u].secret] = u
      <4> DEFINE v == req[r].user
                 b == SetTOTP(acct[v], req[r].cookie.psec, req[r].codes)
      <4>1. v \in Users /\ owner[req[r].cookie.psec] = v /\ owner' = owner
        BY <3>2 DEF EnableSet, SecretInv, TypeInv, RequestOK, At
      <4>2. acct' = [acct EXCEPT ![v] = b]
        BY <2>0, <3>2, <4>1 DEF EnableSet
      <4>3. b.secret = req[r].cookie.psec
        BY <2>0, <4>1 DEF SetTOTP, Account
      <4> HIDE DEF b
      <4>4. CASE u = v
        BY <2>0, <4>1, <4>2, <4>3, <4>4
      <4>5. CASE u # v
        BY <2>0, <3>1, <4>2, <4>5
      <4> QED
        BY <4>4, <4>5
    <3>3. ASSUME NEW r \in Requests, VerifyConsume(r) PROVE acct'[u].secret = acct[u].secret
      <4> DEFINE v == req[r].user
                 b == ConsumeBackupCode(acct[v], req[r].code)
      <4>1. v \in Users
        BY <3>3 DEF VerifyConsume, TypeInv, RequestOK, At
      <4>2. acct' = [acct EXCEPT ![v] = b]
        BY <2>0, <3>3, <4>1 DEF VerifyConsume
      <4>3. b.secret = acct[v].secret
        BY <2>0, <4>1 DEF ConsumeBackupCode, Account
      <4> HIDE DEF b
      <4> QED
        BY <2>0, <4>2, <4>3
    <3>4. ASSUME NEW r \in Requests, DisableClear(r) PROVE acct'[u].secret = acct[u].secret
      <4> DEFINE v == req[r].user
                 b == ClearTOTP(acct[v])
      <4>1. v \in Users
        BY <3>4 DEF DisableClear, TypeInv, RequestOK, At
      <4>2. acct' = [acct EXCEPT ![v] = b]
        BY <2>0, <3>4, <4>1 DEF DisableClear
      <4>3. b.secret = None
        BY <2>0, <4>1 DEF ClearTOTP, Account
      <4> HIDE DEF b
      <4> QED
        BY <2>0, <2>4, <4>2, <4>3 DEF Enrolled
    <3>5. ASSUME secretOf' = secretOf PROVE acct'[u].secret = acct[u].secret
      <4>1. secretOf[u] = acct[u].secret /\ secretOf'[u] = acct'[u].secret
        BY DEF secretOf
      <4> QED
        BY <3>5, <4>1
    <3> QED
      BY <1>b, <3>1, <3>2, <3>3, <3>4, <3>5, SecurityFrame
  <2> QED
    BY <2>1, <2>2, <2>3, <2>4 DEF SecretInv
<1> QED
  BY <1>a, <1>b

(* For any users, requests and interleaving: an account gets a secret that *)
(* was not drawn for it only if somebody logs in over the pending secret   *)
(* of somebody else.                                                       *)
THEOREM OwnSecrets == Spec /\ []OwnBrowser => []EnrolledOwnSecret
<1>1. TypeInv /\ SecretInv => EnrolledOwnSecret
  BY DEF SecretInv, EnrolledOwnSecret, TypeInv, TypeOK
<1> QED
  BY <1>1, InitTypeInv, StepTypeInv, InitSecretInv, StepSecretInv, PTL DEF Spec

----------------------------------------------------------------------------
(* Where the user of a request comes from.                                 *)
LEMMA UserFrame ==
    ASSUME TypeInv, Next, NEW s \in Requests, req'[s].pc # "idle"
    PROVE  \/ req[s].pc # "idle" /\ req'[s].user = req[s].user
           \/ \E c \in cookies : req'[s].user \in {c.uid, c.pend} \ {None}
           \/ \E pw \in Passwords : /\ req'[s].user \in Users
                                    /\ LoginPassword(pw, acct[req'[s].user].hash)
<1> DEFINE Same == req[s].pc # "idle" /\ req'[s].user = req[s].user
           Sent == \E c \in cookies : req'[s].user \in {c.uid, c.pend} \ {None}
<1>0. req \in [Requests -> Request]
  BY DEF TypeInv, TypeOK
<1>1. ASSUME req'[s] = req[s] PROVE Same
  BY <1>1
<1>2. ASSUME NEW r \in Requests, Done(r) PROVE Same
  BY <1>0, <1>2 DEF Done, Idle
<1>3. ASSUME NEW r \in Requests, NEW c \in cookies, NEW u \in Users, NEW pw \in Passwords,
             LoginRead(r, u, pw, c)
      PROVE  Same \/ /\ req'[s].user \in Users
                     /\ LoginPassword(pw, acct[req'[s].user].hash)
  <2>1. CASE s = r
    <3>1. req'[s].user = u
      BY <1>0, <1>3, <2>1 DEF LoginRead, Idle
    <3> QED
      BY <1>3, <3>1 DEF LoginRead
  <2>2. CASE s # r
    BY <1>0, <1>1, <1>3, <2>2 DEF LoginRead
  <2> QED
    BY <2>1, <2>2
<1>4. ASSUME NEW r \in Requests, NEW c \in cookies, VerifyBegin(r, c) PROVE Same \/ Sent
  <2>1. CASE s = r
    BY <1>0, <1>4, <2>1 DEF VerifyBegin, Idle
  <2>2. CASE s # r
    BY <1>0, <1>1, <1>4, <2>2 DEF VerifyBegin
  <2> QED
    BY <2>1, <2>2
<1>5. ASSUME NEW r \in Requests, NEW c \in cookies, NEW pw \in Passwords,
             \/ \E drawn \in SUBSET Codes : EnableRead(r, c, pw, drawn)
             \/ DisableRead(r, c, pw)
      PROVE  Same \/ Sent
  <2>1. CASE s = r
    <3>1. c.uid \in Users
      BY <1>5 DEF EnableRead, DisableRead, Authenticated, TypeInv, TypeOK
    <3>2. req'[s].user = c.uid
      BY <1>0, <1>5, <2>1 DEF EnableRead, DisableRead, Idle
    <3> QED
      BY <3>1, <3>2, StorageConstants
  <2>2. CASE s # r
    BY <1>0, <1>1, <1>5, <2>2 DEF EnableRead, DisableRead
  <2> QED
    BY <2>1, <2>2
<1>6. ASSUME NEW r \in Requests,
             UpgradeRead(r) \/ UpgradeWrite(r) \/ UpgradeFails(r) \/ VerifyReserve(r) \/ VerifyConsume(r)
      PROVE  Same
  BY <1>0, <1>6 DEF UpgradeRead, UpgradeWrite, UpgradeFails, ContinueLogin, Goto,
     VerifyReserve, VerifyConsume, At, Request
<1>7. ASSUME NEW r \in Requests, NEW x, VerifyTOTP(r, x) \/ VerifyBackupMatch(r, x) PROVE Same
  BY <1>0, <1>7 DEF VerifyTOTP, VerifyBackupMatch, At, Request
<1>8. ASSUME NEW r \in Requests, VerifyRead(r) PROVE Same
  BY <1>0, <1>2, <1>8 DEF VerifyRead, At, Request
<1>9. ASSUME NEW r \in Requests,
              \/ LoginIssueSession(r) \/ LoginIssuePending(r) \/ VerifyExhausted(r)
              \/ VerifyWrong(r) \/ VerifyConsumeLost(r) \/ VerifyReset(r)
              \/ (\E saved \in BOOLEAN : EnableSet(r, saved)) \/ DisableClear(r) \/ CallFails(r)
      PROVE  Same
  BY <1>2, <1>9 DEF LoginIssueSession, LoginIssuePending, VerifyExhausted, VerifyWrong,
     VerifyConsumeLost, VerifyReset, EnableSet, DisableClear, CallFails, RejectCode
<1>10. ASSUME \/ \E c \in cookies : VerifyExpired(c)
              \/ \E c \in cookies, secret \in Secrets : Setup(c, secret)
              \/ \E u \in Users, pw \in Passwords : ResetPassword(u, pw)
              \/ \E u \in Users : DeleteUser(u)
              \/ Tick
       PROVE  Same
  BY <1>1, <1>10 DEF VerifyExpired, Setup, ResetPassword, DeleteUser, Tick
<1> QED
  BY NextCases, <1>3, <1>4, <1>5, <1>6, <1>7, <1>8, <1>9, <1>10

(* The users a session or a request under way names.                       *)
Named ==
    {c.uid : c \in cookies} \cup {c.pend : c \in cookies}
        \cup {req[r].user : r \in {s \in Requests : req[s].pc # "idle"}}

(* A new session value names nobody that is not named already.             *)
LEMMA SignedUsers ==
    ASSUME TypeInv, SignedSent, Next, NEW d \in cookies'
    PROVE  d.uid \in Named \cup {None} /\ d.pend \in Named \cup {None}
<1> DEFINE Old(x) == x \in Named \cup {None}
<1>a. ASSUME NEW c \in cookies PROVE c \in Session /\ Old(c.uid) /\ Old(c.pend)
  BY DEF Named, TypeInv, TypeOK
<1>b. ASSUME NEW r \in Requests
      PROVE  req[r].cookie \in cookies /\ (req[r].pc # "idle" => Old(req[r].user))
  BY DEF Named, SignedSent
<1> HIDE DEF Old
<1>c. Old(None)
  BY DEF Old
<1>d. ASSUME NEW c \in Session
      PROVE  /\ EndPending(c) \in Session
             /\ EndPending(c).uid = c.uid /\ EndPending(c).pend = None
             /\ \A u : LoginSession(c, u).uid = u /\ LoginSession(c, u).pend = c.pend
             /\ \A x : [c EXCEPT !.psec = x].uid = c.uid /\ [c EXCEPT !.psec = x].pend = c.pend
  BY SessionTypes DEF Session, EndPending, LoginSession
<1> DEFINE Fine(e) == Old(e.uid) /\ Old(e.pend)
<1>1. ASSUME NEW r \in Requests, LoginIssueSession(r) PROVE Fine(d)
  <2> DEFINE e == LoginSession(req[r].cookie, req[r].user)
  <2>1. e.uid = req[r].user /\ e.pend = req[r].cookie.pend /\ cookies' = cookies \cup {e}
    BY <1>1, <1>a, <1>b, <1>d DEF LoginIssueSession
  <2> HIDE DEF e
  <2> QED
    BY <1>1, <1>a, <1>b, <2>1 DEF LoginIssueSession, At
<1>2. ASSUME NEW r \in Requests, LoginIssuePending(r) PROVE Fine(d)
  <2> DEFINE e == PendingSession(req[r].cookie, req[r].user, now + PendingTTL)
  <2>1. e.uid = None /\ e.pend = req[r].user
    BY <1>a, <1>b DEF PendingSession, Session
  <2>2. cookies' \subseteq cookies \cup {e}
    BY <1>2 DEF LoginIssuePending
  <2> HIDE DEF e
  <2> QED
    BY <1>2, <1>a, <1>b, <1>c, <2>1, <2>2 DEF LoginIssuePending, At
<1>3. ASSUME NEW r \in Requests, VerifyExhausted(r) \/ VerifyWrong(r) \/ VerifyConsumeLost(r)
      PROVE  Fine(d)
  <2>1. cookies' \subseteq cookies \cup {EndPending(req[r].cookie)}
    BY <1>3 DEF VerifyExhausted, VerifyWrong, VerifyConsumeLost, RejectCode
  <2> QED
    BY <1>a, <1>b, <1>c, <1>d, <2>1
<1>4. ASSUME NEW r \in Requests, VerifyReset(r) PROVE Fine(d)
  <2> DEFINE ended == EndPending(req[r].cookie)
             e == LoginSession(ended, req[r].user)
  <2>1. ended \in Session /\ ended.uid = req[r].cookie.uid /\ ended.pend = None
    BY <1>a, <1>b, <1>d
  <2>2. e.uid = req[r].user /\ e.pend = None
    BY <1>d, <2>1
  <2>3. cookies' \subseteq cookies \cup {ended, e}
    BY <1>4 DEF VerifyReset
  <2> HIDE DEF ended, e
  <2> QED
    BY <1>4, <1>a, <1>b, <1>c, <2>1, <2>2, <2>3 DEF VerifyReset, At
<1>5. ASSUME NEW r \in Requests, NEW saved \in BOOLEAN, EnableSet(r, saved) PROVE Fine(d)
  <2> DEFINE e == [req[r].cookie EXCEPT !.psec = None]
  <2>1. e.uid = req[r].cookie.uid /\ e.pend = req[r].cookie.pend
    BY <1>a, <1>b, <1>d
  <2>2. cookies' \subseteq cookies \cup {e}
    BY <1>5 DEF EnableSet
  <2> HIDE DEF e
  <2> QED
    BY <1>a, <1>b, <2>1, <2>2
<1>6. ASSUME NEW c \in cookies, VerifyExpired(c) PROVE Fine(d)
  BY <1>6, <1>a, <1>c, <1>d DEF VerifyExpired
<1>7. ASSUME NEW c \in cookies, NEW secret \in Secrets, Setup(c, secret) PROVE Fine(d)
  <2> DEFINE e == [c EXCEPT !.psec = secret]
  <2>1. e.uid = c.uid /\ e.pend = c.pend
    BY <1>a, <1>d
  <2>2. cookies' = cookies \cup {e}
    BY <1>7 DEF Setup
  <2> HIDE DEF e
  <2> QED
    BY <1>a, <2>1, <2>2
<1>8. Fine(d)
  BY CookieFrame, <1>a, <1>1, <1>2, <1>3, <1>4, <1>5, <1>6, <1>7
<1> QED
  BY <1>8 DEF Old

(* A native hash is only ever replaced by a native one.                    *)
LEMMA NativeStays ==
    ASSUME TypeInv, Next, NEW u \in Users, Parseable(acct[u].hash)
    PROVE  Parseable(acct'[u].hash)
<1>0. \A pw : Parseable(Argon2id(pw))
  BY DEF Parseable, Argon2id
<1> QED
  BY <1>0, HashFrame, WriteHash, ResetHash

(* Without a legacy verifier everybody who gets past the password step has *)
(* a hash that VerifyPassword can read, and keeps it.                      *)
NativeUsers ==
    /\ SignedSent
    /\ \A u \in Named \ {None} : u \in Users /\ Parseable(acct[u].hash)

LEMMA InitNativeUsers == Init => NativeUsers
  BY DEF Init, NativeUsers, SignedSent, Named, Idle, NoSession

LEMMA StepNativeUsers ==
    ASSUME ~LegacyVerifier, TypeInv, NativeUsers, [Next]_vars
    PROVE  NativeUsers'
<1>a. CASE UNCHANGED vars
  BY <1>a DEF NativeUsers, SignedSent, Named, vars, history
<1>b. CASE Next
  <2>1. SignedSent'
    BY <1>b, SentCookies DEF NativeUsers, SignedSent
  <2>2. ASSUME NEW u \in Named' \ {None}
        PROVE  u \in Users /\ Parseable(acct[u].hash)
    <3>1. ASSUME NEW d \in cookies', u \in {d.uid, d.pend} PROVE u \in Named
      BY <1>b, <2>2, <3>1, SignedUsers DEF NativeUsers
    <3>2. ASSUME NEW s \in Requests, req'[s].pc # "idle", u = req'[s].user
          PROVE  \/ u \in Named
                 \/ u \in Users /\ Parseable(acct[u].hash)
      <4>1. CASE req[s].pc # "idle" /\ req'[s].user = req[s].user
        BY <3>2, <4>1 DEF Named
      <4>2. CASE \E c \in cookies : req'[s].user \in {c.uid, c.pend} \ {None}
        BY <3>2, <4>2 DEF Named
      <4>3. ASSUME NEW pw \in Passwords, u \in Users, LoginPassword(pw, acct[u].hash)
            PROVE  Parseable(acct[u].hash)
        BY <4>3 DEF LoginPassword, VerifyPassword
      <4> QED
        BY <1>b, <3>2, <4>1, <4>2, <4>3, UserFrame
    <3>3. \/ \E d \in cookies' : u \in {d.uid, d.pend}
          \/ \E s \in Requests : req'[s].pc # "idle" /\ u = req'[s].user
      BY <2>2 DEF Named
    <3> QED
      BY <2>2, <3>1, <3>2, <3>3 DEF NativeUsers
  <2> QED
    BY <1>b, <2>1, <2>2, NativeStays DEF NativeUsers
<1> QED
  BY <1>a, <1>b

(* Where no legacy verifier is configured, for any users, requests and     *)
(* interleaving: whoever is logged in can confirm with the same password   *)
(* at /tfa/enable and /tfa/disable.                                        *)
THEOREM PasswordReverifies ==
    ASSUME ~LegacyVerifier
    PROVE  Spec => []CurrentPasswordReverifies
<1>1. TypeInv /\ NativeUsers => CurrentPasswordReverifies
  BY StorageConstants DEF NativeUsers, Named, CurrentPasswordReverifies, VerifyPassword,
     TypeInv, TypeOK
<1>2. TypeInv /\ NativeUsers /\ [Next]_vars => NativeUsers'
  BY StepNativeUsers
<1> QED
  BY <1>1, <1>2, InitTypeInv, StepTypeInv, InitNativeUsers, PTL DEF Spec

----------------------------------------------------------------------------

(* How many calls a handler has before it at most, its answer included.    *)
CallsLeft ==
    [upgradeRead |-> 3, upgradeWrite |-> 2, loginIssue |-> 1,
     verifyRead |-> 5, verifyReserve |-> 4, verifyCheck |-> 3, verifyConsume |-> 2,
     verifyReset |-> 1, enableSet |-> 1, disableClear |-> 1, idle |-> 0]

OwnStep(r) == Step(r) \/ UpgradeFails(r) \/ CallFails(r)

Upgrading(r) == At(r, "upgradeRead") \/ At(r, "upgradeWrite")

(* What RequestsFinish and VerifiedLoginContinues rest on beside fairness: *)
(* a handler under way is moved by its own steps only, each of which gets  *)
(* it nearer to its answer, and the upgrade leads to the session step.     *)
OnlyForward ==
    [][\A r \in Requests : ~At(r, "idle") =>
          /\ OwnStep(r) => CallsLeft[req[r].pc]' < CallsLeft[req[r].pc]
          /\ ~OwnStep(r) => req'[r] = req[r]
          /\ Upgrading(r) => Upgrading(r)' \/ At(r, "loginIssue")']_vars

LEMMA OwnStepForward ==
    ASSUME TypeInv, NEW r \in Requests, OwnStep(r)
    PROVE  /\ CallsLeft[req[r].pc]' < CallsLeft[req[r].pc]
           /\ \A s \in Requests \ {r} : req'[s] = req[s]
           /\ Upgrading(r) => Upgrading(r)' \/ At(r, "loginIssue")'
<1>1. req \in [Requests -> Request]
  BY DEF TypeInv, TypeOK
<1>2. CASE Done(r) /\ req[r].pc \notin {"idle", "upgradeRead", "upgradeWrite"}
  <2>1. req'[r].pc = "idle" /\ \A s \in Requests \ {r} : req'[s] = req[s]
    BY <1>1, <1>2 DEF Done, Idle
  <2> QED
    BY <1>1, <1>2, <2>1 DEF CallsLeft, Upgrading, At, Request
<1>3. ASSUME NEW pc \in {"upgradeWrite", "loginIssue"}, Upgrading(r),
             pc = "upgradeWrite" => At(r, "upgradeRead"),
             req'[r].pc = pc, \A s \in Requests \ {r} : req'[s] = req[s]
      PROVE  /\ CallsLeft[req[r].pc]' < CallsLeft[req[r].pc]
             /\ Upgrading(r)' \/ At(r, "loginIssue")'
  BY <1>3 DEF CallsLeft, Upgrading, At
<1>4. ASSUME UpgradeRead(r) \/ UpgradeWrite(r) \/ UpgradeFails(r)
      PROVE  /\ CallsLeft[req[r].pc]' < CallsLeft[req[r].pc]
             /\ \A s \in Requests \ {r} : req'[s] = req[s]
             /\ Upgrading(r)' \/ At(r, "loginIssue")'
  <2>1. /\ Upgrading(r)
        /\ req'[r].pc \in {"upgradeWrite", "loginIssue"}
        /\ req'[r].pc = "upgradeWrite" => At(r, "upgradeRead")
        /\ \A s \in Requests \ {r} : req'[s] = req[s]
    BY <1>1, <1>4 DEF UpgradeRead, UpgradeWrite, UpgradeFails, ContinueLogin, Goto, Upgrading, At, Request
  <2> QED
    BY <1>3, <2>1
<1>5. ASSUME NEW secret, NEW code,
             \/ VerifyRead(r) /\ ~Done(r)
             \/ VerifyReserve(r)
             \/ VerifyTOTP(r, secret)
             \/ VerifyBackupMatch(r, code)
             \/ VerifyConsume(r)
      PROVE  /\ CallsLeft[req[r].pc]' < CallsLeft[req[r].pc]
             /\ \A s \in Requests \ {r} : req'[s] = req[s]
             /\ ~Upgrading(r)
  <2>1. /\ \A s \in Requests \ {r} : req'[s] = req[s]
        /\ \/ At(r, "verifyRead") /\ req'[r].pc \in {"verifyReserve", "verifyCheck"}
           \/ At(r, "verifyReserve") /\ req'[r].pc = "verifyCheck"
           \/ At(r, "verifyCheck") /\ req'[r].pc \in {"verifyReset", "verifyConsume"}
           \/ At(r, "verifyConsume") /\ req'[r].pc = "verifyReset"
    BY <1>1, <1>5 DEF VerifyRead, VerifyReserve, VerifyTOTP, VerifyBackupMatch, VerifyConsume, Request
  <2> QED
    BY <2>1 DEF CallsLeft, Upgrading, At
<1>6. \/ Done(r) /\ req[r].pc \notin {"idle", "upgradeRead", "upgradeWrite"}
      \/ UpgradeRead(r) \/ UpgradeWrite(r) \/ UpgradeFails(r)
      \/ \E secret, code :
            \/ VerifyRead(r) /\ ~Done(r)
            \/ VerifyReserve(r)
            \/ VerifyTOTP(r, secret)
            \/ VerifyBackupMatch(r, code)
            \/ VerifyConsume(r)
  BY DEF OwnStep, Step, CallFails, LoginIssueSession, LoginIssuePending, VerifyRead,
     VerifyExhausted, VerifyWrong, VerifyConsumeLost, RejectCode, VerifyReset, EnableSet,
     DisableClear, At
<1> QED
  BY <1>2, <1>4, <1>5, <1>6 DEF Done

LEMMA OthersWait ==
    ASSUME TypeInv, NEW r \in Requests, ~At(r, "idle"), ~OwnStep(r), [Next]_vars
    PROVE  req'[r] = req[r]
<1>1. req \in [Requests -> Request]
  BY DEF TypeInv, TypeOK
<1>2. ASSUME NEW s \in Requests, OwnStep(s) PROVE req'[r] = req[r]
  BY <1>2, OwnStepForward
<1>3. ASSUME NEW s \in Requests, Arrive(s) PROVE req'[r] = req[r]
  <2>1. ASSUME NEW c, NEW u, NEW pw, NEW drawn,
               \/ LoginRead(s, u, pw, c)
               \/ VerifyBegin(s, c)
               \/ EnableRead(s, c, pw, drawn)
               \/ DisableRead(s, c, pw)
        PROVE  At(s, "idle") /\ \A t \in Requests \ {s} : req'[t] = req[t]
    <3>1. CASE LoginRead(s, u, pw, c)
      BY <1>1, <3>1 DEF LoginRead
    <3>2. CASE VerifyBegin(s, c)
      BY <1>1, <3>2 DEF VerifyBegin
    <3>3. CASE EnableRead(s, c, pw, drawn)
      BY <1>1, <3>3 DEF EnableRead
    <3>4. CASE DisableRead(s, c, pw)
      BY <1>1, <3>4 DEF DisableRead
    <3> QED
      BY <2>1, <3>1, <3>2, <3>3, <3>4
  <2>2. At(s, "idle") /\ \A t \in Requests \ {s} : req'[t] = req[t]
    BY <1>3, <2>1 DEF Arrive
  <2> QED
    BY <2>2
<1>4. CASE UNCHANGED req
  BY <1>4
<1> QED
  BY <1>2, <1>3, <1>4
     DEF Next, OwnStep, VerifyExpired, Setup, ResetPassword, DeleteUser, Tick, vars

(* For any number of requests: no handler goes round in circles, waits for *)
(* another's step to move it, or gives up a login because of its upgrade.  *)
THEOREM Forward == Spec => OnlyForward
<1>1. ASSUME TypeInv, [Next]_vars, NEW r \in Requests, ~At(r, "idle")
      PROVE  /\ OwnStep(r) => CallsLeft[req[r].pc]' < CallsLeft[req[r].pc]
             /\ ~OwnStep(r) => req'[r] = req[r]
             /\ Upgrading(r) => Upgrading(r)' \/ At(r, "loginIssue")'
  <2>1. CASE OwnStep(r)
    BY <1>1, <2>1, OwnStepForward
  <2>2. CASE ~OwnStep(r)
    BY <1>1, <2>2, OthersWait DEF Upgrading, At
  <2> QED
    BY <2>1, <2>2
<1>2. TypeInv /\ [Next]_vars =>
         [\A r \in Requests : ~At(r, "idle") =>
             /\ OwnStep(r) => CallsLeft[req[r].pc]' < CallsLeft[req[r].pc]
             /\ ~OwnStep(r) => req'[r] = req[r]
             /\ Upgrading(r) => Upgrading(r)' \/ At(r, "loginIssue")']_vars
  BY <1>1
<1> QED
  BY <1>2, InitTypeInv, StepTypeInv, PTL DEF Spec, OnlyForward

=============================================================================
