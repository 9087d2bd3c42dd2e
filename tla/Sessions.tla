------------------------------ MODULE Sessions ------------------------------
(***************************************************************************)
(* Session cookies in time.  The server keeps no sessions: a cookie says   *)
(* who is logged in or which challenge is open, is signed with the time,   *)
(* and is dropped by the browser after the Max-Age it came with.  Requests *)
(* of one user's browser overlap, their answers arrive in any order or not *)
(* at all, and a copy of a cookie may turn up later.                       *)
(*                                                                         *)
(* The clock ticks a fraction of a second; gorilla's codec and Max-Age     *)
(* count whole seconds.  What a login or code is checked against, and the  *)
(* sessions of several users, are in AuthServer.                           *)
(***************************************************************************)
EXTENDS Integers

CONSTANTS
    Requests,          \* request slots of the browser
    None,              \* no cookie
    Copied,            \* copies of cookies are sent, too
    Second,            \* clock ticks per second
    SessionExpiration, \* Settings.SessionExpiration, in clock ticks
    PendingSessionTTL, \* Settings.TFA.PendingSessionTTL, in clock ticks
    DefaultTTL,        \* five minutes, in clock ticks
    MaxTime,           \* bound on the clock
    MaxChallenges      \* bound on the challenges

ASSUME SessionConstants ==
    /\ Copied \in BOOLEAN
    /\ Second \in Nat \ {0}
    /\ SessionExpiration \in Nat /\ PendingSessionTTL \in Nat /\ DefaultTTL \in Nat \ {0}
    /\ MaxTime \in Nat /\ MaxChallenges \in Nat

VARIABLES
    now,        \* the clock
    enrolled,   \* the user has a second factor
    challenges, \* the number of challenges so far
    jar,        \* the browser's cookie and when it drops it
    copy,       \* a copy of some cookie
    req,        \* the browser's requests and their answers
    cancelled,  \* history: the challenges a logout has ended
    loose,      \* history: those of them that a copy or another request carried then
    revived     \* history: those of them that were finished afterwards

vars == <<now, enrolled, challenges, jar, copy, req, cancelled, loose, revived>>

(* "user_id", "pending_tfa_user_id" (0: none), "pending_tfa_expires_at".   *)
Values ==
    {v \in [login: BOOLEAN, pend: 0..MaxChallenges, pexp: Nat] : v.pend = 0 <=> v.pexp = 0}

NoValues == [login |-> FALSE, pend |-> 0, pexp |-> 0]

Cookie == [val: Values, signed: 0..MaxTime]

Request == [pc: {"idle", "sent", "answered"}, op: {"login", "verify", "logout", "setup"},
            cookie: Cookie \cup {None}, set: Cookie \cup {None}, maxAge: Int]

Idle == [pc |-> "idle", op |-> "login", cookie |-> None, set |-> None, maxAge |-> 0]

----------------------------------------------------------------------------

(* int(d.Seconds())                                                        *)
Seconds(d) == d \div Second

MaxAge == Seconds(SessionExpiration)

TTL == IF PendingSessionTTL <= 0 THEN DefaultTTL ELSE PendingSessionTTL

(* Faulty variant for mutation: the codec keeps its default of 30 days.    *)
ThirtyDays == 30 * 24 * 3600

(* store.MaxAge                                                            *)
CodecMaxAge == MaxAge

(* securecookie compares whole seconds, and not at all if the age is 0.    *)
Accepts(c, t) == CodecMaxAge = 0 \/ Seconds(t) - Seconds(c.signed) <= CodecMaxAge

(* What sessionStore.Get returns for the request's cookie.                 *)
Session(r) ==
    IF req[r].cookie # None /\ Accepts(req[r].cookie, now) THEN req[r].cookie.val ELSE NoValues

(* Faulty variant for mutation: the expiry stays in the session.           *)
KeepExpiry(v) == [v EXCEPT !.pend = 0]

EndPending(v) == [login |-> v.login, pend |-> 0, pexp |-> 0]

LoggedIn(v) == [login |-> TRUE, pend |-> v.pend, pexp |-> v.pexp]

(* The browser keeps a cookie without Max-Age until it is closed.          *)
Until(maxAge) == now + IF maxAge = 0 THEN MaxTime + 1 ELSE maxAge * Second

Sends(cookie) ==
    \/ cookie = None /\ (jar.cookie = None \/ now >= jar.until)
    \/ cookie # None /\ cookie = jar.cookie /\ now < jar.until
    \/ cookie # None /\ cookie = copy

----------------------------------------------------------------------------

Init ==
    /\ now = 0
    /\ enrolled \in BOOLEAN
    /\ challenges = 0
    /\ jar = [cookie |-> None, until |-> 0]
    /\ copy = None
    /\ req = [r \in Requests |-> Idle]
    /\ cancelled = {}
    /\ loose = {}
    /\ revived = {}

Tick ==
    /\ now < MaxTime
    /\ now' = now + 1
    /\ UNCHANGED <<enrolled, challenges, jar, copy, req, cancelled, loose, revived>>

(* The user enrols or gives the second factor up elsewhere.                *)
ChangeEnrolment ==
    /\ enrolled' = ~enrolled
    /\ UNCHANGED <<now, challenges, jar, copy, req, cancelled, loose, revived>>

KeepCopy ==
    /\ Copied
    /\ copy' = jar.cookie
    /\ UNCHANGED <<now, enrolled, challenges, jar, req, cancelled, loose, revived>>

Send(r, op, cookie) ==
    /\ req[r].pc = "idle"
    /\ Sends(cookie)
    /\ req' = [req EXCEPT ![r] = [pc |-> "sent", op |-> op, cookie |-> cookie,
                                  set |-> None, maxAge |-> 0]]
    /\ UNCHANGED <<now, enrolled, challenges, jar, copy, cancelled, loose, revived>>

Sent(r, op) == req[r].pc = "sent" /\ req[r].op = op

(* session.Save                                                            *)
Save(r, val, maxAge) ==
    req' = [req EXCEPT ![r] = [pc |-> "answered", op |-> req[r].op, cookie |-> None,
                               set |-> [val |-> val, signed |-> now], maxAge |-> maxAge]]

(* Faulty variant for mutation: the options of the pending session stay.   *)
ShortMaxAge == Seconds(TTL)

(* createSession                                                           *)
LoginMaxAge == MaxAge

Login(r) ==
    /\ Sent(r, "login")
    /\ ~enrolled
    /\ Save(r, LoggedIn(Session(r)), LoginMaxAge)
    /\ UNCHANGED <<now, enrolled, challenges, jar, copy, cancelled, loose, revived>>

(* createPendingTFASession                                                 *)
LoginPending(r) ==
    /\ Sent(r, "login")
    /\ enrolled
    /\ challenges < MaxChallenges
    /\ challenges' = challenges + 1
    /\ Save(r, [login |-> FALSE, pend |-> challenges + 1, pexp |-> now + TTL], Seconds(TTL))
    /\ UNCHANGED <<now, enrolled, jar, copy, cancelled, loose, revived>>

(* handleTFAVerify with a right code.                                      *)
Verify(r) ==
    LET v == Session(r)
    IN  /\ Sent(r, "verify")
        /\ v.pend # 0
        /\ now < v.pexp
        /\ enrolled
        /\ Save(r, LoggedIn(EndPending(v)), LoginMaxAge)
        /\ revived' = revived \cup (cancelled \cap {v.pend})
        /\ UNCHANGED <<now, enrolled, challenges, jar, copy, cancelled, loose>>

(* Past the expiry, with the last wrong code, or if the second of the two  *)
(* saves of a verification fails.                                          *)
VerifyEnds(r) ==
    /\ Sent(r, "verify")
    /\ Session(r).pend # 0
    /\ enrolled \/ now >= Session(r).pexp
    /\ Save(r, EndPending(Session(r)), MaxAge)
    /\ UNCHANGED <<now, enrolled, challenges, jar, copy, cancelled, loose, revived>>

(* Faulty variant for mutation: the cookie is only signed again.           *)
KeepCookie == MaxAge

(* destroySession leaves the values alone.                                 *)
Drop == -1

Logout(r) ==
    /\ Sent(r, "logout")
    /\ Save(r, Session(r), Drop)
    /\ UNCHANGED <<now, enrolled, challenges, jar, copy, cancelled, loose, revived>>

(* handleTFASetup and handleTFAEnable sign the session again (what the     *)
(* latter does to the account is ChangeEnrolment).                         *)
Setup(r) ==
    /\ Sent(r, "setup")
    /\ Session(r).login
    /\ ~enrolled
    /\ Save(r, Session(r), MaxAge)
    /\ UNCHANGED <<now, enrolled, challenges, jar, copy, cancelled, loose, revived>>

(* Refused, or the session could not be saved: no cookie is set.           *)
NoCookieSet(r) ==
    /\ req[r].pc = "sent"
    /\ req' = [req EXCEPT ![r] = [pc |-> "answered", op |-> req[r].op, cookie |-> None,
                                  set |-> None, maxAge |-> 0]]
    /\ UNCHANGED <<now, enrolled, challenges, jar, copy, cancelled, loose, revived>>

(* The challenge that a logout's answer takes from the browser.            *)
Ended(r) ==
    IF req[r].op = "logout" /\ req[r].set # None THEN {req[r].set.val.pend} \ {0} ELSE {}

Carries(cookie, p) == cookie # None /\ cookie.val.pend = p

(* A copy, or another request on its way or back, has challenge p, too.    *)
CarriedBeside(r, p) ==
    \/ Carries(copy, p)
    \/ \E s \in Requests \ {r} : Carries(req[s].cookie, p) \/ Carries(req[s].set, p)

(* The browser gets the answer and does what Set-Cookie says.              *)
Deliver(r) ==
    /\ req[r].pc = "answered"
    /\ jar' = IF req[r].set = None THEN jar
              ELSE IF req[r].maxAge < 0 THEN [cookie |-> None, until |-> 0]
              ELSE [cookie |-> req[r].set, until |-> Until(req[r].maxAge)]
    /\ cancelled' = cancelled \cup Ended(r)
    /\ loose' = loose \cup {p \in Ended(r) : CarriedBeside(r, p)}
    /\ req' = [req EXCEPT ![r] = Idle]
    /\ UNCHANGED <<now, enrolled, challenges, copy, revived>>

Lost(r) ==
    /\ req[r].pc # "idle"
    /\ req' = [req EXCEPT ![r] = Idle]
    /\ UNCHANGED <<now, enrolled, challenges, jar, copy, cancelled, loose, revived>>

Next ==
    \/ Tick
    \/ ChangeEnrolment
    \/ KeepCopy
    \/ \E r \in Requests :
          \/ \E op \in {"login", "verify", "logout", "setup"}, c \in {None, jar.cookie, copy} :
                Send(r, op, c)
          \/ Login(r) \/ LoginPending(r)
          \/ Verify(r) \/ VerifyEnds(r)
          \/ Logout(r)
          \/ Setup(r)
          \/ NoCookieSet(r)
          \/ Deliver(r) \/ Lost(r)

Spec == Init /\ [][Next]_vars

----------------------------------------------------------------------------

TypeOK ==
    /\ now \in 0..MaxTime
    /\ enrolled \in BOOLEAN
    /\ challenges \in 0..MaxChallenges
    /\ jar \in [cookie: Cookie \cup {None}, until: Nat]
    /\ copy \in Cookie \cup {None}
    /\ req \in [Requests -> Request]
    /\ cancelled \subseteq 1..MaxChallenges
    /\ loose \subseteq cancelled
    /\ revived \subseteq cancelled

(* "Without it, the codec ... accepts replayed cookies far beyond          *)
(* SessionExpiration": with it, no later than a second beyond, counted     *)
(* from the last time the session was saved.                               *)
CookiesExpire ==
    \A c \in ({jar.cookie, copy} \cup {req[r].cookie : r \in Requests}) \ {None} :
        Accepts(c, now) => now - c.signed < SessionExpiration + Second

(* The values still let the user in or finish a challenge at time t.       *)
Useful(c, t) == Accepts(c, t) /\ (c.val.login \/ (c.val.pend # 0 /\ t < c.val.pexp))

(* Browser and server agree on how long a session lasts: a cookie that the *)
(* browser drops for its age is worth nothing to the server a second later.*)
KeptWhileUseful ==
    jar.cookie # None /\ now >= jar.until => ~Useful(jar.cookie, now + Second)

(* "Logout cancels a pending challenge: ... it clears the cookie, so the   *)
(* challenge cannot be finished afterwards."                               *)
LogoutAlwaysCancels == revived = {}

(* A challenge whose logout has reached the browser is never finished      *)
(* afterwards, whatever is sent, delayed or lost later: unless a copy, or  *)
(* another request under way at that moment, carried it.                   *)
LogoutCancels == revived \subseteq loose

=============================================================================
