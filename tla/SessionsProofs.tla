--------------------------- MODULE SessionsProofs ---------------------------
(***************************************************************************)
(* How long cookies live, for every tick, clock bound and duration: no     *)
(* longer than SessionExpiration, unless that is below a second, and no    *)
(* shorter in the browser than on the server.                              *)
(***************************************************************************)
EXTENDS Sessions, TLAPS

Cookies == Cookie \cup {None}

(* The Max-Age that goes with what a cookie says.                          *)
AgeFor(c, age, t) ==
    /\ c.signed <= t
    /\ c.val.login => age = MaxAge
    /\ ~c.val.login /\ c.val.pend # 0 => age = Seconds(TTL) /\ c.val.pexp = c.signed + TTL

(* An answer on its way sets a cookie with the Max-Age of its kind, or     *)
(* drops the cookie.                                                       *)
AnswerTimed ==
    \A r \in Requests : req[r].set # None => req[r].maxAge < 0 \/ AgeFor(req[r].set, req[r].maxAge, now)

(* The browser got its cookie no earlier than it was signed.               *)
JarTimed ==
    jar.cookie # None =>
        \E age \in Nat : /\ AgeFor(jar.cookie, age, now)
                         /\ jar.until >= IF age = 0 THEN MaxTime + 1
                                         ELSE jar.cookie.signed + age * Second

TimeInv == TypeOK /\ AnswerTimed /\ JarTimed

----------------------------------------------------------------------------

LEMMA Whole ==
    ASSUME NEW x \in Nat
    PROVE  /\ Seconds(x) \in Nat
           /\ Seconds(x) * Second <= x
           /\ x < Seconds(x) * Second + Second
BY SessionConstants DEF Seconds

LEMMA Monotone ==
    ASSUME NEW p \in Nat, NEW q \in Nat, p <= q
    PROVE  p * Second <= q * Second
BY SessionConstants

LEMMA Distributes ==
    ASSUME NEW p \in Nat, NEW q \in Nat
    PROVE  (p + q) * Second = p * Second + q * Second
BY SessionConstants

LEMMA Ages == MaxAge \in Nat /\ TTL \in Nat \ {0} /\ Seconds(TTL) \in Nat
BY SessionConstants, Whole DEF MaxAge, TTL

(* A cookie is accepted for its whole seconds and less than one more.      *)
LEMMA Accepted ==
    ASSUME NEW c \in Cookie, NEW t \in Nat, Accepts(c, t), CodecMaxAge # 0
    PROVE  t < c.signed + MaxAge * Second + Second
<1> DEFINE s == c.signed
<1>1. s \in Nat
  BY SessionConstants DEF Cookie
<1>2. Seconds(t) <= Seconds(s) + MaxAge
  BY <1>1, Whole, Ages DEF Accepts, CodecMaxAge
<1> HIDE DEF s
<1>3. Seconds(t) * Second <= Seconds(s) * Second + MaxAge * Second
  <2>1. Seconds(t) \in Nat /\ Seconds(s) \in Nat /\ MaxAge \in Nat /\ Seconds(s) + MaxAge \in Nat
    BY <1>1, Whole, Ages
  <2>2. Seconds(t) * Second <= (Seconds(s) + MaxAge) * Second
    BY <1>2, <2>1, Monotone
  <2> QED
    BY <2>1, <2>2, Distributes
<1>4. t < Seconds(t) * Second + Second /\ Seconds(s) * Second <= s
  BY <1>1, Whole
<1>5. /\ Seconds(t) * Second \in Nat /\ Seconds(s) * Second \in Nat /\ MaxAge * Second \in Nat
      /\ Second \in Nat
  BY <1>1, Whole, Ages, SessionConstants
<1> QED
  BY <1>1, <1>3, <1>4, <1>5 DEF s

----------------------------------------------------------------------------

LEMMA IdleType == Idle \in Request
BY DEF Idle, Request

LEMMA TimeInit == Init => TimeInv
BY SessionConstants, IdleType DEF Init, TimeInv, TypeOK, AnswerTimed, JarTimed, Idle

LEMMA SessionType ==
    ASSUME TypeOK, NEW r \in Requests
    PROVE  Session(r) \in Values
<1>1. req[r].cookie \in Cookies
  BY DEF TypeOK, Request, Cookies
<1> QED
  BY <1>1, SessionConstants DEF Session, Cookies, Cookie, NoValues, Values

LEMMA EndPendingType ==
    ASSUME NEW v \in Values
    PROVE  /\ EndPending(v) \in Values /\ EndPending(v).pend = 0
           /\ EndPending(v).login = v.login
           /\ LoggedIn(EndPending(v)) \in Values /\ LoggedIn(EndPending(v)).login
           /\ LoggedIn(v) \in Values /\ LoggedIn(v).login
<1>1. v.pend \in 0..MaxChallenges /\ v.pexp \in Nat /\ (v.pend = 0 <=> v.pexp = 0) /\ v.login \in BOOLEAN
  BY DEF Values
<1> QED
  BY <1>1, SessionConstants DEF Values, EndPending, LoggedIn

(* A saved session keeps the invariant if its Max-Age fits what it says.   *)
LEMMA SaveStep ==
    ASSUME TimeInv, NEW r \in Requests, NEW val \in Values, NEW age \in Int,
           Save(r, val, age), UNCHANGED <<now, enrolled, jar, copy, cancelled, loose>>,
           challenges' \in challenges..MaxChallenges, revived' \subseteq cancelled,
           age < 0 \/ AgeFor([val |-> val, signed |-> now], age, now)
    PROVE  TimeInv'
<1> DEFINE c == [val |-> val, signed |-> now]
<1>1. c \in Cookie
  BY DEF TimeInv, TypeOK, Cookie
<1>2. req' = [req EXCEPT ![r] = [pc |-> "answered", op |-> req[r].op, cookie |-> None,
                                 set |-> c, maxAge |-> age]]
  BY DEF Save
<1>3. req[r].op \in {"login", "verify", "logout", "setup"}
  BY DEF TimeInv, TypeOK, Request
<1>4. [pc |-> "answered", op |-> req[r].op, cookie |-> None, set |-> c, maxAge |-> age] \in Request
  BY <1>1, <1>3 DEF Request
<1> HIDE DEF c
<1>5. req' \in [Requests -> Request]
  BY <1>2, <1>4 DEF TimeInv, TypeOK
<1>6. challenges' \in 0..MaxChallenges
  BY SessionConstants DEF TimeInv, TypeOK
<1>7. TypeOK'
  BY <1>5, <1>6 DEF TimeInv, TypeOK
<1>8. AnswerTimed'
  BY <1>2 DEF TimeInv, TypeOK, AnswerTimed, AgeFor, c
<1>9. JarTimed'
  BY DEF TimeInv, JarTimed, AgeFor
<1> QED
  BY <1>7, <1>8, <1>9 DEF TimeInv

(* A request changes, but not to an answer with a cookie.                  *)
LEMMA OtherStep ==
    ASSUME TimeInv, NEW r \in Requests, NEW q \in Request, q.set = None,
           req' = [req EXCEPT ![r] = q],
           UNCHANGED <<now, enrolled, challenges, jar, copy, cancelled, loose, revived>>
    PROVE  TimeInv'
<1>1. TypeOK'
  BY DEF TimeInv, TypeOK
<1>2. AnswerTimed'
  BY DEF TimeInv, TypeOK, AnswerTimed, AgeFor
<1>3. JarTimed'
  BY DEF TimeInv, JarTimed, AgeFor
<1> QED
  BY <1>1, <1>2, <1>3 DEF TimeInv

LEMMA DeliverStep ==
    ASSUME TimeInv, NEW r \in Requests, Deliver(r)
    PROVE  TimeInv'
<1>1. /\ req[r] \in Request /\ now \in Nat /\ challenges \in Nat /\ Second \in Nat \ {0} /\ MaxTime \in Nat
      /\ req' = [req EXCEPT ![r] = Idle]
      /\ UNCHANGED <<now, enrolled, challenges, copy, revived>>
  BY SessionConstants DEF TimeInv, TypeOK, Deliver
<1>2. req[r].set \in Cookies /\ req[r].maxAge \in Int
  BY <1>1 DEF Request, Cookies
<1>3. AnswerTimed'
  BY <1>1 DEF TimeInv, TypeOK, AnswerTimed, AgeFor, Idle
<1>4. CASE req[r].set = None
  <2>1. jar' = jar /\ cancelled' = cancelled /\ loose' = loose
    BY <1>4 DEF Deliver, Ended
  <2> QED
    BY <1>1, <1>3, <2>1, IdleType DEF TimeInv, TypeOK, JarTimed, AgeFor
<1>5. CASE req[r].set # None
  <2>1. req[r].set \in Cookie
    BY <1>2, <1>5 DEF Cookies
  <2>2. /\ cancelled' \subseteq 1..MaxChallenges /\ cancelled \subseteq cancelled'
        /\ loose' \subseteq cancelled'
    <3>1. req[r].set.val.pend \in 0..MaxChallenges
      BY <2>1 DEF Cookie, Values
    <3>2. Ended(r) \subseteq 1..MaxChallenges
      BY <3>1, SessionConstants DEF Ended
    <3> QED
      BY <1>1, <3>2 DEF TimeInv, TypeOK, Deliver
  <2>3. CASE req[r].maxAge < 0
    <3>1. jar' = [cookie |-> None, until |-> 0]
      BY <1>5, <2>3 DEF Deliver
    <3> QED
      BY <1>1, <1>3, <2>2, <3>1, IdleType DEF TimeInv, TypeOK, JarTimed
  <2>4. CASE req[r].maxAge >= 0
    <3>0. PICK c, age : c = req[r].set /\ age = req[r].maxAge
      OBVIOUS
    <3>1. jar' = [cookie |-> c, until |-> Until(age)]
      BY <1>2, <1>5, <2>4, <3>0 DEF Deliver
    <3>2. age \in Nat /\ AgeFor(c, age, now) /\ c.signed <= now /\ c.signed \in Nat
      BY <1>1, <1>2, <1>5, <2>1, <2>4, <3>0 DEF TimeInv, AnswerTimed, AgeFor, Cookie
    <3>3. age * Second \in Nat
      BY <1>1, <3>2
    <3>4. Until(age) \in Nat /\ Until(age) >= IF age = 0 THEN MaxTime + 1 ELSE c.signed + age * Second
      BY <1>1, <3>2, <3>3 DEF Until
    <3>5. TypeOK'
      BY <1>1, <2>1, <2>2, <3>0, <3>1, <3>4, IdleType DEF TimeInv, TypeOK
    <3>6. AgeFor(c, age, now')
      BY <1>1, <3>2
    <3>7. jar'.cookie = c /\ jar'.until = Until(age)
      BY <3>1
    <3>8. JarTimed'
      BY <3>2, <3>4, <3>6, <3>7 DEF JarTimed
    <3> QED
      BY <1>3, <3>5, <3>8 DEF TimeInv
  <2> QED
    BY <1>2, <2>3, <2>4
<1> QED
  BY <1>4, <1>5

LEMMA TimeStep == TimeInv /\ [Next]_vars => TimeInv'
<1> SUFFICES ASSUME TimeInv, [Next]_vars PROVE TimeInv'
  OBVIOUS
<1>0. /\ now \in Nat /\ MaxTime \in Nat /\ MaxChallenges \in Nat /\ challenges \in 0..MaxChallenges
      /\ MaxAge \in Nat /\ TTL \in Nat \ {0} /\ Seconds(TTL) \in Nat /\ revived \subseteq cancelled
      /\ req \in [Requests -> Request]
  BY SessionConstants, Ages DEF TimeInv, TypeOK
<1>1. CASE Tick
  <2>1. now' = now + 1 /\ UNCHANGED <<enrolled, challenges, jar, copy, req, cancelled, loose, revived>>
    BY <1>1 DEF Tick
  <2>2. TypeOK'
    BY <1>0, <1>1, <2>1 DEF Tick, TimeInv, TypeOK
  <2>3. \A c, age : c \in Cookie /\ AgeFor(c, age, now) => AgeFor(c, age, now')
    BY <1>0, <2>1 DEF AgeFor, Cookie
  <2>4. AnswerTimed'
    <3> SUFFICES ASSUME NEW r \in Requests, req[r].set # None
                 PROVE  req[r].maxAge < 0 \/ AgeFor(req[r].set, req[r].maxAge, now')
      BY <2>1 DEF AnswerTimed
    <3>1. req[r].set \in Cookie
      BY <1>0 DEF Request
    <3> QED
      BY <2>3, <3>1 DEF TimeInv, AnswerTimed
  <2>5. JarTimed'
    <3>1. jar.cookie # None => jar.cookie \in Cookie
      BY DEF TimeInv, TypeOK
    <3> QED
      BY <2>1, <2>3, <3>1 DEF TimeInv, JarTimed
  <2> QED
    BY <2>2, <2>4, <2>5 DEF TimeInv
<1>2. CASE ChangeEnrolment \/ KeepCopy
  <2>1. TypeOK'
    BY <1>2 DEF ChangeEnrolment, KeepCopy, TimeInv, TypeOK
  <2>2. UNCHANGED <<now, jar, req>>
    BY <1>2 DEF ChangeEnrolment, KeepCopy
  <2> QED
    BY <2>1, <2>2 DEF TimeInv, AnswerTimed, JarTimed
<1>3. ASSUME NEW r \in Requests, NEW op \in {"login", "verify", "logout", "setup"},
             NEW c \in {None, jar.cookie, copy}, Send(r, op, c)
      PROVE  TimeInv'
  <2> DEFINE q == [pc |-> "sent", op |-> op, cookie |-> c, set |-> None, maxAge |-> 0]
  <2>1. q \in Request /\ q.set = None
    BY DEF Request, TimeInv, TypeOK
  <2> QED
    BY <1>3, <2>1, OtherStep DEF Send
<1>4. ASSUME NEW r \in Requests, NoCookieSet(r)
      PROVE  TimeInv'
  <2> DEFINE q == [pc |-> "answered", op |-> req[r].op, cookie |-> None, set |-> None, maxAge |-> 0]
  <2>1. q \in Request /\ q.set = None
    BY <1>0 DEF Request
  <2> QED
    BY <1>4, <2>1, OtherStep DEF NoCookieSet
<1>5. ASSUME NEW r \in Requests, Lost(r)
      PROVE  TimeInv'
  BY <1>5, OtherStep, IdleType DEF Lost, Idle
<1>6. ASSUME NEW r \in Requests, Deliver(r)
      PROVE  TimeInv'
  BY <1>6, DeliverStep
<1>7. ASSUME NEW r \in Requests, NEW val \in Values, Save(r, val, MaxAge),
             UNCHANGED <<now, enrolled, challenges, jar, copy, cancelled, loose>>,
             revived' \subseteq cancelled, val.login \/ val.pend = 0
      PROVE  TimeInv'
  <2>1. AgeFor([val |-> val, signed |-> now], MaxAge, now)
    BY <1>0, <1>7 DEF AgeFor
  <2> QED
    BY <1>0, <1>7, <2>1, SaveStep
<1>8. ASSUME NEW r \in Requests, Login(r)
      PROVE  TimeInv'
  BY <1>0, <1>7, <1>8, SessionType, EndPendingType DEF Login, LoginMaxAge, TimeInv
<1>9. ASSUME NEW r \in Requests, LoginPending(r)
      PROVE  TimeInv'
  <2> DEFINE val == [login |-> FALSE, pend |-> challenges + 1, pexp |-> now + TTL]
  <2>1. val \in Values
    BY <1>0, <1>9 DEF LoginPending, Values
  <2>2. AgeFor([val |-> val, signed |-> now], Seconds(TTL), now)
    BY <1>0 DEF AgeFor
  <2>3. challenges' \in challenges..MaxChallenges
    BY <1>0, <1>9 DEF LoginPending
  <2>4. /\ Save(r, val, Seconds(TTL)) /\ revived' \subseteq cancelled
        /\ UNCHANGED <<now, enrolled, jar, copy, cancelled, loose>>
    BY <1>0, <1>9 DEF LoginPending
  <2> HIDE DEF val
  <2> QED
    BY <1>0, <2>1, <2>2, <2>3, <2>4, SaveStep
<1>10. ASSUME NEW r \in Requests, Verify(r)
       PROVE  TimeInv'
  <2>1. revived' \subseteq cancelled
    BY <1>0, <1>10 DEF Verify
  <2> QED
    BY <1>0, <1>7, <1>10, <2>1, SessionType, EndPendingType DEF Verify, LoginMaxAge, TimeInv
<1>11. ASSUME NEW r \in Requests, VerifyEnds(r)
       PROVE  TimeInv'
  <2>1. TypeOK /\ Session(r) \in Values
    BY SessionType DEF TimeInv
  <2>2. /\ EndPending(Session(r)) \in Values /\ EndPending(Session(r)).pend = 0
        /\ Save(r, EndPending(Session(r)), MaxAge)
        /\ UNCHANGED <<now, enrolled, challenges, jar, copy, cancelled, loose>> /\ revived' \subseteq cancelled
    BY <1>0, <1>11, <2>1, EndPendingType DEF VerifyEnds
  <2> QED
    BY <1>7, <2>2
<1>12. ASSUME NEW r \in Requests, Setup(r)
       PROVE  TimeInv'
  BY <1>0, <1>7, <1>12, SessionType DEF Setup, TimeInv
<1>13. ASSUME NEW r \in Requests, Logout(r)
       PROVE  TimeInv'
  <2>1. Session(r) \in Values
    BY SessionType DEF TimeInv
  <2>2. /\ Save(r, Session(r), Drop) /\ Drop \in Int /\ Drop < 0
        /\ UNCHANGED <<now, enrolled, jar, copy, cancelled, loose>>
        /\ challenges' \in challenges..MaxChallenges /\ revived' \subseteq cancelled
    BY <1>0, <1>13 DEF Logout, Drop
  <2> QED
    BY <2>1, <2>2, SaveStep
<1>14. CASE UNCHANGED vars
  <2>1. TypeOK'
    BY <1>14 DEF vars, TimeInv, TypeOK
  <2> QED
    BY <1>14, <2>1 DEF vars, TimeInv, AnswerTimed, JarTimed
<1> QED
  BY <1>1, <1>2, <1>3, <1>4, <1>5, <1>6, <1>8, <1>9, <1>10, <1>11, <1>12, <1>13, <1>14 DEF Next

LEMMA TimeInvariant == Spec => []TimeInv
BY TimeInit, TimeStep, PTL DEF Spec

(* Every variable keeps its type; a challenge and its expiry come together. *)
THEOREM TypeCorrect == Spec => []TypeOK
<1>1. TimeInv => TypeOK
  BY DEF TimeInv
<1> QED
  BY <1>1, TimeInvariant, PTL

----------------------------------------------------------------------------

(* For every SessionExpiration of a second or more, no cookie is accepted  *)
(* a second beyond it.                                                     *)
THEOREM Expire == ASSUME SessionExpiration >= Second PROVE Spec => []CookiesExpire
<1>1. TypeOK => CookiesExpire
  <2> SUFFICES ASSUME TypeOK PROVE CookiesExpire
    OBVIOUS
  <2> SUFFICES ASSUME NEW c \in Cookie, Accepts(c, now)
               PROVE  now - c.signed < SessionExpiration + Second
    <3>1. \A r \in Requests : req[r].cookie \in Cookies
      <4>1. \A r \in Requests : req[r] \in Request
        BY DEF TypeOK
      <4>2. \A q \in Request : q.cookie \in Cookie \cup {None}
        BY DEF Request
      <4> QED
        BY <4>1, <4>2 DEF Cookies
    <3> QED
      BY <3>1 DEF CookiesExpire, TypeOK, Cookies
  <2>1. CodecMaxAge # 0
    <3>1. SessionExpiration < MaxAge * Second + Second
      BY Whole, SessionConstants DEF MaxAge
    <3> QED
      BY <3>1, SessionConstants DEF CodecMaxAge
  <2>2. now < c.signed + MaxAge * Second + Second
    BY <2>1, Accepted, SessionConstants DEF TypeOK
  <2>3. MaxAge * Second <= SessionExpiration /\ MaxAge * Second \in Nat
    BY Whole, Ages, SessionConstants DEF MaxAge
  <2>4. c.signed \in Nat /\ now \in Nat /\ Second \in Nat
    BY SessionConstants DEF Cookie, TypeOK
  <2> QED
    BY <2>2, <2>3, <2>4, SessionConstants
<1> QED
  BY <1>1, TimeInvariant, PTL DEF TimeInv

(* For all durations: what the browser drops for its age is worth nothing  *)
(* to the server a second later.                                           *)
THEOREM Kept == Spec => []KeptWhileUseful
<1>1. TimeInv => KeptWhileUseful
  <2> SUFFICES ASSUME TimeInv, jar.cookie # None, now >= jar.until,
                      Useful(jar.cookie, now + Second)
               PROVE  FALSE
    BY DEF KeptWhileUseful
  <2>1. PICK c : c = jar.cookie
    OBVIOUS
  <2>2. PICK age \in Nat : /\ AgeFor(c, age, now)
                          /\ jar.until >= IF age = 0 THEN MaxTime + 1 ELSE c.signed + age * Second
    BY <2>1 DEF TimeInv, JarTimed
  <2>3. /\ c \in Cookie /\ now \in 0..MaxTime /\ jar.until \in Nat
        /\ MaxTime \in Nat /\ c.signed \in Nat /\ Second \in Nat \ {0}
    BY <2>1, SessionConstants DEF TimeInv, TypeOK, Cookie
  <2>4. age # 0 /\ age * Second \in Nat /\ now >= c.signed + age * Second
    BY <2>2, <2>3
  <2>5. CASE c.val.login
    <3>1. age = MaxAge
      BY <2>2, <2>5 DEF AgeFor
    <3>2. Accepts(c, now + Second) /\ CodecMaxAge # 0
      BY <2>1, <2>4, <3>1 DEF Useful, CodecMaxAge
    <3>3. now + Second < c.signed + MaxAge * Second + Second
      BY <2>3, <3>2, Accepted
    <3> QED
      BY <2>3, <2>4, <3>1, <3>3
  <2>6. CASE ~c.val.login
    <3>1. c.val.pend # 0 /\ now + Second < c.val.pexp
      BY <2>1, <2>6 DEF Useful
    <3>2. age = Seconds(TTL) /\ c.val.pexp = c.signed + TTL
      BY <2>2, <2>6, <3>1 DEF AgeFor
    <3>3. TTL < age * Second + Second
      BY <3>2, Ages, Whole
    <3> QED
      BY <2>3, <2>4, <3>1, <3>2, <3>3, Ages
  <2> QED
    BY <2>5, <2>6
<1> QED
  BY <1>1, TimeInvariant, PTL

----------------------------------------------------------------------------
(* Logout.  A challenge whose logout has arrived, and that nothing else    *)
(* carried then, is carried by nothing now; no cookie and no answer speaks *)
(* of a challenge that is still to be drawn; a logout's answer drops the   *)
(* cookie.                                                                 *)
CarriedSomewhere(p) ==
    \/ Carries(jar.cookie, p) \/ Carries(copy, p)
    \/ \E r \in Requests : Carries(req[r].cookie, p) \/ Carries(req[r].set, p)

Gone == \A p \in cancelled \ loose : ~CarriedSomewhere(p)

Drawn == \A p \in Nat : CarriedSomewhere(p) \/ p \in cancelled => p <= challenges

LogoutDrops ==
    \A r \in Requests : req[r].op = "logout" /\ req[r].set # None => req[r].maxAge < 0

LogoutInv == Gone /\ Drawn /\ LogoutDrops /\ LogoutCancels

LEMMA InitLogoutInv == Init => LogoutInv
BY SessionConstants DEF Init, LogoutInv, Gone, Drawn, LogoutDrops, LogoutCancels,
   CarriedSomewhere, Carries, Idle

(* What the server works with is what the request carries, or nothing.     *)
LEMMA SessionCarried ==
    ASSUME NEW r \in Requests, Session(r).pend # 0
    PROVE  Carries(req[r].cookie, Session(r).pend)
BY DEF Session, Carries, NoValues

(* A request changes.  If what it carries was carried before, or is a new  *)
(* challenge, nothing that was gone comes back.                            *)
LEMMA CarryStep ==
    ASSUME TimeInv, LogoutInv, NEW r \in Requests, NEW q,
           req' = [req EXCEPT ![r] = q],
           UNCHANGED <<jar, copy, cancelled, loose>>,
           challenges' \in Nat, challenges <= challenges',
           \A p \in Nat \ {0} : Carries(q.cookie, p) \/ Carries(q.set, p) =>
               CarriedSomewhere(p) \/ (p = challenges + 1 /\ p = challenges'),
           q.op = "logout" /\ q.set # None => q.maxAge < 0,
           LogoutCancels'
    PROVE  LogoutInv'
<1>0. /\ req \in [Requests -> Request] /\ challenges \in Nat
      /\ cancelled \subseteq 1..MaxChallenges /\ MaxChallenges \in Nat
  BY SessionConstants DEF TimeInv, TypeOK
<1>1. ASSUME NEW p \in Nat \ {0}, CarriedSomewhere(p)'
      PROVE  CarriedSomewhere(p) \/ (p = challenges + 1 /\ p = challenges')
  BY <1>0, <1>1 DEF CarriedSomewhere
<1>2. Gone'
  <2> SUFFICES ASSUME NEW p \in cancelled \ loose, CarriedSomewhere(p)' PROVE FALSE
    BY DEF Gone
  <2>1. p \in Nat \ {0} /\ p <= challenges
    BY <1>0 DEF LogoutInv, Drawn
  <2> QED
    BY <1>0, <1>1, <2>1 DEF LogoutInv, Gone
<1>3. Drawn'
  <2> SUFFICES ASSUME NEW p \in Nat \ {0}, CarriedSomewhere(p)' \/ p \in cancelled'
               PROVE  p <= challenges'
    BY <1>0 DEF Drawn
  <2> QED
    BY <1>0, <1>1 DEF LogoutInv, Drawn
<1>4. LogoutDrops'
  BY <1>0 DEF LogoutInv, LogoutDrops
<1> QED
  BY <1>2, <1>3, <1>4 DEF LogoutInv

(* A session is saved with the challenge it had, or none, or a new one.    *)
LEMMA SaveCarried ==
    ASSUME TimeInv, LogoutInv, NEW r \in Requests, NEW val \in Values, NEW age \in Int,
           Save(r, val, age), UNCHANGED <<jar, copy, cancelled, loose>>,
           challenges' \in Nat, challenges <= challenges',
           \/ val.pend \in {0, Session(r).pend}
           \/ val.pend = challenges + 1 /\ val.pend = challenges',
           req[r].op = "logout" => age < 0,
           LogoutCancels'
    PROVE  LogoutInv'
<1> DEFINE q == [pc |-> "answered", op |-> req[r].op, cookie |-> None,
                 set |-> [val |-> val, signed |-> now], maxAge |-> age]
<1>1. /\ q.cookie = None /\ q.set.val = val /\ q.maxAge = age /\ q.op = req[r].op
      /\ req' = [req EXCEPT ![r] = q]
  BY DEF Save
<1> HIDE DEF q
<1>2. ASSUME NEW p \in Nat \ {0}, Carries(q.cookie, p) \/ Carries(q.set, p)
      PROVE  CarriedSomewhere(p) \/ (p = challenges + 1 /\ p = challenges')
  <2>1. p = val.pend
    BY <1>1, <1>2 DEF Carries
  <2> QED
    BY <2>1, SessionCarried DEF CarriedSomewhere
<1>3. q.op = "logout" /\ q.set # None => q.maxAge < 0
  BY <1>1
<1> QED
  BY <1>1, <1>2, <1>3, CarryStep

LEMMA DeliverCarried ==
    ASSUME TimeInv, LogoutInv, NEW r \in Requests, Deliver(r)
    PROVE  LogoutInv'
<1>0. /\ req \in [Requests -> Request] /\ challenges \in Nat /\ challenges' = challenges
      /\ req' = [req EXCEPT ![r] = Idle] /\ copy' = copy /\ revived' = revived
  BY SessionConstants DEF TimeInv, TypeOK, Deliver
<1>1. /\ cancelled' = cancelled \cup Ended(r)
      /\ loose' = loose \cup {p \in Ended(r) : CarriedBeside(r, p)}
  BY DEF Deliver
<1>2. \A p : ~Carries(None, p) /\ ~Carries(Idle.cookie, p) /\ ~Carries(Idle.set, p)
  BY DEF Carries, Idle
<1>3. ASSUME NEW p, CarriedSomewhere(p)'
      PROVE  \/ Carries(jar'.cookie, p)
             \/ CarriedBeside(r, p)
  BY <1>0, <1>2, <1>3 DEF CarriedSomewhere, CarriedBeside
<1>4. ASSUME NEW p, Carries(jar'.cookie, p) PROVE CarriedSomewhere(p)
  BY <1>2, <1>4 DEF Deliver, CarriedSomewhere
<1>5. ASSUME NEW p, CarriedBeside(r, p) PROVE CarriedSomewhere(p)
  BY <1>5 DEF CarriedSomewhere, CarriedBeside
<1>6. ASSUME NEW p \in Ended(r) PROVE CarriedSomewhere(p) /\ ~Carries(jar'.cookie, p)
  <2>1. req[r].op = "logout" /\ req[r].set # None /\ p = req[r].set.val.pend
    BY <1>6 DEF Ended
  <2>2. req[r].maxAge < 0
    BY <2>1 DEF LogoutInv, LogoutDrops
  <2>3. jar'.cookie = None
    BY <2>1, <2>2 DEF Deliver
  <2> QED
    BY <1>2, <2>1, <2>3 DEF CarriedSomewhere, Carries
<1>7. Gone'
  BY <1>1, <1>3, <1>4, <1>5, <1>6 DEF LogoutInv, Gone
<1>8. Drawn'
  BY <1>0, <1>1, <1>3, <1>4, <1>5, <1>6 DEF LogoutInv, Drawn
<1>9. LogoutDrops'
  BY <1>0 DEF LogoutInv, LogoutDrops, Idle
<1>10. LogoutCancels'
  BY <1>0, <1>1 DEF LogoutInv, LogoutCancels
<1> QED
  BY <1>7, <1>8, <1>9, <1>10 DEF LogoutInv

LEMMA StepLogoutInv == TimeInv /\ LogoutInv /\ [Next]_vars => LogoutInv'
<1> SUFFICES ASSUME TimeInv, LogoutInv, [Next]_vars PROVE LogoutInv'
  OBVIOUS
<1>0. /\ challenges \in Nat /\ MaxAge \in Int /\ Seconds(TTL) \in Int
      /\ req \in [Requests -> Request]
  BY SessionConstants, Ages DEF TimeInv, TypeOK
<1>1. CASE Tick \/ ChangeEnrolment \/ UNCHANGED vars
  <2>1. UNCHANGED <<challenges, jar, copy, req, cancelled, loose, revived>>
    BY <1>1 DEF Tick, ChangeEnrolment, vars
  <2>2. \A p : CarriedSomewhere(p)' <=> CarriedSomewhere(p)
    BY <2>1 DEF CarriedSomewhere
  <2> QED
    BY <2>1, <2>2 DEF LogoutInv, Gone, Drawn, LogoutDrops, LogoutCancels
<1>2. CASE KeepCopy
  <2>1. copy' = jar.cookie /\ UNCHANGED <<challenges, jar, req, cancelled, loose, revived>>
    BY <1>2 DEF KeepCopy
  <2>2. \A p : CarriedSomewhere(p)' => CarriedSomewhere(p)
    BY <2>1 DEF CarriedSomewhere
  <2> QED
    BY <2>1, <2>2 DEF LogoutInv, Gone, Drawn, LogoutDrops, LogoutCancels
<1>3. ASSUME NEW r \in Requests, NEW op \in {"login", "verify", "logout", "setup"},
             NEW c \in {None, jar.cookie, copy}, Send(r, op, c)
      PROVE  LogoutInv'
  <2> DEFINE q == [pc |-> "sent", op |-> op, cookie |-> c, set |-> None, maxAge |-> 0]
  <2>1. q.cookie = c /\ q.set = None /\ req' = [req EXCEPT ![r] = q]
    BY <1>3 DEF Send
  <2> HIDE DEF q
  <2>2. UNCHANGED <<challenges, jar, copy, cancelled, loose, revived>>
    BY <1>3 DEF Send
  <2>3. \A p : Carries(q.cookie, p) \/ Carries(q.set, p) => CarriedSomewhere(p)
    BY <2>1 DEF Carries, CarriedSomewhere
  <2>4. LogoutCancels'
    BY <2>2 DEF LogoutInv, LogoutCancels
  <2>5. /\ q.op = "logout" /\ q.set # None => q.maxAge < 0
        /\ challenges' \in Nat /\ challenges <= challenges'
    BY <1>0, <2>1, <2>2
  <2> QED
    BY <2>1, <2>2, <2>3, <2>4, <2>5, CarryStep
<1>4. ASSUME NEW r \in Requests, NoCookieSet(r) \/ Lost(r) PROVE LogoutInv'
  <2>1. UNCHANGED <<challenges, jar, copy, cancelled, loose, revived>> /\ LogoutCancels'
    BY <1>4 DEF NoCookieSet, Lost, LogoutInv, LogoutCancels
  <2>2. ASSUME NEW q, req' = [req EXCEPT ![r] = q], q.cookie = None, q.set = None
        PROVE  LogoutInv'
    <3>1. \A p : Carries(q.cookie, p) \/ Carries(q.set, p) => CarriedSomewhere(p)
      BY <2>2 DEF Carries
    <3>2. q.op = "logout" /\ q.set # None => q.maxAge < 0
      BY <2>2
    <3>3. challenges' \in Nat /\ challenges <= challenges'
      BY <1>0, <2>1
    <3> QED
      BY <2>1, <2>2, <3>1, <3>2, <3>3, CarryStep
  <2>3. CASE NoCookieSet(r)
    <3> DEFINE q == [pc |-> "answered", op |-> req[r].op, cookie |-> None,
                     set |-> None, maxAge |-> 0]
    <3>1. req' = [req EXCEPT ![r] = q] /\ q.cookie = None /\ q.set = None
      BY <2>3 DEF NoCookieSet
    <3> HIDE DEF q
    <3> QED
      BY <2>2, <3>1
  <2>4. CASE Lost(r)
    <3>1. req' = [req EXCEPT ![r] = Idle] /\ Idle.cookie = None /\ Idle.set = None
      BY <2>4 DEF Lost, Idle
    <3> QED
      BY <2>2, <3>1
  <2> QED
    BY <1>4, <2>3, <2>4
<1>5. ASSUME NEW r \in Requests, Deliver(r) PROVE LogoutInv'
  BY <1>5, DeliverCarried
<1>a. ASSUME NEW r \in Requests, NEW val \in Values, NEW age \in Int, Save(r, val, age),
             UNCHANGED <<challenges, jar, copy, cancelled, loose, revived>>,
             val.pend \in {0, Session(r).pend}, req[r].op = "logout" => age < 0
      PROVE  LogoutInv'
  <2>1. LogoutCancels'
    BY <1>a DEF LogoutInv, LogoutCancels
  <2> QED
    BY <1>0, <1>a, <2>1, SaveCarried
<1>b. ASSUME NEW r \in Requests
      PROVE  /\ Session(r) \in Values
             /\ EndPending(Session(r)) \in Values /\ EndPending(Session(r)).pend = 0
             /\ LoggedIn(Session(r)) \in Values /\ LoggedIn(Session(r)).pend = Session(r).pend
             /\ LoggedIn(EndPending(Session(r))) \in Values
             /\ LoggedIn(EndPending(Session(r))).pend = 0
  <2>1. Session(r) \in Values
    BY SessionType DEF TimeInv
  <2> QED
    BY <2>1, EndPendingType DEF EndPending, LoggedIn
<1>6. ASSUME NEW r \in Requests, Login(r) \/ Setup(r) \/ VerifyEnds(r) PROVE LogoutInv'
  BY <1>0, <1>6, <1>a, <1>b DEF Login, Setup, VerifyEnds, LoginMaxAge, Sent
<1>7. ASSUME NEW r \in Requests, Logout(r) PROVE LogoutInv'
  <2>1. Drop \in Int /\ Drop < 0
    BY DEF Drop
  <2> QED
    BY <1>7, <1>a, <1>b, <2>1 DEF Logout
<1>8. ASSUME NEW r \in Requests, LoginPending(r) PROVE LogoutInv'
  <2> DEFINE val == [login |-> FALSE, pend |-> challenges + 1, pexp |-> now + TTL]
  <2>1. val \in Values /\ val.pend = challenges + 1
    BY <1>8, SessionConstants, Ages DEF LoginPending, Values, TimeInv, TypeOK
  <2>2. /\ challenges' = challenges + 1 /\ Save(r, val, Seconds(TTL)) /\ req[r].op = "login"
        /\ UNCHANGED <<jar, copy, cancelled, loose, revived>>
    BY <1>8 DEF LoginPending, Sent
  <2>3. LogoutCancels'
    BY <2>2 DEF LogoutInv, LogoutCancels
  <2> HIDE DEF val
  <2> QED
    BY <1>0, <2>1, <2>2, <2>3, SaveCarried
<1>9. ASSUME NEW r \in Requests, Verify(r) PROVE LogoutInv'
  <2> DEFINE p == Session(r).pend
  <2>1. p # 0 /\ req[r].op = "verify" /\ revived' = revived \cup (cancelled \cap {p})
        /\ Save(r, LoggedIn(EndPending(Session(r))), MaxAge)
        /\ UNCHANGED <<challenges, jar, copy, cancelled, loose>>
    BY <1>9 DEF Verify, Sent, LoginMaxAge
  <2>2. CarriedSomewhere(p)
    BY <2>1, SessionCarried DEF CarriedSomewhere
  <2>3. p \notin cancelled \ loose
    BY <2>2 DEF LogoutInv, Gone
  <2>4. LogoutCancels'
    BY <2>1, <2>3 DEF LogoutInv, LogoutCancels
  <2> QED
    BY <1>0, <1>b, <2>1, <2>4, SaveCarried
<1> QED
  BY <1>1, <1>2, <1>3, <1>4, <1>5, <1>6, <1>7, <1>8, <1>9 DEF Next

(* For any number of requests under way, copies, durations and lost or     *)
(* late answers: what a logout has ended is never finished, unless it was  *)
(* loose when the logout arrived.                                          *)
THEOREM Cancels == Spec => []LogoutCancels
<1>1. LogoutInv => LogoutCancels
  BY DEF LogoutInv
<1> QED
  BY <1>1, TimeInvariant, InitLogoutInv, StepLogoutInv, PTL DEF Spec

(* The README's sentence as it stands holds where a browser waits for each *)
(* answer and no copy of a cookie is sent.                                 *)
THEOREM CancelsOneByOne ==
    ASSUME ~Copied, \A r, s \in Requests : r = s
    PROVE  Spec => []LogoutAlwaysCancels
<1> DEFINE Alone == copy = None /\ loose = {}
<1>1. Init => Alone
  BY DEF Init
<1>2. Alone /\ [Next]_vars => Alone'
  <2> SUFFICES ASSUME Alone, [Next]_vars PROVE Alone'
    OBVIOUS
  <2>1. ASSUME NEW r \in Requests, Deliver(r) PROVE Alone'
    <3>1. \A p : ~CarriedBeside(r, p)
      BY DEF CarriedBeside, Carries
    <3> QED
      BY <2>1, <3>1 DEF Deliver
  <2>2. UNCHANGED <<copy, loose>> => Alone'
    OBVIOUS
  <2> QED
    BY <2>1, <2>2 DEF Next, vars, Tick, ChangeEnrolment, KeepCopy, Send, Login, LoginPending,
       Verify, VerifyEnds, Logout, Setup, NoCookieSet, Lost
<1>3. Alone /\ LogoutCancels => LogoutAlwaysCancels
  BY DEF LogoutCancels, LogoutAlwaysCancels
<1> QED
  BY <1>1, <1>2, <1>3, Cancels, PTL DEF Spec

=============================================================================
