------------------------- MODULE RegistrationProofs -------------------------
(***************************************************************************)
(* Concurrent registrations never share a name and every registered name   *)
(* can be logged in with, for all users, names, settings and requests.     *)
(***************************************************************************)
EXTENDS Registration, TLAPS

(* Each account is filed under its own ID, which was drawn for it.         *)
Filed == \A u \in Stored : table[u].id = u /\ u \in drawn

(* What is under way or stored passed the checks of handleRegister.        *)
Checked ==
    /\ \A u \in Stored : AcceptedNames(table[u].name)
    /\ \A r \in Requests : ~At(r, "idle") => AcceptedNames(req[r].name) /\ req[r].pw \in Passwords
    /\ \A r \in Requests : At(r, "save") => req[r].id \in Users

(* UniqueNames needs Filed to know a new account's neighbours, and         *)
(* RegisteredIsFound needs Checked.                                        *)
RegInv == TypeOK /\ Filed /\ Checked /\ UniqueNames

----------------------------------------------------------------------------

LEMMA NewUserType ==
    ASSUME NEW id \in Users, NEW name \in Names, NEW pw \in Passwords
    PROVE  /\ NewUser(id, name, Argon2id(pw)) \in UserRecord
           /\ NewUser(id, name, Argon2id(pw)).id = id
           /\ NewUser(id, name, Argon2id(pw)).name = name
BY DEF NewUser, UserRecord, Account, Argon2id, Hash

LEMMA IdleType == Idle \in Request
BY DEF Idle, Request, Names, NoName

LEMMA SharesKeySymmetric ==
    ASSUME NEW a, NEW b
    PROVE  SharesKey(a, b) <=> SharesKey(b, a)
BY DEF SharesKey

(* A step that leaves the table alone and moves one request to a state     *)
(* whose names were checked keeps the invariant.                           *)
LEMMA RequestMoves ==
    ASSUME RegInv, NEW r \in Requests, NEW to \in Request,
           req' = [req EXCEPT ![r] = to],
           UNCHANGED <<settings, table>>,
           drawn \subseteq drawn', drawn' \subseteq Users,
           signed' \subseteq Users,
           answer' \in [Requests -> Response],
           to.pc # "idle" => AcceptedNames(to.name) /\ to.pw \in Passwords,
           to.pc = "save" => to.id \in Users
    PROVE  RegInv'
<1>1. TypeOK'
  BY DEF RegInv, TypeOK
<1>2. Filed' /\ UniqueNames'
  BY DEF RegInv, Filed, UniqueNames, Stored
<1>3. \A n : AcceptedNames(n)' <=> AcceptedNames(n)
  BY DEF AcceptedNames
<1>4. \A s \in Requests : req'[s] = IF s = r THEN to ELSE req[s]
  BY DEF RegInv, TypeOK
<1>5. Checked'
  BY <1>3, <1>4 DEF RegInv, Checked, Stored, At, AcceptedNames
<1> QED
  BY <1>1, <1>2, <1>5 DEF RegInv

(* The responses the handler gives.                                        *)
LEMMA RespondMoves ==
    ASSUME RegInv, NEW r \in Requests,
           NEW status \in {201, 400, 409, 500},
           NEW err \in {"none", "invalid", "exists", "ErrUserAlreadyExists", "failed"},
           Respond(r, status, err),
           UNCHANGED <<settings, table>>,
           drawn \subseteq drawn', drawn' \subseteq Users,
           signed' \subseteq Users
    PROVE  RegInv'
<1>1. answer' \in [Requests -> Response]
  BY DEF Respond, RegInv, TypeOK, Response
<1>2. Idle.pc = "idle"
  BY DEF Idle
<1>3. req' = [req EXCEPT ![r] = Idle]
  BY DEF Respond
<1>4. /\ Idle.pc # "idle" => AcceptedNames(Idle.name) /\ Idle.pw \in Passwords
      /\ Idle.pc = "save" => Idle.id \in Users
  BY <1>2
<1> QED
  BY ONLY <1>1, <1>3, <1>4, IdleType, RequestMoves,
          RegInv, r \in Requests, UNCHANGED <<settings, table>>,
          drawn \subseteq drawn', drawn' \subseteq Users, signed' \subseteq Users

LEMMA GotoMoves ==
    ASSUME RegInv, NEW r \in Requests, ~At(r, "idle"),
           NEW pc \in {"findUsername", "findEmail", "create"},
           Goto(r, pc),
           UNCHANGED <<settings, table, drawn, signed>>
    PROVE  RegInv'
<1> DEFINE to == [req[r] EXCEPT !.pc = pc]
<1>1. req[r] \in Request
  BY DEF RegInv, TypeOK
<1>2. to \in Request /\ to.name = req[r].name /\ to.pw = req[r].pw /\ to.pc = pc
  BY <1>1 DEF Request
<1>3. req' = [req EXCEPT ![r] = to] /\ answer' = answer
  BY DEF Goto
<1>4. AcceptedNames(to.name) /\ to.pw \in Passwords
  BY <1>2 DEF RegInv, Checked
<1> HIDE DEF to
<1> QED
  BY <1>2, <1>3, <1>4, RequestMoves DEF RegInv, TypeOK

LEMMA InitInv == Init => RegInv
<1> SUFFICES ASSUME Init PROVE RegInv
  OBVIOUS
<1>1. TypeOK
  BY IdleType DEF Init, TypeOK, Response
<1> QED
  BY <1>1 DEF Init, RegInv, Filed, Checked, UniqueNames, Stored, At, Idle

LEMMA BeginInv ==
    ASSUME RegInv, NEW r \in Requests, NEW name \in Names, NEW pw \in Passwords,
           Begin(r, name, pw)
    PROVE  RegInv'
<1>1. CASE Respond(r, 400, "invalid")
  BY <1>1, RespondMoves DEF Begin, RegInv, TypeOK
<1>2. CASE ~Respond(r, 400, "invalid")
  <2> DEFINE to == [Idle EXCEPT !.pc = IF name.username # None
                                       THEN "findUsername" ELSE "findEmail",
                                !.name = name, !.pw = pw]
  <2>1. Accepted(name, pw) /\ req' = [req EXCEPT ![r] = to]
    BY <1>2 DEF Begin
  <2>2. to \in Request /\ to.name = name /\ to.pw = pw /\ to.pc # "save"
    BY DEF Idle, Request
  <2>3. AcceptedNames(name) /\ UNCHANGED <<settings, table, drawn, signed, answer>>
    BY <1>2 DEF Begin, Accepted
  <2> HIDE DEF to
  <2> QED
    BY <2>1, <2>2, <2>3, RequestMoves DEF RegInv, TypeOK
<1> QED
  BY <1>1, <1>2

LEMMA LookupInv ==
    ASSUME RegInv, NEW r \in Requests, NEW here, here # "idle", NEW f \in Field,
           NEW next \in {"findEmail", "create"}, Lookup(r, here, f, next)
    PROVE  RegInv'
<1>1. CASE Respond(r, 409, "exists")
  BY <1>1, RespondMoves DEF Lookup, RegInv, TypeOK
<1>2. CASE Goto(r, next)
  BY <1>2, GotoMoves DEF Lookup, At
<1> QED
  BY <1>1, <1>2 DEF Lookup

(* A new account has checked names that no other account has.              *)
LEMMA StoreInv ==
    ASSUME RegInv, NEW r \in Requests, At(r, "create"), NEW id \in Users, id \notin drawn,
           drawn' = drawn \cup {id},
           ~NameTaken(NewUser(id, req[r].name, Argon2id(req[r].pw))),
           table' = [table EXCEPT ![id] = NewUser(id, req[r].name, Argon2id(req[r].pw))],
           UNCHANGED <<settings, signed>>,
           Created(r, id) \/ Respond(r, 500, "failed")
    PROVE  RegInv'
<1> DEFINE user == NewUser(id, req[r].name, Argon2id(req[r].pw))
<1>1. req[r] \in Request /\ AcceptedNames(req[r].name) /\ req[r].pw \in Passwords
  BY DEF RegInv, TypeOK, Checked, At
<1>2. user \in UserRecord /\ user.id = id /\ user.name = req[r].name
  BY <1>1, NewUserType DEF Request
<1>3. user # None
  BY <1>2, NoneIsNoUser
<1> HIDE DEF user
<1>4. /\ table' \in [Users -> UserRecord \cup {None}]
      /\ \A u \in Users : table'[u] = IF u = id THEN user ELSE table[u]
  BY <1>2 DEF RegInv, TypeOK, user
<1>5. Stored' = Stored \cup {id}
  BY <1>3, <1>4 DEF Stored
<1>6. req' \in [Requests -> Request] /\ answer' \in [Requests -> Response]
  <2>1. CASE Created(r, id)
    BY <2>1 DEF Created, RegInv, TypeOK, Request
  <2>2. CASE Respond(r, 500, "failed")
    BY <2>2, IdleType DEF Respond, RegInv, TypeOK, Response
  <2> QED
    BY <2>1, <2>2
<1>7. TypeOK'
  BY <1>4, <1>6 DEF RegInv, TypeOK
<1>8. Filed'
  BY <1>2, <1>4, <1>5 DEF RegInv, Filed, Stored
<1>9. Checked'
  <2>1. \A n : AcceptedNames(n)' <=> AcceptedNames(n)
    BY DEF AcceptedNames
  <2>2. \A u \in Stored' : AcceptedNames(table'[u].name)
    BY <1>1, <1>2, <1>4, <1>5, <2>1 DEF RegInv, Checked, Stored
  <2>3. \A s \in Requests \ {r} : req'[s] = req[s]
    BY DEF Created, Respond, RegInv, TypeOK
  <2>4. \/ req'[r].pc = "idle"
        \/ req'[r].name = req[r].name /\ req'[r].pw = req[r].pw /\ req'[r].id = id
    <3>1. CASE Created(r, id)
      BY <1>1, <3>1 DEF Created, RegInv, TypeOK, Request
    <3>2. CASE Respond(r, 500, "failed")
      BY <3>2 DEF Respond, RegInv, TypeOK, Idle
    <3> QED
      BY <3>1, <3>2
  <2>5. \A s \in Requests : ~At(s, "idle")' => AcceptedNames(req'[s].name) /\ req'[s].pw \in Passwords
    BY <1>1, <2>3, <2>4 DEF RegInv, Checked, At
  <2>6. \A s \in Requests : At(s, "save")' => req'[s].id \in Users
    BY <1>1, <2>3, <2>4 DEF RegInv, Checked, At
  <2> QED
    BY <2>1, <2>2, <2>5, <2>6 DEF Checked, AcceptedNames
<1>10. UniqueNames'
  <2> SUFFICES ASSUME NEW u \in Stored', NEW v \in Stored', SharesKey(table'[u], table'[v]), u # v
               PROVE  FALSE
    BY DEF UniqueNames
  <2>1. CASE u # id /\ v # id
    BY <2>1, <1>4, <1>5 DEF RegInv, UniqueNames, Stored
  <2>2. ~NameTaken(user)
    BY DEF user
  <2>3. \A w \in Stored \ {id} : ~SharesKey(table[w], user)
    BY <1>2, <2>2 DEF NameTaken
  <2>4. CASE u = id
    BY <2>3, <2>4, <1>4, <1>5, SharesKeySymmetric DEF Stored
  <2>5. CASE v = id
    BY <2>3, <2>5, <1>4, <1>5 DEF Stored
  <2> QED
    BY <2>1, <2>4, <2>5
<1> QED
  BY <1>7, <1>8, <1>9, <1>10 DEF RegInv

LEMMA CreateInv ==
    ASSUME RegInv, NEW r \in Requests, NEW id \in Users, Create(r, id)
    PROVE  RegInv'
<1> DEFINE user == NewUser(id, req[r].name, Argon2id(req[r].pw))
<1>1. CASE NameTaken(user) /\ Respond(r, 500, "ErrUserAlreadyExists") /\ UNCHANGED table
  BY <1>1, RespondMoves DEF Create, RegInv, TypeOK
<1>2. CASE /\ ~NameTaken(user)
           /\ table' = [table EXCEPT ![id] = user]
           /\ Created(r, id) \/ Respond(r, 500, "failed")
  BY <1>2, StoreInv DEF Create
<1> QED
  BY <1>1, <1>2 DEF Create

LEMMA SaveInv ==
    ASSUME RegInv, NEW r \in Requests, SaveSession(r)
    PROVE  RegInv'
<1>1. req[r].id \in Users
  BY DEF SaveSession, RegInv, Checked
<1>2. signed' \subseteq Users
  BY <1>1 DEF SaveSession, RegInv, TypeOK
<1> QED
  BY <1>2, RespondMoves DEF SaveSession, RegInv, TypeOK

LEMMA DeleteInv ==
    ASSUME RegInv, NEW d \in Users, DeleteUser(d)
    PROVE  RegInv'
<1>1. \A u \in Users : table'[u] = IF u = d THEN None ELSE table[u]
  BY DEF DeleteUser, RegInv, TypeOK
<1>2. Stored' = Stored \ {d}
  BY <1>1 DEF Stored
<1>3. TypeOK'
  BY DEF DeleteUser, RegInv, TypeOK
<1>4. Filed' /\ UniqueNames'
  BY <1>1, <1>2 DEF DeleteUser, RegInv, Filed, UniqueNames, Stored
<1>5. Checked'
  BY <1>1, <1>2 DEF DeleteUser, RegInv, Checked, Stored, At, AcceptedNames
<1> QED
  BY <1>3, <1>4, <1>5 DEF RegInv

LEMMA NextInv == RegInv /\ [Next]_vars => RegInv'
<1> SUFFICES ASSUME RegInv, [Next]_vars PROVE RegInv'
  OBVIOUS
<1>1. ASSUME NEW r \in Requests, NEW name \in Names, NEW pw \in Passwords, Begin(r, name, pw)
      PROVE  RegInv'
  BY <1>1, BeginInv
<1>2. ASSUME NEW r \in Requests, FindUsername(r) PROVE RegInv'
  BY <1>2, LookupInv DEF FindUsername, Field
<1>3. ASSUME NEW r \in Requests, FindEmail(r) PROVE RegInv'
  BY <1>3, LookupInv DEF FindEmail, Field
<1>4. ASSUME NEW r \in Requests, HashFails(r) \/ CreateFails(r) PROVE RegInv'
  BY <1>4, RespondMoves DEF HashFails, CreateFails, RegInv, TypeOK
<1>5. ASSUME NEW r \in Requests, NEW id \in Users, Create(r, id) PROVE RegInv'
  BY <1>5, CreateInv
<1>6. ASSUME NEW r \in Requests, SaveSession(r) PROVE RegInv'
  BY <1>6, SaveInv
<1>7. ASSUME NEW u \in Users, DeleteUser(u) PROVE RegInv'
  BY <1>7, DeleteInv
<1>8. CASE UNCHANGED vars
  BY <1>8 DEF vars, RegInv, TypeOK, Filed, Checked, UniqueNames, Stored, At, AcceptedNames
<1> QED
  BY <1>1, <1>2, <1>3, <1>4, <1>5, <1>6, <1>7, <1>8 DEF Next

LEMMA RegInvariant == Spec => []RegInv
BY InitInv, NextInv, PTL DEF Spec

(* Every variable keeps its type, for all names, settings and requests.    *)
THEOREM TypeCorrect == Spec => []TypeOK
<1>1. RegInv => TypeOK
  BY DEF RegInv
<1> QED
  BY <1>1, RegInvariant, PTL

(* However many registrations of one name race, and whatever their lookups *)
(* answer, CreateUser lets one of them in.                                 *)
THEOREM Unique == Spec => []UniqueNames
<1>1. RegInv => UniqueNames
  BY DEF RegInv
<1> QED
  BY <1>1, RegInvariant, PTL

(* What handleRegister accepts, getUserByIdentifier finds.                 *)
LEMMA FoundByInv == RegInv => RegisteredIsFound
<1> SUFFICES ASSUME RegInv, NEW u \in Stored, NEW f \in Field, NEW typed \in Spellings,
                    HasKey(table[u], f, Lower[typed])
             PROVE  Identified(typed) = {u}
  BY DEF RegisteredIsFound
<1>1. table[u] \in UserRecord /\ table[u].name \in Names /\ AcceptedNames(table[u].name)
  BY DEF RegInv, TypeOK, Stored, Checked, UserRecord
<1>2. table[u].name[f] # None /\ Lower[table[u].name[f]] = Lower[typed]
  BY DEF HasKey
<1>3. table[u].name[f] \in Spellings
  BY <1>1, <1>2 DEF Names, Field, Spellings
<1>4. "at" \in Chars[table[u].name[f]] <=> "at" \in Chars[typed]
  BY <1>2, <1>3, AtSigns
<1>5. \A v \in Stored : HasKey(table[v], f, Lower[typed]) => v = u
  BY <1>2 DEF RegInv, UniqueNames, HasKey, SharesKey
<1>6. CASE f = "username"
  <2>1. settings.EnableUsernameLogin /\ "at" \notin Chars[typed]
    BY <1>1, <1>2, <1>4, <1>6 DEF AcceptedNames, validateUsername
  <2> QED
    BY <1>5, <1>6, <2>1 DEF Identified
<1>7. CASE f = "email"
  <2>1. settings.EnableEmailLogin /\ "at" \in Chars[typed]
    BY <1>1, <1>2, <1>4, <1>7, AtSigns DEF AcceptedNames, validateEmail
  <2> QED
    BY <1>5, <1>7, <2>1 DEF Identified
<1> QED
  BY <1>6, <1>7 DEF Field

(* Every registered account can be reached by each of its names.           *)
THEOREM Reachable == Spec => []RegisteredIsFound
BY FoundByInv, RegInvariant, PTL

----------------------------------------------------------------------------

(* DuplicateIsConflict holds as long as two things do: no two registrations *)
(* under way at the same time have a name in common,                       *)
NoRivals ==
    \A r, s \in Requests :
        r # s /\ ~At(r, "idle") /\ ~At(s, "idle") => ~SharesKey(req[r], req[s])

(* and no lookup misses a user it should find.                             *)
Misses(r, here, f) ==
    At(r, here) /\ Found(r, f) /\ req'[r].pc \notin {here, "idle"}

NothingMissed ==
    \A r \in Requests : ~Misses(r, "findUsername", "username") /\ ~Misses(r, "findEmail", "email")

(* Then what a request has looked up stays free until it is created.       *)
LookedUp ==
    \A r \in Requests :
        /\ At(r, "findEmail") \/ At(r, "create") => ~Found(r, "username")
        /\ At(r, "create") => ~Found(r, "email")

NeverRefused == \A r \in Requests : answer[r].err # "ErrUserAlreadyExists"

FreeInv == RegInv /\ LookedUp /\ NeverRefused

(* A step of one request that creates no user leaves the others' names     *)
(* free.                                                                   *)
LEMMA StaysFree ==
    ASSUME FreeInv, RegInv', NEW r \in Requests,
           \A s \in Requests \ {r} : req'[s] = req[s] /\ answer'[s] = answer[s],
           \A u \in Users : table'[u] \in {table[u], None},
           answer'[r].err # "ErrUserAlreadyExists",
           At(r, "findEmail")' \/ At(r, "create")' => ~Found(r, "username")',
           At(r, "create")' => ~Found(r, "email")'
    PROVE  FreeInv'
<1>1. NeverRefused'
  BY DEF FreeInv, NeverRefused
<1>2. \A s \in Requests \ {r}, f \in Field : Found(s, f)' => Found(s, f)
  BY DEF Found, Stored
<1>3. \A s \in Requests \ {r} : \A pc : At(s, pc)' <=> At(s, pc)
  BY DEF At
<1>4. LookedUp'
  BY <1>2, <1>3 DEF FreeInv, LookedUp, Field
<1> QED
  BY <1>1, <1>4 DEF FreeInv

(* Every answer but the refusal by CreateUser keeps the invariant.         *)
LEMMA RespondFree ==
    ASSUME FreeInv, RegInv', NEW r \in Requests, NEW status,
           NEW err \in {"none", "invalid", "exists", "failed"},
           Respond(r, status, err),
           \A u \in Users : table'[u] \in {table[u], None}
    PROVE  FreeInv'
<1>1. /\ req \in [Requests -> Request] /\ answer \in [Requests -> Response]
  BY DEF FreeInv, RegInv, TypeOK
<1>2. \A s \in Requests \ {r} : req'[s] = req[s] /\ answer'[s] = answer[s]
  BY <1>1 DEF Respond
<1>3. answer'[r].err = err /\ req'[r].pc = "idle"
  BY <1>1 DEF Respond, Idle
<1> QED
  BY <1>2, <1>3, StaysFree DEF At

LEMMA LookupFree ==
    ASSUME FreeInv, RegInv', NEW r \in Requests, NothingMissed,
           FindUsername(r) \/ FindEmail(r)
    PROVE  FreeInv'
<1>1. /\ req \in [Requests -> Request] /\ answer \in [Requests -> Response]
  BY DEF FreeInv, RegInv, TypeOK
<1>2. UNCHANGED table
  BY DEF FindUsername, FindEmail, Lookup
<1>3. CASE Respond(r, 409, "exists")
  BY <1>2, <1>3, RespondFree
<1>4. ASSUME NEW pc, pc \in {"findEmail", "create"}, Goto(r, pc)
      PROVE  /\ \A s \in Requests \ {r} : req'[s] = req[s] /\ answer'[s] = answer[s]
             /\ answer'[r] = answer[r]
             /\ req'[r].pc = pc /\ req'[r].name = req[r].name
  BY <1>1, <1>4 DEF Goto, Request
<1>5. CASE FindUsername(r) /\ ~Respond(r, 409, "exists")
  <2> DEFINE pc == IF req[r].name.email # None THEN "findEmail" ELSE "create"
  <2>1. At(r, "findUsername") /\ Goto(r, pc)
    BY <1>5 DEF FindUsername, Lookup
  <2>2. pc \in {"findEmail", "create"} /\ (pc = "create" => req[r].name.email = None)
    OBVIOUS
  <2> HIDE DEF pc
  <2>3. /\ \A s \in Requests \ {r} : req'[s] = req[s] /\ answer'[s] = answer[s]
        /\ answer'[r] = answer[r]
        /\ req'[r].pc = pc /\ req'[r].name = req[r].name
    BY <1>4, <2>1, <2>2
  <2>4. ~Found(r, "username")
    BY <2>1, <2>2, <2>3 DEF NothingMissed, Misses
  <2>5. ~Found(r, "username")'
    BY <1>2, <2>3, <2>4 DEF Found, Stored
  <2>6. At(r, "create")' => ~Found(r, "email")'
    BY <2>2, <2>3 DEF At, Found
  <2>7. answer'[r].err # "ErrUserAlreadyExists"
    BY <2>3 DEF FreeInv, NeverRefused
  <2> QED
    BY <1>2, <2>3, <2>5, <2>6, <2>7, StaysFree
<1>6. CASE FindEmail(r) /\ ~Respond(r, 409, "exists")
  <2>1. At(r, "findEmail") /\ Goto(r, "create")
    BY <1>6 DEF FindEmail, Lookup
  <2>2. /\ \A s \in Requests \ {r} : req'[s] = req[s] /\ answer'[s] = answer[s]
        /\ answer'[r] = answer[r]
        /\ req'[r].pc = "create" /\ req'[r].name = req[r].name
    BY <1>4, <2>1
  <2>3. ~Found(r, "username")
    BY <2>1 DEF FreeInv, LookedUp
  <2>4. ~Found(r, "email")
    BY <2>1, <2>2 DEF NothingMissed, Misses
  <2>5. ~Found(r, "username")' /\ ~Found(r, "email")'
    BY <1>2, <2>2, <2>3, <2>4 DEF Found, Stored
  <2>6. answer'[r].err # "ErrUserAlreadyExists"
    BY <2>2 DEF FreeInv, NeverRefused
  <2> QED
    BY <1>2, <2>2, <2>5, <2>6, StaysFree
<1> QED
  BY <1>3, <1>5, <1>6

(* The new user has the names of its request and so of no other.           *)
LEMMA CreateFree ==
    ASSUME FreeInv, RegInv', NoRivals, NEW r \in Requests, NEW id \in Users, Create(r, id)
    PROVE  FreeInv'
<1> DEFINE user == NewUser(id, req[r].name, Argon2id(req[r].pw))
<1>1. /\ req \in [Requests -> Request] /\ answer \in [Requests -> Response]
      /\ table \in [Users -> UserRecord \cup {None}]
      /\ At(r, "create")
  BY DEF FreeInv, RegInv, TypeOK, Create
<1>2. user.name = req[r].name /\ user.id = id
  BY DEF NewUser
<1>3. ~NameTaken(user)
  <2> SUFFICES ASSUME NEW v \in Stored, SharesKey(table[v], user)
               PROVE  FALSE
    BY <1>2 DEF NameTaken
  <2>1. \E f \in Field : Found(r, f)
    BY <1>2 DEF SharesKey, Found, HasKey
  <2> QED
    BY <1>1, <2>1 DEF FreeInv, LookedUp, Field
<1>4. /\ table' = [table EXCEPT ![id] = user]
      /\ Created(r, id) \/ Respond(r, 500, "failed")
  BY <1>3 DEF Create
<1> HIDE DEF user
<1>5. /\ \A s \in Requests \ {r} : req'[s] = req[s] /\ answer'[s] = answer[s]
      /\ req'[r].pc \in {"save", "idle"}
      /\ answer'[r].err \in {answer[r].err, "failed"}
  BY <1>1, <1>4 DEF Created, Respond, Idle, Request
<1>6. NeverRefused'
  BY <1>5 DEF FreeInv, NeverRefused
<1>7. ASSUME NEW s \in Requests \ {r}, ~At(s, "idle"), NEW f \in Field, Found(s, f)'
      PROVE  Found(s, f)
  <2>1. ~SharesKey(req[s], req[r])
    BY <1>1, <1>7 DEF NoRivals, At
  <2>2. \A u \in Users \ {id} : table'[u] = table[u]
    BY <1>1, <1>4
  <2>3. table'[id] = user
    BY <1>1, <1>4
  <2>4. req'[s] = req[s]
    BY <1>5
  <2>5. PICK u \in Stored' : req[s].name[f] # None /\ HasKey(table'[u], f, Lower[req[s].name[f]])
    BY <1>7, <2>4 DEF Found
  <2>6. u # id
    BY <1>2, <2>1, <2>3, <2>5 DEF HasKey, SharesKey
  <2> QED
    BY <2>2, <2>5, <2>6 DEF Found, Stored
<1>8. LookedUp'
  BY <1>5, <1>7 DEF FreeInv, LookedUp, At, Field
<1> QED
  BY <1>6, <1>8 DEF FreeInv

LEMMA FreeStep == FreeInv /\ NoRivals /\ [Next]_vars /\ [NothingMissed]_vars => FreeInv'
<1> SUFFICES ASSUME FreeInv, NoRivals, [Next]_vars, [NothingMissed]_vars PROVE FreeInv'
  OBVIOUS
<1>1. RegInv'
  BY NextInv DEF FreeInv
<1>2. /\ req \in [Requests -> Request] /\ answer \in [Requests -> Response]
      /\ table \in [Users -> UserRecord \cup {None}]
  BY DEF FreeInv, RegInv, TypeOK
<1>3. CASE UNCHANGED vars
  BY <1>1, <1>3 DEF vars, FreeInv, LookedUp, NeverRefused, At, Found, Stored
<1>4. ASSUME NEW r \in Requests, NEW name \in Names, NEW pw \in Passwords, Begin(r, name, pw)
      PROVE  FreeInv'
  <2>1. UNCHANGED table
    BY <1>4 DEF Begin
  <2>2. CASE Respond(r, 400, "invalid")
    BY <1>1, <2>1, <2>2, RespondFree
  <2>3. CASE ~Respond(r, 400, "invalid")
    <3> DEFINE pc == IF name.username # None THEN "findUsername" ELSE "findEmail"
               to == [Idle EXCEPT !.pc = pc, !.name = name, !.pw = pw]
    <3>1. req' = [req EXCEPT ![r] = to] /\ answer' = answer
      BY <1>4, <2>3 DEF Begin
    <3>2. to.pc = pc /\ to.name = name
      BY DEF Idle
    <3>3. pc \in {"findUsername", "findEmail"} /\ (pc = "findEmail" => name.username = None)
      OBVIOUS
    <3> HIDE DEF pc, to
    <3>4. /\ \A s \in Requests \ {r} : req'[s] = req[s] /\ answer'[s] = answer[s]
          /\ answer'[r] = answer[r]
          /\ req'[r].pc \in {"findUsername", "findEmail"} /\ req'[r].name = name
          /\ req'[r].pc = "findEmail" => name.username = None
      BY <1>2, <3>1, <3>2, <3>3
    <3>5. At(r, "findEmail")' \/ At(r, "create")' => ~Found(r, "username")'
      BY <3>4 DEF At, Found
    <3>6. ~At(r, "create")'
      BY <3>4 DEF At
    <3>7. answer'[r].err # "ErrUserAlreadyExists"
      BY <3>4 DEF FreeInv, NeverRefused
    <3> QED
      BY <1>1, <2>1, <3>4, <3>5, <3>6, <3>7, StaysFree
  <2> QED
    BY <2>2, <2>3
<1>5. ASSUME NEW r \in Requests, FindUsername(r) \/ FindEmail(r) PROVE FreeInv'
  <2>1. NothingMissed \/ UNCHANGED vars
    OBVIOUS
  <2> QED
    BY <1>1, <1>3, <1>5, <2>1, LookupFree
<1>6. ASSUME NEW r \in Requests, HashFails(r) \/ CreateFails(r) PROVE FreeInv'
  <2>1. Respond(r, 500, "failed") /\ UNCHANGED table
    BY <1>6 DEF HashFails, CreateFails
  <2> QED
    BY <1>1, <2>1, RespondFree
<1>7. ASSUME NEW r \in Requests, NEW id \in Users, Create(r, id) PROVE FreeInv'
  BY <1>1, <1>7, CreateFree
<1>8. ASSUME NEW r \in Requests, SaveSession(r) PROVE FreeInv'
  <2>1. UNCHANGED table /\ (Respond(r, 201, "none") \/ Respond(r, 500, "failed"))
    BY <1>8 DEF SaveSession
  <2> QED
    BY <1>1, <2>1, RespondFree
<1>9. ASSUME NEW d \in Users, DeleteUser(d) PROVE FreeInv'
  <2>1. \A u \in Users : table'[u] \in {table[u], None}
    BY <1>2, <1>9 DEF DeleteUser
  <2>2. UNCHANGED <<req, answer>>
    BY <1>9 DEF DeleteUser
  <2>3. \A s \in Requests, f \in Field : Found(s, f)' => Found(s, f)
    BY <2>1, <2>2 DEF Found, Stored
  <2> QED
    BY <1>1, <2>2, <2>3 DEF FreeInv, LookedUp, NeverRefused, At, Field
<1> QED
  BY <1>3, <1>4, <1>5, <1>6, <1>7, <1>8, <1>9 DEF Next

(* A duplicate is answered 409 unless two registrations of one name meet   *)
(* or a lookup fails: the 500 has no other cause.                          *)
THEOREM Conflicts == Spec /\ []NoRivals /\ [][NothingMissed]_vars => []DuplicateIsConflict
<1>1. Init => FreeInv
  BY InitInv DEF Init, FreeInv, LookedUp, NeverRefused, At, Idle
<1>2. FreeInv => DuplicateIsConflict
  BY DEF FreeInv, NeverRefused, DuplicateIsConflict
<1> QED
  BY <1>1, <1>2, FreeStep, PTL DEF Spec

=============================================================================
