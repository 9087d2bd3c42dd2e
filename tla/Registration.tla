---------------------------- MODULE Registration ----------------------------
(***************************************************************************)
(* POST /auth/register, running concurrently against one user table: look  *)
(* the names up, then create the account, then sign the session.  Between  *)
(* the three storage calls of one request any other request may run, and   *)
(* the lookups promise nothing by the time CreateUser is called.           *)
(*                                                                         *)
(* Beside it, what a registration is for: getUserByIdentifier, by which    *)
(* handleLogin finds the account from what a user types.                   *)
(*                                                                         *)
(* A name is a value with a length and the kinds of characters it is made  *)
(* of, which is all validation.go and getUserByIdentifier look at.         *)
(***************************************************************************)
EXTENDS UserRecords, FiniteSets

CONSTANTS
    Requests,        \* request slots: how many handlers run at once
    Configurations,  \* the settings NewHandler may be given
    Length,          \* the length of each name, in bytes
    Chars,           \* the kinds of characters in each name
    EmailShaped,     \* the names of the form local@domain.tld
    PasswordLength,  \* the length of each password, in bytes
    PasswordChars    \* the kinds of characters in each password

CharKinds == {"letter", "digit", "underscore", "dot", "at", "other"}

PasswordKinds == {"upper", "lower", "digit", "special", "other"}

Requirements == [minLength: Nat, kinds: SUBSET PasswordKinds]

ASSUME NameConstants ==
    /\ Length \in [Spellings -> Nat]
    /\ Chars \in [Spellings -> SUBSET CharKinds]
    /\ PasswordLength \in [Passwords -> Nat]
    /\ PasswordChars \in [Passwords -> SUBSET PasswordKinds]
    /\ Configurations \subseteq [EnableRegistration: BOOLEAN, EnableUsernameLogin: BOOLEAN,
                                 EnableEmailLogin: BOOLEAN, requirements: Requirements]

(* An e-mail address has an "@", and strings.ToLower makes and removes none. *)
ASSUME AtSigns ==
    /\ EmailShaped \subseteq {s \in Spellings : "at" \in Chars[s]}
    /\ \A s, t \in Spellings : Lower[s] = Lower[t] => ("at" \in Chars[s] <=> "at" \in Chars[t])

VARIABLES
    settings,  \* BasicAuthSettings, fixed once the server runs
    table,     \* the stored users
    drawn,     \* the user IDs uuid.New has returned
    req,       \* the state of each request handler
    signed,    \* users a login session was signed for
    answer     \* what the last request of each slot was answered

vars == <<settings, table, drawn, req, signed, answer>>

Stored == {u \in Users : table[u] # None}

(* What a request was answered (0: nothing yet), and the error behind it.  *)
Response == [status: {0, 201, 400, 409, 500},
             err: {"none", "invalid", "exists", "ErrUserAlreadyExists", "failed"}]

NoName == [username |-> None, email |-> None]

Request == [pc: {"idle", "findUsername", "findEmail", "create", "save"},
            id: Users \cup {None}, name: Names, pw: Passwords \cup {None}]

Idle == [pc |-> "idle", id |-> None, name |-> NoName, pw |-> None]

At(r, pc) == req[r].pc = pc

Respond(r, status, err) ==
    /\ answer' = [answer EXCEPT ![r] = [status |-> status, err |-> err]]
    /\ req' = [req EXCEPT ![r] = Idle]

Goto(r, pc) == req' = [req EXCEPT ![r].pc = pc] /\ UNCHANGED answer

Init ==
    /\ settings \in Configurations
    /\ table = [u \in Users |-> None]
    /\ drawn = {}
    /\ req = [r \in Requests |-> Idle]
    /\ signed = {}
    /\ answer = [r \in Requests |-> [status |-> 0, err |-> "none"]]

----------------------------------------------------------------------------
(* validation.go *)

(* Faulty variant for mutation: only the length is checked.                *)
AnyCharacters(name) == Length[name] \in 3..50

validateUsername(name) ==
    /\ Length[name] \in 3..50
    /\ Chars[name] \subseteq {"letter", "digit", "underscore"}

validateEmail(name) == name \in EmailShaped

validatePassword(pw, reqs) ==
    /\ PasswordLength[pw] >= reqs.minLength
    /\ reqs.kinds \subseteq PasswordChars[pw]

(* HashPassword's own limit, which validatePassword does not know.         *)
Hashable(pw) == PasswordLength[pw] \in 1..72

(* Faulty variant for mutation: the login methods are not consulted.       *)
AnyMethod(name) ==
    /\ name # NoName
    /\ name.username # None => validateUsername(name.username)
    /\ name.email # None => validateEmail(name.email)

(* The names handleRegister accepts under the settings.                    *)
AcceptedNames(name) ==
    /\ name # NoName
    /\ name.username # None => settings.EnableUsernameLogin /\ validateUsername(name.username)
    /\ name.email # None => settings.EnableEmailLogin /\ validateEmail(name.email)

----------------------------------------------------------------------------
(* handleRegister *)

Accepted(name, pw) ==
    AcceptedNames(name) /\ validatePassword(pw, settings.requirements)

Begin(r, name, pw) ==
    /\ settings.EnableRegistration
    /\ At(r, "idle")
    /\ \/ /\ ~Accepted(name, pw)
          /\ Respond(r, 400, "invalid")
       \/ /\ Accepted(name, pw)
          /\ req' = [req EXCEPT ![r] =
                       [Idle EXCEPT !.pc = IF name.username # None
                                           THEN "findUsername" ELSE "findEmail",
                                    !.name = name, !.pw = pw]]
          /\ UNCHANGED answer
    /\ UNCHANGED <<settings, table, drawn, signed>>

(* GetUserBy... of one field of the user's name finds somebody.            *)
Found(r, f) == \E u \in Stored : /\ req[r].name[f] # None
                                 /\ HasKey(table[u], f, Lower[req[r].name[f]])

(* One lookup: a hit is a conflict; any error, "not found" or not, goes on. *)
Lookup(r, here, f, next) ==
    /\ At(r, here)
    /\ \/ /\ Found(r, f)
          /\ Respond(r, 409, "exists")
       \/ Goto(r, next)
    /\ UNCHANGED <<settings, table, drawn, signed>>

FindUsername(r) ==
    Lookup(r, "findUsername", "username",
           IF req[r].name.email # None THEN "findEmail" ELSE "create")

FindEmail(r) == Lookup(r, "findEmail", "email", "create")

HashFails(r) ==
    /\ At(r, "create")
    /\ ~Hashable(req[r].pw)
    /\ Respond(r, 500, "failed")
    /\ UNCHANGED <<settings, table, drawn, signed>>

(* Faulty variant for mutation: the storage relies on the lookups.         *)
NeverTaken(user) == FALSE

(* CreateUser's own check, under the storage's lock.                       *)
NameTaken(user) == \E v \in Stored \ {user.id} : SharesKey(table[v], user)

(* Faulty variant for mutation: the new ID does not reach the session.     *)
NoID(r, id) == req' = [req EXCEPT ![r].pc = "save"] /\ UNCHANGED answer

Created(r, id) ==
    req' = [req EXCEPT ![r].pc = "save", ![r].id = id] /\ UNCHANGED answer

(* CreateUser refuses, succeeds, or succeeds while its answer is lost.     *)
Create(r, id) ==
    LET user == NewUser(id, req[r].name, Argon2id(req[r].pw))
    IN  /\ At(r, "create")
        /\ Hashable(req[r].pw)
        /\ id \notin drawn
        /\ drawn' = drawn \cup {id}
        /\ \/ /\ NameTaken(user)
              /\ Respond(r, 500, "ErrUserAlreadyExists")
              /\ UNCHANGED table
           \/ /\ ~NameTaken(user)
              /\ table' = [table EXCEPT ![id] = user]
              /\ Created(r, id) \/ Respond(r, 500, "failed")
        /\ UNCHANGED <<settings, signed>>

CreateFails(r) ==
    /\ At(r, "create")
    /\ Respond(r, 500, "failed")
    /\ UNCHANGED <<settings, table, drawn, signed>>

(* createSession; if the save fails, the account stays.                    *)
SaveSession(r) ==
    /\ At(r, "save")
    /\ \/ /\ Respond(r, 201, "none")
          /\ signed' = signed \cup {req[r].id}
       \/ /\ Respond(r, 500, "failed")
          /\ UNCHANGED signed
    /\ UNCHANGED <<settings, table, drawn>>

(* The application deletes an account.                                     *)
DeleteUser(u) ==
    /\ u \in Stored
    /\ table' = [table EXCEPT ![u] = None]
    /\ UNCHANGED <<settings, drawn, req, signed, answer>>

Next ==
    \/ \E r \in Requests :
          \/ \E name \in Names, pw \in Passwords : Begin(r, name, pw)
          \/ FindUsername(r)
          \/ FindEmail(r)
          \/ HashFails(r)
          \/ \E id \in Users : Create(r, id)
          \/ CreateFails(r)
          \/ SaveSession(r)
    \/ \E u \in Users : DeleteUser(u)

Spec == Init /\ [][Next]_vars

----------------------------------------------------------------------------
(* getUserByIdentifier: the accounts handleLogin may find for what was typed. *)

(* Faulty variant for mutation: an address is looked up as typed.          *)
ExactSpelling(typed) ==
    {u \in Stored :
        \/ "at" \in Chars[typed] /\ settings.EnableEmailLogin /\ table[u].name.email = typed
        \/ "at" \notin Chars[typed] /\ settings.EnableUsernameLogin /\ table[u].name.username = typed}

Identified(typed) ==
    {u \in Stored :
        \/ /\ "at" \in Chars[typed]
           /\ settings.EnableEmailLogin
           /\ HasKey(table[u], "email", Lower[typed])
        \/ /\ "at" \notin Chars[typed]
           /\ settings.EnableUsernameLogin
           /\ HasKey(table[u], "username", Lower[typed])}

----------------------------------------------------------------------------

TypeOK ==
    /\ settings \in Configurations
    /\ table \in [Users -> UserRecord \cup {None}]
    /\ drawn \subseteq Users
    /\ req \in [Requests -> Request]
    /\ signed \subseteq Users
    /\ answer \in [Requests -> Response]

(* However registrations race and their lookups fail, no two accounts ever *)
(* have a username or an e-mail address in common, in any letter case.     *)
UniqueNames == \A u, v \in Stored : SharesKey(table[u], table[v]) => u = v

(* Every name an account was registered with, typed in any letter case,    *)
(* leads handleLogin to that account and no other: neither a disabled      *)
(* login method nor a username that looks like an address is in the way.   *)
(* It holds of an account left behind by a failed session save, too.       *)
RegisteredIsFound ==
    \A u \in Stored, f \in Field, typed \in Spellings :
        HasKey(table[u], f, Lower[typed]) => Identified(typed) = {u}

(* A name that is already registered is answered 409 "user_exists", as the *)
(* duplicate-registration tests expect.                                    *)
DuplicateIsConflict ==
    \A r \in Requests : answer[r].err = "ErrUserAlreadyExists" => answer[r].status = 409

=============================================================================
