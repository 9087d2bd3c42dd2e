---------------------------- MODULE UserRecords ----------------------------
(***************************************************************************)
(* types.go's User as the storage sees it: its ID, the two names it can be *)
(* found by, and the Account that Storage's operators change.              *)
(***************************************************************************)
EXTENDS Storage

CONSTANTS
    Usernames,  \* spellings of usernames
    Emails,     \* spellings of e-mail addresses
    Lower       \* strings.ToLower on those spellings

Spellings == Usernames \cup Emails

ASSUME UserConstants ==
    /\ None \notin Spellings
    /\ DOMAIN Lower = Spellings

Keys == {Lower[s] : s \in Spellings}

Field == {"username", "email"}

Names == [username: Usernames \cup {None}, email: Emails \cup {None}]

UserRecord == [id: Users, name: Names, acct: Account]

ASSUME NoneIsNoUser == None \notin UserRecord

(* The user is found under key k in the index of field f.                  *)
HasKey(user, f, k) == user.name[f] # None /\ Lower[user.name[f]] = k

SharesKey(a, b) ==
    \E f \in Field : a.name[f] # None /\ b.name[f] # None /\ Lower[a.name[f]] = Lower[b.name[f]]

(* A user as handleRegister builds it: no second factor yet.               *)
NewUser(id, name, hash) ==
    [id |-> id, name |-> name,
     acct |-> [hash |-> hash, secret |-> None, codes |-> {}, failed |-> 0]]

(* What a storage call answers: its error, and the number or bool beside it *)
(* (attempts left; 1 for "removed").                                       *)
Reply == [err: {"ok", "ErrUserAlreadyExists", "ErrUserNotFound", "ErrTFAAttemptsExhausted"},
          n: Nat]

Answer(err) == [err |-> err, n |-> 0]

=============================================================================
