----------------------------- MODULE UserStore -----------------------------
(***************************************************************************)
(* MemoryStorage: UserTable built from pointers.  User structs live on a   *)
(* heap; one map by ID and two by lower-cased name point to them, and so   *)
(* does the caller, who may write to any struct it was ever handed.  That  *)
(* the promise of UserTable still holds rests on cloneUser (no struct is   *)
(* shared with a caller) and on UpdateUser and DeleteUser keeping the      *)
(* three maps on the same struct.                                          *)
(*                                                                         *)
(* Every method holds the store's mutex from start to end (GetUserBy...    *)
(* its read half), so each is one step.  A struct and the strings, times   *)
(* and slices it points to are one heap cell: cloneUser copies them all.   *)
(***************************************************************************)
EXTENDS UserRecords

CONSTANTS
    Refs,          \* heap addresses
    MaxAttempts    \* the limit callers pass to ConsumeTOTPAttempt

ASSUME RefConstants == None \notin Refs /\ MaxAttempts \in Nat

VARIABLES
    heap,   \* the struct at each address, None where nothing points to
    users,  \* MemoryStorage.users
    index,  \* usersByUsername and usersByEmail
    hand,   \* the pointer the caller holds
    reply   \* what the last call answered

vars == <<heap, users, index, hand, reply>>

maps == <<users, index>>

Stored == {u \in Users : users[u] # None}

(* A name's entry in the index of its field; an absent name has none.      *)
Entry(name, f) == IF name[f] = None THEN None ELSE index[f][Lower[name[f]]]

Pointers ==
    {hand} \cup {users[u] : u \in Users}
           \cup {index[f][k] : f \in Field, k \in Keys}

Init ==
    /\ heap = [r \in Refs |-> None]
    /\ users = [u \in Users |-> None]
    /\ index = [f \in Field |-> [k \in Keys |-> None]]
    /\ hand = None
    /\ reply = Answer("ok")

----------------------------------------------------------------------------
(* The Go heap *)

(* r now holds user, and the collector drops what nothing points to.       *)
Write(r, user) ==
    heap' = [x \in Refs |-> IF x \notin Pointers' THEN None
                            ELSE IF x = r THEN user ELSE heap[x]]

Unwritten == heap' = [x \in Refs |-> IF x \in Pointers' THEN heap[x] ELSE None]

Unused(r) == r \in Refs \ Pointers

(* Faulty variant for mutation: the caller gets the stored pointer.        *)
ShareUser(r) == /\ hand' = r
                /\ UNCHANGED maps
                /\ Unwritten

(* The caller is handed a clone of the struct at r.                        *)
GiveClone(r) ==
    \E copy \in Refs :
        /\ Unused(copy)
        /\ hand' = copy
        /\ UNCHANGED maps
        /\ Write(copy, heap[r])

----------------------------------------------------------------------------
(* The caller's own steps, on the struct it points to.                     *)

Build(id, name, hash) ==
    \E r \in Refs :
        /\ Unused(r)
        /\ hand' = r
        /\ UNCHANGED <<users, index, reply>>
        /\ Write(r, NewUser(id, name, hash))

Rename(name) ==
    /\ hand # None
    /\ UNCHANGED <<users, index, hand, reply>>
    /\ Write(hand, [heap[hand] EXCEPT !.name = name])

Rehash(hash) ==
    /\ hand # None
    /\ UNCHANGED <<users, index, hand, reply>>
    /\ Write(hand, [heap[hand] EXCEPT !.acct.hash = hash])

----------------------------------------------------------------------------

Refuse(err) == reply' = Answer(err) /\ UNCHANGED <<heap, users, index, hand>>

(* Every name of user now leads to r.                                      *)
Indexed(ix, user, r) ==
    [f \in Field |-> [k \in Keys |-> IF HasKey(user, f, k) THEN r ELSE ix[f][k]]]

(* Faulty variant for mutation: the old names stay in the index.           *)
KeepNames(ix, user) == ix

(* The names of user are deleted from the index.                           *)
Unindexed(ix, user) == Indexed(ix, user, None)

CreateUser ==
    LET user == heap[hand]
        taken == \/ user.id \in Stored
                 \/ \E f \in Field : Entry(user.name, f) # None
    IN  /\ hand # None
        /\ \/ /\ taken
              /\ Refuse("ErrUserAlreadyExists")
           \/ /\ ~taken
              /\ \E r \in Refs :
                    /\ Unused(r)
                    /\ users' = [users EXCEPT ![user.id] = r]
                    /\ index' = Indexed(index, user, r)
                    /\ reply' = Answer("ok")
                    /\ UNCHANGED hand
                    /\ Write(r, user)

(* Faulty variant for mutation: one security field is not carried over.    *)
StaleCounter(user, existing) ==
    [user EXCEPT !.acct.secret = existing.acct.secret, !.acct.codes = existing.acct.codes]

(* The clone of the caller's user, with the security fields now stored.    *)
Updated(user, existing) ==
    [user EXCEPT !.acct.secret = existing.acct.secret,
                 !.acct.codes = existing.acct.codes,
                 !.acct.failed = existing.acct.failed]

UpdateProfile ==
    LET user == heap[hand]
        existing == heap[users[user.id]]
        taken == \E f \in Field : /\ Entry(user.name, f) # None
                                  /\ heap[Entry(user.name, f)].id # user.id
    IN  /\ hand # None
        /\ \/ /\ user.id \notin Stored
              /\ Refuse("ErrUserNotFound")
           \/ /\ user.id \in Stored /\ taken
              /\ Refuse("ErrUserAlreadyExists")
           \/ /\ user.id \in Stored /\ ~taken
              /\ \E r \in Refs :
                    /\ Unused(r)
                    /\ users' = [users EXCEPT ![user.id] = r]
                    /\ index' = Indexed(Unindexed(index, existing), user, r)
                    /\ reply' = Answer("ok")
                    /\ UNCHANGED hand
                    /\ Write(r, Updated(user, existing))

DeleteUser(id) ==
    \/ id \notin Stored /\ Refuse("ErrUserNotFound")
    \/ /\ id \in Stored
       /\ users' = [users EXCEPT ![id] = None]
       /\ index' = Unindexed(index, heap[users[id]])
       /\ reply' = Answer("ok")
       /\ UNCHANGED hand
       /\ Unwritten

Get(r) ==
    \/ r = None /\ Refuse("ErrUserNotFound")
    \/ r # None /\ reply' = Answer("ok") /\ GiveClone(r)

GetUserByID(id) == Get(users[id])

GetUserByName(f, spelling) == Get(index[f][Lower[spelling]])

(* withUser: a change of the stored struct in place.                       *)
WithUser(id, changed, answer) ==
    \/ id \notin Stored /\ Refuse("ErrUserNotFound")
    \/ /\ id \in Stored
       /\ reply' = answer
       /\ UNCHANGED <<users, index, hand>>
       /\ Write(users[id], [heap[users[id]] EXCEPT !.acct = changed])

StoredAccount(id) == heap[users[id]].acct

Attempt(id) ==
    LET a == StoredAccount(id)
        after == ConsumeTOTPAttempt(a)
    IN  \/ /\ id \in Stored
           /\ ~CanConsumeTOTPAttempt(a, MaxAttempts)
           /\ Refuse("ErrTFAAttemptsExhausted")
        \/ /\ id \in Stored => CanConsumeTOTPAttempt(a, MaxAttempts)
           /\ WithUser(id, after, [err |-> "ok", n |-> AttemptsRemaining(after, MaxAttempts)])

UseCode(id, code) ==
    WithUser(id, ConsumeBackupCode(StoredAccount(id), code),
             [err |-> "ok", n |-> IF code \in StoredAccount(id).codes THEN 1 ELSE 0])

Next ==
    \/ \E id \in Users, name \in Names, hash \in Hash : Build(id, name, hash)
    \/ \E name \in Names : Rename(name)
    \/ \E hash \in Hash : Rehash(hash)
    \/ CreateUser
    \/ UpdateProfile
    \/ \E id \in Users :
          \/ DeleteUser(id)
          \/ GetUserByID(id)
          \/ Attempt(id)
          \/ WithUser(id, ResetTOTPAttempts(StoredAccount(id)), Answer("ok"))
          \/ \E code \in Codes : UseCode(id, code)
          \/ \E secret \in Secrets, codes \in SUBSET Codes :
                WithUser(id, SetTOTP(StoredAccount(id), secret, codes), Answer("ok"))
          \/ WithUser(id, ClearTOTP(StoredAccount(id)), Answer("ok"))
    \/ \E f \in Field : \E spelling \in Spellings : GetUserByName(f, spelling)

Spec == Init /\ [][Next]_vars

----------------------------------------------------------------------------

TypeOK ==
    /\ heap \in [Refs -> UserRecord \cup {None}]
    /\ users \in [Users -> Refs \cup {None}]
    /\ index \in [Field -> [Keys -> Refs \cup {None}]]
    /\ hand \in Refs \cup {None}
    /\ reply \in Reply

(* The three maps agree: a name's entry is exactly the struct the ID map   *)
(* holds for the one user with that name, so no lookup returns a deleted,  *)
(* renamed or outdated user.                                               *)
IndexConsistent ==
    \A f \in Field, k \in Keys, r \in Refs :
        index[f][k] = r <=> \E u \in Stored : users[u] = r /\ HasKey(heap[r], f, k)

(* Callers hold copies: no caller's write reaches the store, and the store *)
(* behaves like the table of values storage_interface.go promises.         *)
Table == INSTANCE UserTable WITH
    table <- [u \in Users |-> IF users[u] = None THEN None ELSE heap[users[u]]],
    hand <- IF hand = None THEN None ELSE heap[hand]

Implements == Table!Spec

=============================================================================
