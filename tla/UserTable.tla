----------------------------- MODULE UserTable -----------------------------
(***************************************************************************)
(* What storage_interface.go promises, with values only: a table with at   *)
(* most one user per ID, whose names are unique up to letter case, and a   *)
(* caller that works on a copy of its own (hand).  UpdateUser changes the  *)
(* profile only; the security state moves by the narrow operations.        *)
(***************************************************************************)
EXTENDS UserRecords

CONSTANT MaxAttempts   \* the limit callers pass to ConsumeTOTPAttempt

VARIABLES
    table,  \* the stored users
    hand,   \* the *User the caller holds: what it read or built
    reply   \* what the last call answered

vars == <<table, hand, reply>>

Stored == {u \in Users : table[u] # None}

Init ==
    /\ table = [u \in Users |-> None]
    /\ hand = None
    /\ reply = Answer("ok")

----------------------------------------------------------------------------
(* The caller's own steps: it builds a user or edits the copy it holds.    *)

Build(id, name, hash) ==
    /\ hand' = NewUser(id, name, hash)
    /\ UNCHANGED <<table, reply>>

Rename(name) ==
    /\ hand # None
    /\ hand' = [hand EXCEPT !.name = name]
    /\ UNCHANGED <<table, reply>>

Rehash(hash) ==
    /\ hand # None
    /\ hand' = [hand EXCEPT !.acct.hash = hash]
    /\ UNCHANGED <<table, reply>>

----------------------------------------------------------------------------
(* Storage calls *)

Refuse(err) == reply' = Answer(err) /\ UNCHANGED <<table, hand>>

(* Another stored user has one of the caller's user's names.               *)
NameTaken == \E v \in Stored \ {hand.id} : SharesKey(table[v], hand)

CreateUser ==
    /\ hand # None
    /\ \/ /\ hand.id \in Stored \/ NameTaken
          /\ Refuse("ErrUserAlreadyExists")
       \/ /\ hand.id \notin Stored /\ ~NameTaken
          /\ table' = [table EXCEPT ![hand.id] = hand]
          /\ reply' = Answer("ok")
          /\ UNCHANGED hand

UpdateProfile ==
    /\ hand # None
    /\ \/ /\ hand.id \notin Stored
          /\ Refuse("ErrUserNotFound")
       \/ /\ hand.id \in Stored /\ NameTaken
          /\ Refuse("ErrUserAlreadyExists")
       \/ /\ hand.id \in Stored /\ ~NameTaken
          /\ table' = [table EXCEPT ![hand.id] =
                         [hand EXCEPT !.acct = UpdateUser(table[hand.id].acct, @)]]
          /\ reply' = Answer("ok")
          /\ UNCHANGED hand

DeleteUser(id) ==
    \/ id \notin Stored /\ Refuse("ErrUserNotFound")
    \/ /\ id \in Stored
       /\ table' = [table EXCEPT ![id] = None]
       /\ reply' = Answer("ok")
       /\ UNCHANGED hand

Get(found) ==
    \/ found = {} /\ Refuse("ErrUserNotFound")
    \/ \E u \in found :
          /\ hand' = table[u]
          /\ reply' = Answer("ok")
          /\ UNCHANGED table

GetUserByID(id) == Get({id} \cap Stored)

GetUserByName(f, spelling) == Get({u \in Stored : HasKey(table[u], f, Lower[spelling])})

(* The narrow operations: one change of the stored user's account.         *)
WithUser(id, changed, answer) ==
    \/ id \notin Stored /\ Refuse("ErrUserNotFound")
    \/ /\ id \in Stored
       /\ table' = [table EXCEPT ![id].acct = changed]
       /\ reply' = answer
       /\ UNCHANGED hand

Attempt(id) ==
    LET a == table[id].acct
        after == ConsumeTOTPAttempt(a)
    IN  \/ /\ id \in Stored
           /\ ~CanConsumeTOTPAttempt(a, MaxAttempts)
           /\ Refuse("ErrTFAAttemptsExhausted")
        \/ /\ id \in Stored => CanConsumeTOTPAttempt(a, MaxAttempts)
           /\ WithUser(id, after, [err |-> "ok", n |-> AttemptsRemaining(after, MaxAttempts)])

UseCode(id, code) ==
    WithUser(id, ConsumeBackupCode(table[id].acct, code),
             [err |-> "ok", n |-> IF code \in table[id].acct.codes THEN 1 ELSE 0])

Next ==
    \/ \E id \in Users, name \in Names, hash \in Hash : Build(id, name, hash)
    \/ \E name \in Names : Rename(name)
    \/ \E hash \in Hash : Rehash(hash)
    \/ CreateUser
    \/ UpdateProfile
    \/ \E id \in Users :
          \/ DeleteUser(id)
          \/ GetUserByID(id)
          \/ Attempt(id)
          \/ WithUser(id, ResetTOTPAttempts(table[id].acct), Answer("ok"))
          \/ \E code \in Codes : UseCode(id, code)
          \/ \E secret \in Secrets, codes \in SUBSET Codes :
                WithUser(id, SetTOTP(table[id].acct, secret, codes), Answer("ok"))
          \/ WithUser(id, ClearTOTP(table[id].acct), Answer("ok"))
    \/ \E f \in Field : \E spelling \in Spellings : GetUserByName(f, spelling)

Spec == Init /\ [][Next]_vars

=============================================================================
