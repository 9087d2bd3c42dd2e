----------------------------- MODULE TwoFactor -----------------------------
(***************************************************************************)
(* What AuthServer promises of a second factor, with all handlers, cookies *)
(* and storage calls left out: who may sign in, and what becomes of backup *)
(* codes.  A code is spent in one step, together with the clearance it     *)
(* buys, and a clearance signs in its own user, once or not at all.        *)
(***************************************************************************)
CONSTANTS
    None,
    Users,
    Secrets,
    Codes,
    Requests     \* what may hold a clearance

VARIABLES
    secret,      \* the secret each user is enrolled with, or None
    unspent,     \* the backup codes of each user that would be accepted
    spent,       \* the backup codes that have been accepted
    cleared,     \* the user for whom a request has passed the second factor
    optional,    \* users who have at some time not been enrolled
    sessions     \* users for whom a login session has been signed

vars == <<secret, unspent, spent, cleared, optional, sessions>>

Init ==
    /\ secret \in [Users -> Secrets \cup {None}]
    /\ unspent \in [Users -> SUBSET Codes]
    /\ \A u, v \in Users : u # v => unspent[u] \cap unspent[v] = {}
    /\ spent = {}
    /\ cleared = [r \in Requests |-> None]
    /\ optional = {u \in Users : secret[u] = None}
    /\ sessions = {}

(* The password was enough.                                                *)
SignInByPassword(u) ==
    /\ u \in optional
    /\ sessions' = sessions \cup {u}
    /\ UNCHANGED <<secret, unspent, spent, cleared, optional>>

(* A TOTP code was accepted.                                               *)
Show(r, u) ==
    /\ secret[u] # None \/ u \in optional
    /\ cleared[r] = None
    /\ cleared' = [cleared EXCEPT ![r] = u]
    /\ UNCHANGED <<secret, unspent, spent, optional, sessions>>

(* A backup code was accepted.                                             *)
Spend(r, u, code) ==
    /\ code \in unspent[u] \ spent
    /\ cleared[r] = None
    /\ unspent' = [unspent EXCEPT ![u] = @ \ {code}]
    /\ spent' = spent \cup {code}
    /\ cleared' = [cleared EXCEPT ![r] = u]
    /\ UNCHANGED <<secret, optional, sessions>>

(* The clearance of r ends, with a session for its user or without.        *)
Finish(r) ==
    /\ cleared[r] # None
    /\ cleared' = [cleared EXCEPT ![r] = None]
    /\ sessions' \in {sessions, sessions \cup {cleared[r]}}
    /\ UNCHANGED <<secret, unspent, spent, optional>>

(* New codes are new: no user has or ever had one of them.                 *)
Enrol(u, new, codes) ==
    /\ codes \cap spent = {}
    /\ \A v \in Users : codes \cap unspent[v] = {}
    /\ secret' = [secret EXCEPT ![u] = new]
    /\ unspent' = [unspent EXCEPT ![u] = codes]
    /\ UNCHANGED <<spent, cleared, optional, sessions>>

Unenrol(u) ==
    /\ secret' = [secret EXCEPT ![u] = None]
    /\ unspent' = [unspent EXCEPT ![u] = {}]
    /\ optional' = optional \cup {u}
    /\ UNCHANGED <<spent, cleared, sessions>>

Next ==
    \/ \E u \in Users :
          \/ SignInByPassword(u)
          \/ \E r \in Requests : Show(r, u) \/ \E code \in Codes : Spend(r, u, code)
          \/ \E new \in Secrets, codes \in SUBSET Codes : Enrol(u, new, codes)
          \/ Unenrol(u)
    \/ \E r \in Requests : Finish(r)

Spec == Init /\ [][Next]_vars

=============================================================================
