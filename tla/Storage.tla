------------------------------ MODULE Storage ------------------------------
(***************************************************************************)
(* The contract of basicauth.Storage: what each storage call does to one   *)
(* stored user.  Every call is one atomic step (MemoryStorage runs it under *)
(* its write lock, a database in one statement), so each is an operator    *)
(* from a stored account to the account it leaves behind.                  *)
(*                                                                         *)
(* Of types.go's User an Account keeps what the handlers decide on: the    *)
(* password hash and the second-factor state.  SetTOTP and ClearTOTP       *)
(* change TOTPSecret and TOTPEnabled together, so one field stands for     *)
(* both: secret = None is "not enrolled".  A backup code and its salted    *)
(* hash are one value; BackupCodeHashes is a set of them.                  *)
(***************************************************************************)
EXTENDS Integers

CONSTANTS
    None,       \* absence (a nil pointer, a missing session value)
    Users,      \* user IDs
    Passwords,  \* passwords
    Secrets,    \* TOTP secrets
    Codes       \* backup codes

ASSUME StorageConstants ==
    /\ None \notin Users \cup Passwords \cup Secrets \cup Codes
    /\ Secrets \cap Codes = {}

(* A hash VerifyPassword can parse is "argon2id"; any other is "legacy".   *)
Hash == [kind: {"argon2id", "legacy"}, pw: Passwords]

Account == [hash: Hash, secret: Secrets \cup {None}, codes: SUBSET Codes,
            failed: Nat]

Enrolled(a) == a.secret # None

----------------------------------------------------------------------------

Argon2id(pw) == [kind |-> "argon2id", pw |-> pw]

Parseable(hash) == hash.kind = "argon2id"

VerifyPassword(pw, hash) == Parseable(hash) /\ hash.pw = pw

(* Faulty variant for mutation: UpdateUser stores the whole user it is     *)
(* given, stale second-factor state included.                              *)
UpdateWholeUser(stored, user) == user

(* UpdateUser writes the profile fields and keeps the security state that  *)
(* is stored now, whatever the (possibly old) value it is given says.      *)
UpdateUser(stored, user) == [stored EXCEPT !.hash = user.hash]

(* Faulty variant for mutation: the limit is off by one.                   *)
OneMoreAttempt(a, max) == a.failed <= max

CanConsumeTOTPAttempt(a, max) == a.failed < max

(* Faulty variant for mutation: the counter runs the other way.            *)
CountDown(a) == [a EXCEPT !.failed = @ - 1]

ConsumeTOTPAttempt(a) == [a EXCEPT !.failed = @ + 1]

AttemptsRemaining(a, max) == max - a.failed

ResetTOTPAttempts(a) == [a EXCEPT !.failed = 0]

(* Faulty variant for mutation: the hash is found but never removed.       *)
FindBackupCode(a, code) == a

ConsumeBackupCode(a, code) == [a EXCEPT !.codes = @ \ {code}]

SetTOTP(a, secret, codes) ==
    [a EXCEPT !.secret = secret, !.codes = codes, !.failed = 0]

(* Faulty variant for mutation: disabling leaves the backup codes.         *)
KeepBackupCodes(a) == [a EXCEPT !.secret = None, !.failed = 0]

ClearTOTP(a) == [a EXCEPT !.secret = None, !.codes = {}, !.failed = 0]

=============================================================================
