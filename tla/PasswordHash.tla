---------------------------- MODULE PasswordHash ----------------------------
(***************************************************************************)
(* The password hash of an account over its life: at first imported from   *)
(* elsewhere, later written by HashPassword with the parameters configured *)
(* at the time.  The server is restarted with other parameters;            *)
(* VerifyPassword and decodeParams take apart whatever string is stored,   *)
(* and a login hands what they reject to the legacy verifier, which is     *)
(* BcryptVerifier here: of a password it sees the first 72 bytes only.     *)
(*                                                                         *)
(* A stored string is what strings.Split and base64 make of it: algorithm, *)
(* version, the "key=value" items and the lengths of salt and key (-1: not *)
(* base64).  The value of an item that is no number is -1.                 *)
(***************************************************************************)
EXTENDS Integers, Sequences

CONSTANTS
    Passwords,      \* passwords
    PasswordLength, \* their lengths, in bytes
    Truncated,      \* their first 72 bytes
    HashingParams,  \* the values Settings.HashingParams may have
    Imported,       \* stored strings HashPassword did not write
    ByteMax,        \* the largest uint8
    WordMax,        \* the largest uint32
    MaxMemory, MaxIterations, MaxParallelism,
    MinMemory, MinIterations, MinSaltLength, MinKeyLength

Key == {"m", "t", "p"}

(* Memory, Iterations and Parallelism, by their keys, and the two lengths. *)
Costs == [Key -> Nat]

Params == [costs: Costs, SaltLength: Nat, KeyLength: Nat]

Item == [key: Key \cup {"other"}, val: Int]

Encoded == [origin: {"HashPassword", "legacy", "other"},
            algorithm: {"argon2id", "other"}, version: {"19", "other", "unreadable"},
            items: Seq(Item), salt: Int, hash: Int, pw: Passwords, made: Costs]

(* argon2.IDKey panics on zero iterations or parallelism.                  *)
ASSUME HashConstants ==
    /\ PasswordLength \in [Passwords -> Nat]
    /\ Truncated \in [Passwords -> Passwords]
    /\ \A pw \in Passwords : /\ PasswordLength[Truncated[pw]] <= 72
                             /\ PasswordLength[pw] <= 72 => Truncated[pw] = pw
    /\ ByteMax \in Nat /\ WordMax \in Nat /\ ByteMax <= WordMax
    /\ MaxMemory \in Nat /\ MaxIterations \in Nat /\ MaxParallelism \in Nat
    /\ MinMemory \in Nat \ {0} /\ MinIterations \in Nat \ {0}
    /\ MinSaltLength \in Nat /\ MinKeyLength \in Nat
    /\ HashingParams \subseteq {q \in Params : /\ q.costs["m"] \in 0..WordMax
                                               /\ q.costs["t"] \in 1..WordMax
                                               /\ q.costs["p"] \in 1..ByteMax}
    /\ Imported \subseteq {h \in Encoded : h.origin # "HashPassword"}

(* An imported hash of another scheme is not of the form "$argon2id$...".  *)
ASSUME LegacyHashes == \A h \in Imported : h.origin = "legacy" => h.algorithm = "other"

VARIABLES
    params,   \* Settings.HashingParams
    stored,   \* the account's PasswordHash
    v,        \* the login under way, or the last one
    password  \* history: the password last set, or imported

vars == <<params, stored, v, password>>

Verification == [pc: {"none", "items", "limits", "compare", "legacy", "in", "denied"},
                 hash: Encoded, i: Nat, costs: Costs,
                 pw: Passwords,     \* as typed
                 right: BOOLEAN]    \* history: it was the password when it was typed

----------------------------------------------------------------------------

Hashable(pw) == PasswordLength[pw] \in 1..72

HashPassword(pw, q) ==
    [origin |-> "HashPassword", algorithm |-> "argon2id", version |-> "19",
     items |-> <<[key |-> "m", val |-> q.costs["m"]],
                 [key |-> "t", val |-> q.costs["t"]],
                 [key |-> "p", val |-> q.costs["p"]]>>,
     salt |-> q.SaltLength, hash |-> q.KeyLength, pw |-> pw, made |-> q.costs]

Zero == [key \in Key |-> 0]

(* Faulty variant for mutation: strconv.ParseUint(val, 10, 64).            *)
AnyNumber(n) == n >= 0

(* strconv.ParseUint(val, 10, 32)                                          *)
ParseUint(n) == n \in 0..WordMax

(* Faulty variant for mutation: parallelism is cut off at eight bits.      *)
Unchecked(item) == item.key # "other"

Acceptable(item) ==
    /\ item.key # "other"
    /\ item.key = "p" => item.val <= ByteMax

(* uint8(n) and uint32(n).                                                 *)
Converted(item) == item.val % ((IF item.key = "p" THEN ByteMax ELSE WordMax) + 1)

(* Faulty variant for mutation: no lower limits.                           *)
NotTooExpensive(costs) ==
    costs["m"] <= MaxMemory /\ costs["t"] <= MaxIterations /\ costs["p"] <= MaxParallelism

WithinLimits(costs) ==
    /\ costs["m"] \in MinMemory..MaxMemory
    /\ costs["t"] \in MinIterations..MaxIterations
    /\ costs["p"] \in 1..MaxParallelism

LongEnough(h) == h.salt >= MinSaltLength /\ h.hash >= MinKeyLength

----------------------------------------------------------------------------

Init ==
    /\ params \in HashingParams
    /\ stored \in Imported
    /\ v = [pc |-> "none", hash |-> stored, i |-> 0, costs |-> Zero, pw |-> stored.pw,
            right |-> TRUE]
    /\ password = stored.pw

(* Registration, or the application setting a new password.                *)
SetPassword(pw) ==
    /\ Hashable(pw)
    /\ stored' = HashPassword(pw, params)
    /\ password' = pw
    /\ UNCHANGED <<params, v>>

(* The server is restarted with other parameters: logins under way are lost. *)
Restart(q) ==
    /\ params' = q
    /\ v' = [v EXCEPT !.pc = "none"]
    /\ UNCHANGED <<stored, password>>

At(pc) == v.pc = pc

Goto(pc) == v' = [v EXCEPT !.pc = pc]

(* handleLogin reads the user; VerifyPassword looks at the string's frame. *)
Begin(pw) ==
    /\ v.pc \in {"none", "in", "denied"}
    /\ v' = [pc |-> IF /\ stored.algorithm = "argon2id"
                       /\ stored.version = "19"
                       /\ Len(stored.items) = 3
                    THEN "items" ELSE "legacy",
             hash |-> stored, i |-> 0, costs |-> Zero, pw |-> pw, right |-> pw = password]
    /\ UNCHANGED <<params, stored, password>>

(* Faulty variant for mutation: every other item is read.                  *)
AfterNext(i) == i + 2

Following(i) == i + 1

(* One round of decodeParams' loop.                                        *)
ReadItem ==
    LET item == v.hash.items[v.i + 1]
    IN  /\ At("items")
        /\ v.i < Len(v.hash.items)
        /\ \/ /\ ParseUint(item.val) /\ Acceptable(item)
              /\ v' = [v EXCEPT !.i = Following(v.i), !.costs[item.key] = Converted(item)]
           \/ /\ ~(ParseUint(item.val) /\ Acceptable(item))
              /\ Goto("legacy")
        /\ UNCHANGED <<params, stored, password>>

EndItems ==
    /\ At("items")
    /\ v.i >= Len(v.hash.items)
    /\ Goto(IF \E key \in Key : v.costs[key] = 0 THEN "legacy" ELSE "limits")
    /\ UNCHANGED <<params, stored, password>>

CheckLimits ==
    /\ At("limits")
    /\ Goto(IF WithinLimits(v.costs) /\ LongEnough(v.hash) THEN "compare" ELSE "legacy")
    /\ UNCHANGED <<params, stored, password>>

(* Faulty variant for mutation: a mismatch is an error, too.               *)
TryLegacy(match) == IF match THEN "in" ELSE "legacy"

Verdict(match) == IF match THEN "in" ELSE "denied"

(* argon2.IDKey with the decoded costs, and the comparison.                *)
Compare ==
    /\ At("compare")
    /\ Goto(Verdict(v.pw = v.hash.pw /\ v.costs = v.hash.made))
    /\ UNCHANGED <<params, stored, password>>

(* BcryptVerifier knows the hashes of its own scheme only, and compares no *)
(* more than 72 bytes.                                                     *)
VerifiedLegacy == v.hash.origin = "legacy" /\ Truncated[v.pw] = Truncated[v.hash.pw]

LegacyRejects ==
    /\ At("legacy")
    /\ ~VerifiedLegacy
    /\ Goto("denied")
    /\ UNCHANGED <<params, stored, password>>

(* Faulty variant for mutation: the second read is not compared.           *)
AnyStored == TRUE

(* "skipped unless the stored hash is still the one just verified"         *)
StillVerified == stored = v.hash

(* upgradePasswordHash: skipped if what was typed is too long, if the      *)
(* stored hash is another one by now, or if storing fails.  It is one step *)
(* here; what may come between its read and its write is in AuthServer.    *)
LegacyAccepts ==
    /\ At("legacy")
    /\ VerifiedLegacy
    /\ Goto("in")
    /\ \/ /\ Hashable(v.pw) /\ StillVerified
          /\ stored' = HashPassword(v.pw, params)
       \/ UNCHANGED stored
    /\ UNCHANGED <<params, password>>

Next ==
    \/ \E pw \in Passwords : SetPassword(pw)
    \/ \E q \in HashingParams : Restart(q)
    \/ \E pw \in Passwords : Begin(pw)
    \/ ReadItem
    \/ EndItems
    \/ CheckLimits
    \/ Compare
    \/ LegacyRejects
    \/ LegacyAccepts

Spec == Init /\ [][Next]_vars

----------------------------------------------------------------------------

TypeOK ==
    /\ params \in HashingParams
    /\ stored \in Encoded
    /\ v \in Verification
    /\ v.i \in 0..Len(v.hash.items)
    /\ password \in Passwords
    /\ v.costs["m"] \in 0..WordMax /\ v.costs["t"] \in 0..WordMax /\ v.costs["p"] \in 0..ByteMax

(* Whatever string is stored, argon2 runs only on costs that the string    *)
(* states exactly once each, that no conversion has cut off and that are   *)
(* within the limits.                                                      *)
ArgonAsWritten ==
    At("compare") =>
        /\ \E place \in [Key -> 1..3] :
              /\ \A key \in Key : v.hash.items[place[key]] = [key |-> key, val |-> v.costs[key]]
              /\ {place[key] : key \in Key} = DOMAIN v.hash.items
        /\ WithinLimits(v.costs)

(* "Native Argon2id users are unaffected (the verifier is never reached    *)
(* for them)": not by wrong passwords, nor after a restart with other      *)
(* parameters.                                                             *)
NativeNeverLegacy == At("legacy") => v.hash.origin # "HashPassword"

(* bcrypt let in the first 72 bytes of a longer password, and the upgrade  *)
(* has made them the password.                                             *)
CutOff ==
    /\ v.hash.origin = "HashPassword"
    /\ PasswordLength[v.pw] > 72
    /\ v.hash.pw = Truncated[v.pw]

(* "Migrated users keep their existing passwords": whoever types the       *)
(* password last set or imported is not denied, however often the          *)
(* parameters changed, whatever other passwords were tried before, and     *)
(* whether or not a login overtaken by the change of the password upgraded *)
(* its hash.  The one exception is an imported password over 72 bytes of   *)
(* which somebody typed just the first 72.                                 *)
PasswordKept == At("denied") /\ v.right /\ v.hash.origin # "other" => CutOff

(* "A user whose imported password exceeds 72 bytes ... simply stays on    *)
(* bcrypt": no password, of any length, is ever lost.                      *)
PasswordAlwaysKept == At("denied") /\ v.right => v.hash.origin = "other"

=============================================================================
