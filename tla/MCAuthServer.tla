---------------------------- MODULE MCAuthServer ----------------------------
(***************************************************************************)
(* Small instances of AuthServer for TLC.                                  *)
(***************************************************************************)
EXTENDS AuthServer, TLC

CONSTANTS u1, u2, r1, r2, r3, p1, p2, p3, s1, s2, k1, k2, k3

(* The stored users a run may start from.                                  *)
User(kind, secret, codes) ==
    [hash |-> [kind |-> kind, pw |-> p1], secret |-> secret, codes |-> codes, failed |-> 0]

(* p1 is the first 72 bytes of p3.                                         *)
FirstBytes == [pw \in Passwords |-> IF pw = p3 THEN p1 ELSE pw]

Native == User("argon2id", None, {})
Legacy == User("legacy", None, {})

(* One enrolled user with two backup codes.                                *)
EnrolledTables == {[u \in {u1} |-> User("argon2id", s1, {k1, k2})]}

(* An imported user whose password is longer than 72 bytes.                *)
Long(user) == [user EXCEPT !.hash.pw = p3]

LongTables == {[u \in {u1} |-> Long(Legacy)]}

(* One enrolled user, one backup code, its hash native or legacy.          *)
LegacyTables == {[u \in {u1} |-> User(kind, secret, codes)] :
                    <<kind, secret, codes>> \in
                        {<<"legacy", s1, {k1}>>, <<"legacy", None, {}>>, <<"argon2id", s1, {k1}>>}}

(* The same, and an imported user with a long password.                    *)
UpgradeTables == LegacyTables \cup LongTables

(* One enrolled user with one backup code, to be unenrolled and enrolled   *)
(* again.                                                                  *)
ReenrolTables == {[u \in {u1} |-> User("argon2id", s1, {k1})]}

(* One user not enrolled yet.                                              *)
NewTables == {[u \in {u1} |-> Native]}

(* An enrolled user and one who is not, sharing a browser.                 *)
SwitchTables == {[u \in {u1, u2} |-> IF u = u1 THEN User("argon2id", s1, {k1}) ELSE Native]}

(* Two users not enrolled yet, sharing a browser.                          *)
TwoTables == {[u \in {u1, u2} |-> Native]}

(* An imported user.                                                       *)
ImportTables == {[u \in {u1} |-> Legacy]}

RequestSymmetry == Permutations(Requests)

=============================================================================
