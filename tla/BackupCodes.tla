---------------------------- MODULE BackupCodes ----------------------------
(***************************************************************************)
(* The backup codes of one user as text: how tfa.go draws them from the    *)
(* configured alphabet, and how what a person types is compared with the   *)
(* stored hashes and spent, by requests that run at the same time.         *)
(*                                                                         *)
(* Each stored hash has a salt of its own, so it is known by its enrolment *)
(* and its place in the list, whatever code it was made of.  A character   *)
(* is a value with its lower-case form; all take one byte.                 *)
(***************************************************************************)
EXTENDS Integers, Sequences, FiniteSetsExt, Functions

CONSTANTS
    Requests,           \* request slots of POST /auth/tfa/verify
    Chars,              \* characters
    Lower,              \* strings.ToLower, on one character
    Spaces,             \* the characters strings.TrimSpace removes
    BackupCodeAlphabet, \* Settings.TFA.BackupCodeAlphabet
    BackupCodeCount,    \* Settings.TFA.BackupCodeCount
    BackupCodeLength,   \* Settings.TFA.BackupCodeLength
    Texts,              \* what clients send as code
    MaxEnrolments       \* bound on the enrolments

ASSUME CharConstants ==
    /\ Lower \in [Chars -> Chars]
    /\ \A c \in Chars : Lower[Lower[c]] = Lower[c]
    /\ Spaces \subseteq Chars
    /\ \A c \in Chars : c \in Spaces <=> Lower[c] \in Spaces

ASSUME CodeConstants ==
    /\ BackupCodeAlphabet \in Seq(Chars)
    /\ BackupCodeCount \in Nat /\ BackupCodeLength \in Nat /\ MaxEnrolments \in Nat
    /\ Texts \subseteq Seq(Chars)

VARIABLES
    enrolment, \* the number of the enrolment in force
    drawn,     \* its codes, as the user was shown them
    stored,    \* the places in drawn whose hashes are stored
    req,       \* the hash that each request has matched, or NoHash
    uses       \* history: the requests each hash of this enrolment let in

vars == <<enrolment, drawn, stored, req, uses>>

Hashes == [enrolment: Nat, place: Nat \ {0}]

NoHash == [enrolment |-> 0, place |-> 0]

----------------------------------------------------------------------------

ToLower(s) == [i \in DOMAIN s |-> Lower[s[i]]]

TrimSpace(s) ==
    LET kept == {i \in DOMAIN s : s[i] \notin Spaces}
    IN  IF kept = {} THEN <<>> ELSE SubSeq(s, Min(kept), Max(kept))

Normalised(text) == ToLower(TrimSpace(text))

(* Faulty variant for mutation: the alphabet is used as configured.        *)
AsConfigured == Range(BackupCodeAlphabet)

Alphabet == Range(ToLower(BackupCodeAlphabet))

Draws == [1..BackupCodeCount -> [1..BackupCodeLength -> Alphabet]]

(* generateBackupCodes returns an error otherwise, HashPassword's included *)
(* (its limit is 72 bytes); without codes it is not called.                *)
CanGenerate ==
    BackupCodeCount > 0 =>
        BackupCodeLength \in 1..72 /\ \E a, b \in Alphabet : a # b

Matches(text) == {i \in stored : drawn[i] = Normalised(text)}

(* findBackupCodeMatch returns the first hash that verifies the text.      *)
FirstMatch(i, text) == i \in Matches(text) /\ \A j \in Matches(text) : i <= j

----------------------------------------------------------------------------

Init ==
    /\ enrolment = 0
    /\ drawn = <<>>
    /\ stored = {}
    /\ req = [r \in Requests |-> NoHash]
    /\ uses = <<>>

(* handleTFAEnable: the hashes of fresh codes replace all others.          *)
Enable(codes) ==
    /\ enrolment < MaxEnrolments
    /\ CanGenerate
    /\ enrolment' = enrolment + 1
    /\ drawn' = codes
    /\ stored' = DOMAIN codes
    /\ uses' = [i \in DOMAIN codes |-> 0]
    /\ UNCHANGED req

(* Faulty variant for mutation: the hashes are not cleared.                *)
KeepHashes ==
    /\ drawn' = <<>>
    /\ uses' = <<>>
    /\ UNCHANGED <<enrolment, stored, req>>

(* ClearTOTP                                                               *)
Disable ==
    /\ drawn' = <<>>
    /\ stored' = {}
    /\ uses' = <<>>
    /\ UNCHANGED <<enrolment, req>>

(* handleTFAVerify reads the user and finds the first hash that verifies   *)
(* the text; without one the request is refused.                           *)
Submit(r, text) ==
    /\ req[r] = NoHash
    /\ BackupCodeCount > 0
    /\ \E i \in stored :
          /\ FirstMatch(i, text)
          /\ req' = [req EXCEPT ![r] = [enrolment |-> enrolment, place |-> i]]
    /\ UNCHANGED <<enrolment, drawn, stored, uses>>

(* Faulty variant for mutation: the matched hash is not looked for again.  *)
OnceSeen(r) == req[r].place \in DOMAIN drawn

StillStored(r) == req[r].enrolment = enrolment /\ req[r].place \in stored

(* ConsumeBackupCode removed the hash: the request is let in.              *)
Consume(r) ==
    /\ req[r] # NoHash
    /\ StillStored(r)
    /\ stored' = stored \ {req[r].place}
    /\ uses' = [uses EXCEPT ![req[r].place] = @ + 1]
    /\ req' = [req EXCEPT ![r] = NoHash]
    /\ UNCHANGED <<enrolment, drawn>>

(* The hash is gone, or the storage fails: the request is refused.         *)
Refused(r) ==
    /\ req[r] # NoHash
    /\ req' = [req EXCEPT ![r] = NoHash]
    /\ UNCHANGED <<enrolment, drawn, stored, uses>>

Next ==
    \/ \E codes \in Draws : Enable(codes)
    \/ Disable
    \/ \E r \in Requests : \/ \E text \in Texts : Submit(r, text)
                           \/ Consume(r)
                           \/ Refused(r)

Spec == Init /\ [][Next]_vars

----------------------------------------------------------------------------

TypeOK ==
    /\ enrolment \in 0..MaxEnrolments
    /\ drawn \in Draws \cup {<<>>}
    /\ stored \subseteq DOMAIN drawn
    /\ req \in [Requests -> Hashes \cup {NoHash}]
    /\ uses \in [DOMAIN drawn -> Nat]

(* Of the codes of the enrolment in force none is lost and none counts     *)
(* twice, however its requests race and fail: a code is stored exactly     *)
(* until it has let one request in.                                        *)
CodesAccountedFor == \A i \in DOMAIN drawn : uses[i] = IF i \in stored THEN 0 ELSE 1

(* The text is a code in any mixture of upper and lower case, perhaps with *)
(* space around it.                                                        *)
Spelling(text, code) ==
    \E before \in 0..Len(text) - Len(code) :
        \A i \in DOMAIN text :
            IF i - before \in 1..Len(code)
            THEN Lower[text[i]] = Lower[code[i - before]]
            ELSE text[i] \in Spaces

(* "issued codes and verification are case-insensitive": whatever the      *)
(* alphabet, a code as it was shown, in any spelling, matches a hash until *)
(* it is spent.                                                            *)
IssuedCodesMatch ==
    \A i \in stored, text \in Texts : Spelling(text, drawn[i]) => Matches(text) # {}

(* "Each code works once."                                                 *)
EachCodeOnce ==
    \A i, j \in DOMAIN drawn : uses[i] > 0 /\ uses[j] > 0 /\ drawn[i] = drawn[j] => i = j

=============================================================================
