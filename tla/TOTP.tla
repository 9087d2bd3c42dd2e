-------------------------------- MODULE TOTP --------------------------------
(***************************************************************************)
(* Time-based codes of one user, from the key that /tfa/setup generates to *)
(* the codes that /tfa/enable and /tfa/verify check.  The phone that shows *)
(* the codes has a clock of its own, and a code is typed some time after   *)
(* it was read, perhaps more than once.                                    *)
(*                                                                         *)
(* A code is its key and the number of the period it was made for: two     *)
(* different ones are assumed to differ in their digits.  Who may call the *)
(* handlers, and what else they check, is in AuthServer.                   *)
(***************************************************************************)
EXTENDS Integers

CONSTANTS
    Configurations, \* the values Settings.TFA may have
    Drifts,         \* how far the phone's clock may be off
    Start,          \* the time at which the server starts
    MaxTime,        \* bound on the clock
    MaxSetups       \* bound on the keys generated

ASSUME TOTPConstants ==
    /\ Configurations \subseteq [Period: Nat \ {0}, SkewWindows: Nat]
    /\ Drifts \subseteq Int
    /\ Start \in Nat /\ MaxTime \in Nat /\ MaxSetups \in Nat
    /\ Start <= MaxTime
    /\ \A d \in Drifts : Start + d >= 0

VARIABLES
    settings, \* Settings.TFA
    drift,    \* what the phone's clock shows, less what it should
    now,      \* the server's clock
    setups,   \* the number of keys generated, which are named by number
    phone,    \* the keys the phone has scanned
    secret,   \* TOTPSecret (0: not enrolled)
    code,     \* the code the user has read last
    uses,     \* history: when that code was accepted
    checked   \* history: the last check of a code

vars == <<settings, drift, now, setups, phone, secret, code, uses, checked>>

Code == [key: Nat, counter: Nat, read: Nat]

NoCode == [key |-> 0, counter |-> 0, read |-> 0]

----------------------------------------------------------------------------

(* The period a time belongs to.                                           *)
Counter(t) == t \div settings.Period

(* Faulty variant for mutation: only codes that are not too old.           *)
Earlier == -settings.SkewWindows..0

(* Faulty variant for mutation: one window too many.                       *)
OneMore == -settings.SkewWindows - 1..settings.SkewWindows

Windows == -settings.SkewWindows..settings.SkewWindows

InStep(counter) == \E i \in Windows : counter = Counter(now) + i

(* Faulty variant for mutation: any key of the user is good enough.        *)
AnyKey(key) == code.key # 0 /\ InStep(code.counter)

validateTOTPCode(key) == code.key = key /\ InStep(code.counter)

(* Faulty variant for mutation: the address shown is that of the next key. *)
NextKey == setups + 1

(* key.URL(), as a QR code.                                                *)
KeyShown == setups

----------------------------------------------------------------------------

Init ==
    /\ settings \in Configurations
    /\ drift \in Drifts
    /\ now = Start
    /\ setups = 0
    /\ phone = {}
    /\ secret = 0
    /\ code = NoCode
    /\ uses = {}
    /\ checked = [key |-> 0, code |-> NoCode, at |-> Start, ok |-> FALSE]

Tick ==
    /\ now < MaxTime
    /\ now' = now + 1
    /\ UNCHANGED <<settings, drift, setups, phone, secret, code, uses, checked>>

(* handleTFASetup, generateTOTPKey                                         *)
Setup ==
    /\ secret = 0
    /\ setups < MaxSetups
    /\ setups' = setups + 1
    /\ UNCHANGED <<settings, drift, now, phone, secret, code, uses, checked>>

(* The user scans the key that was shown last.                             *)
Scan ==
    /\ setups > 0
    /\ phone' = phone \cup {KeyShown}
    /\ UNCHANGED <<settings, drift, now, setups, secret, code, uses, checked>>

(* The user reads a code off the phone.                                    *)
Read(key) ==
    LET shown == [key |-> key, counter |-> Counter(now + drift), read |-> now + drift]
    IN  /\ code' = shown
        /\ uses' = IF shown.key = code.key /\ shown.counter = code.counter THEN uses ELSE {}
        /\ UNCHANGED <<settings, drift, now, setups, phone, secret, checked>>

(* What a handler does with the code it was sent.                          *)
Check(key) ==
    /\ code # NoCode
    /\ checked' = [key |-> key, code |-> code, at |-> now, ok |-> validateTOTPCode(key)]
    /\ uses' = IF validateTOTPCode(key) THEN uses \cup {now} ELSE uses

(* handleTFAEnable; the pending secret is that of any key so far, as older *)
(* cookies may still be around.                                            *)
Enable(key) ==
    /\ secret = 0
    /\ Check(key)
    /\ secret' = IF validateTOTPCode(key) THEN key ELSE 0
    /\ UNCHANGED <<settings, drift, now, setups, phone, code>>

(* handleTFAVerify                                                         *)
Verify ==
    /\ secret # 0
    /\ Check(secret)
    /\ UNCHANGED <<settings, drift, now, setups, phone, secret, code>>

(* handleTFADisable                                                        *)
Disable ==
    /\ secret # 0
    /\ secret' = 0
    /\ UNCHANGED <<settings, drift, now, setups, phone, code, uses, checked>>

Next ==
    \/ Tick
    \/ Setup
    \/ Scan
    \/ \E key \in phone : Read(key)
    \/ \E key \in 1..setups : Enable(key)
    \/ Verify
    \/ Disable

Spec == Init /\ [][Next]_vars

----------------------------------------------------------------------------

TypeOK ==
    /\ settings \in Configurations
    /\ drift \in Drifts
    /\ now \in Start..MaxTime
    /\ setups \in 0..MaxSetups
    /\ phone \subseteq 1..setups
    /\ secret \in 0..setups
    /\ code \in Code
    /\ uses \subseteq Start..now
    /\ checked \in [key: Nat, code: Code, at: Nat, ok: BOOLEAN]

(* "+-30s window accepted, +-60s and beyond rejected": a code of the right *)
(* key is accepted if phone and server, delay included, are at most        *)
(* SkewWindows periods apart, and refused if they are a period more apart, *)
(* wherever in their periods the two times are.                            *)
SkewHonoured ==
    LET age    == checked.at - checked.code.read
        period == settings.Period
        skew   == settings.SkewWindows
    IN  checked.key # 0 /\ checked.code.key = checked.key =>
            IF checked.ok
            THEN age \in -((skew + 1) * period - 1)..((skew + 1) * period - 1)
            ELSE age \notin -skew * period..skew * period

(* A code is not marked as used.  It is accepted again, but between its    *)
(* first and its last use there are less than 2 * SkewWindows + 1 periods. *)
ReplayWindow ==
    \A s, t \in uses : t - s < (2 * settings.SkewWindows + 1) * settings.Period

(* "Confirm enrollment with a TOTP code": nobody is enrolled with a key    *)
(* that the phone never scanned, whichever of several keys was scanned and *)
(* whichever is in the session.                                            *)
ConfirmedByPhone == secret # 0 => secret \in phone

=============================================================================
