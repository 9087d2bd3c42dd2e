----------------------------- MODULE TOTPProofs -----------------------------
(***************************************************************************)
(* Proofs about TOTP: the distances in time within which codes work, for   *)
(* every period, tolerance and clock drift.                                *)
(***************************************************************************)
EXTENDS TOTP, TLAPS

(* The code in hand was made by a key on the phone, for the time it was    *)
(* read at, and was in step whenever it was accepted.                      *)
CodeMade ==
    /\ code.key # 0 => code.key \in phone /\ code.counter = Counter(code.read)
    /\ \A t \in uses : \E i \in Windows : code.counter = Counter(t) + i

(* So was the code checked last, and the check went by its period.         *)
CheckedMade ==
    checked.key # 0 /\ checked.code.key = checked.key =>
        /\ checked.code.counter = Counter(checked.code.read)
        /\ checked.ok <=> \E i \in Windows : checked.code.counter = Counter(checked.at) + i

CodesInv == TypeOK /\ CodeMade /\ CheckedMade /\ ConfirmedByPhone

----------------------------------------------------------------------------
(* Arithmetic.  Periods and tolerances are parameters, so the products are *)
(* taken apart by hand.                                                    *)

LEMMA Quotient ==
    ASSUME NEW a \in Nat, NEW p \in Nat \ {0}
    PROVE  /\ a \div p \in Nat
           /\ (a \div p) * p <= a
           /\ a < (a \div p) * p + p
BY SMTT(30)

LEMMA Product ==
    ASSUME NEW x \in Int, NEW y \in Int, NEW p \in Nat, x <= y
    PROVE  x * p <= y * p
<1>1. (y - x) * p >= 0
  BY SMTT(30)
<1>2. (y - x) * p = y * p - x * p
  BY SMTT(30)
<1> QED
  BY <1>1, <1>2, SMTT(30)

(* Times whose periods are at most k apart are less than k + 1 periods     *)
(* apart.                                                                  *)
LEMMA NearPeriods ==
    ASSUME NEW a \in Nat, NEW b \in Nat, NEW p \in Nat \ {0}, NEW k \in Nat,
           a \div p <= b \div p + k
    PROVE  a - b < (k + 1) * p
<1> DEFINE qa == a \div p
           qb == b \div p
<1>1. qa \in Nat /\ qb \in Nat /\ qb * p <= b /\ a < qa * p + p
  BY Quotient
<1> HIDE DEF qa, qb
<1>2. qa <= qb + k
  BY DEF qa, qb
<1>3. qa * p <= (qb + k) * p
  BY <1>1, <1>2, Product
<1>4. (qb + k) * p = qb * p + k * p /\ (k + 1) * p = k * p + p
  BY <1>1, SMTT(30)
<1>5. qa * p \in Int /\ qb * p \in Int /\ k * p \in Int
  BY <1>1
<1> QED
  BY <1>1, <1>3, <1>4, <1>5

(* Times whose periods are more than k apart are more than k periods apart. *)
LEMMA FarPeriods ==
    ASSUME NEW a \in Nat, NEW b \in Nat, NEW p \in Nat \ {0}, NEW k \in Nat,
           a \div p > b \div p + k
    PROVE  a - b > k * p
<1> DEFINE qa == a \div p
           qb == b \div p
<1>1. qa \in Nat /\ qb \in Nat /\ qa * p <= a /\ b < qb * p + p
  BY Quotient
<1> HIDE DEF qa, qb
<1>2. qb + k + 1 <= qa
  BY <1>1 DEF qa, qb
<1>3. (qb + k + 1) * p <= qa * p
  BY <1>1, <1>2, Product
<1>4. (qb + k + 1) * p = qb * p + k * p + p
  BY <1>1, SMTT(30)
<1>5. qa * p \in Int /\ qb * p \in Int /\ k * p \in Int
  BY <1>1
<1> QED
  BY <1>1, <1>3, <1>4, <1>5

----------------------------------------------------------------------------

LEMMA SettingsType ==
    ASSUME settings \in Configurations
    PROVE  settings.Period \in Nat \ {0} /\ settings.SkewWindows \in Nat
BY TOTPConstants

LEMMA CounterType ==
    ASSUME settings \in Configurations, NEW t \in Nat
    PROVE  Counter(t) \in Nat
BY SettingsType, Quotient DEF Counter

LEMMA InitInv == Init => CodesInv
BY TOTPConstants DEF Init, CodesInv, TypeOK, CodeMade, CheckedMade, ConfirmedByPhone, Code, NoCode

(* Neither handler nor user changes the settings.                          *)
LEMMA SameCounter ==
    ASSUME settings' = settings
    PROVE  Windows' = Windows /\ \A t \in Nat : Counter(t)' = Counter(t)
BY DEF Windows, Counter

LEMMA ReadInv ==
    ASSUME CodesInv, NEW key \in phone, Read(key)
    PROVE  CodesInv'
<1>1. now + drift \in Nat
  BY TOTPConstants DEF CodesInv, TypeOK
<1>2. code' = [key |-> key, counter |-> Counter(now + drift), read |-> now + drift]
  BY DEF Read
<1>3. key \in Nat \ {0} /\ code' \in Code
  BY <1>1, <1>2, CounterType DEF CodesInv, TypeOK, Code
<1>4. uses' \subseteq uses /\ (uses' # {} => code'.counter = code.counter)
  BY <1>2 DEF Read
<1>5. Windows' = Windows /\ \A t \in Nat : Counter(t)' = Counter(t)
  BY SameCounter DEF Read
<1>6. TypeOK'
  BY <1>3, <1>4 DEF CodesInv, TypeOK, Read
<1>7. (code.counter = Counter(code.read))'
  BY <1>2 DEF Read, Counter
<1>8. \A t \in uses' : \E i \in Windows' : code'.counter = Counter(t)' + i
  <2> SUFFICES ASSUME NEW t \in uses'
               PROVE  \E i \in Windows' : code'.counter = Counter(t)' + i
    OBVIOUS
  <2>1. t \in uses /\ code'.counter = code.counter
    BY <1>4
  <2>2. t \in Nat
    BY <2>1, TOTPConstants DEF CodesInv, TypeOK
  <2>3. PICK i \in Windows : code.counter = Counter(t) + i
    BY <2>1 DEF CodesInv, CodeMade
  <2> QED
    BY <1>5, <2>1, <2>2, <2>3
<1>9. CodeMade'
  <2>1. code'.key = key /\ key \in phone'
    BY <1>2 DEF Read
  <2> QED
    BY <2>1, <1>7, <1>8 DEF CodeMade
<1>10. CheckedMade' /\ ConfirmedByPhone'
  BY <1>5 DEF CodesInv, TypeOK, CheckedMade, ConfirmedByPhone, Code, Read
<1> QED
  BY <1>6, <1>9, <1>10 DEF CodesInv

(* What both handlers do with the code.                                    *)
LEMMA CheckInv ==
    ASSUME CodesInv, NEW key \in Nat \ {0}, Check(key),
           UNCHANGED <<settings, drift, now, setups, phone, code>>
    PROVE  /\ uses' \subseteq Start..now
           /\ checked' \in [key: Nat, code: Code, at: Nat, ok: BOOLEAN]
           /\ CodeMade'
           /\ CheckedMade'
           /\ validateTOTPCode(key) => key \in phone
<1>1. Windows' = Windows /\ \A t \in Nat : Counter(t)' = Counter(t)
  BY SameCounter
<1>2. now \in Nat /\ now \in Start..now
  BY TOTPConstants DEF CodesInv, TypeOK
<1>3. validateTOTPCode(key) <=> code.key = key /\ \E i \in Windows : code.counter = Counter(now) + i
  BY DEF validateTOTPCode, InStep
<1>4. validateTOTPCode(key) \in BOOLEAN
  BY DEF validateTOTPCode, InStep
<1>5. checked' = [key |-> key, code |-> code, at |-> now, ok |-> validateTOTPCode(key)]
  BY DEF Check
<1>6. checked' \in [key: Nat, code: Code, at: Nat, ok: BOOLEAN]
  BY <1>2, <1>4, <1>5 DEF CodesInv, TypeOK
<1>7. uses' = IF validateTOTPCode(key) THEN uses \cup {now} ELSE uses
  BY DEF Check
<1>8. uses' \subseteq Start..now
  BY <1>2, <1>7 DEF CodesInv, TypeOK
<1>9. CodeMade'
  <2>1. \A t \in uses' : \E i \in Windows : code.counter = Counter(t) + i
    BY <1>3, <1>7 DEF CodesInv, CodeMade
  <2>2. \A t \in uses' : t \in Nat
    BY <1>8, TOTPConstants DEF CodesInv, TypeOK
  <2>3. code.key # 0 => code.read \in Nat
    BY DEF CodesInv, TypeOK, Code
  <2> QED
    BY <1>1, <2>1, <2>2, <2>3 DEF CodesInv, CodeMade
<1>10. CheckedMade'
  BY <1>1, <1>2, <1>3, <1>5 DEF CodesInv, TypeOK, CodeMade, CheckedMade, Code
<1>11. validateTOTPCode(key) => key \in phone
  BY <1>3 DEF CodesInv, CodeMade
<1> QED
  BY <1>6, <1>8, <1>9, <1>10, <1>11

(* Whoever leaves codes and checks alone keeps what is known about them.   *)
LEMMA OthersInv ==
    ASSUME CodesInv, UNCHANGED <<settings, code, uses, checked>>, phone \subseteq phone'
    PROVE  CodeMade' /\ CheckedMade'
<1>1. Windows' = Windows /\ \A t \in Nat : Counter(t)' = Counter(t)
  BY SameCounter
<1>2. \A t \in uses : t \in Nat
  BY TOTPConstants DEF CodesInv, TypeOK
<1> QED
  BY <1>1, <1>2 DEF CodesInv, TypeOK, CodeMade, CheckedMade, Code

LEMMA StepInv == CodesInv /\ [Next]_vars => CodesInv'
<1> SUFFICES ASSUME CodesInv, [Next]_vars
             PROVE  CodesInv'
  OBVIOUS
<1>1. CASE Tick
  <2>1. TypeOK' /\ ConfirmedByPhone'
    BY <1>1, TOTPConstants DEF CodesInv, TypeOK, ConfirmedByPhone, Tick
  <2> QED
    BY <1>1, <2>1, OthersInv DEF CodesInv, Tick
<1>2. CASE Setup
  <2>1. TypeOK' /\ ConfirmedByPhone'
    BY <1>2, TOTPConstants DEF CodesInv, TypeOK, ConfirmedByPhone, Setup
  <2> QED
    BY <1>2, <2>1, OthersInv DEF CodesInv, Setup
<1>3. CASE Scan
  <2>1. TypeOK' /\ ConfirmedByPhone'
    BY <1>3 DEF CodesInv, TypeOK, ConfirmedByPhone, Scan, KeyShown
  <2> QED
    BY <1>3, <2>1, OthersInv DEF CodesInv, Scan
<1>4. ASSUME NEW key \in phone, Read(key) PROVE CodesInv'
  BY <1>4, ReadInv
<1>5. ASSUME NEW key \in 1..setups, Enable(key) PROVE CodesInv'
  <2>1. key \in Nat \ {0} /\ Check(key) /\ UNCHANGED <<settings, drift, now, setups, phone, code>>
    BY <1>5 DEF CodesInv, TypeOK, Enable
  <2>2. /\ uses' \subseteq Start..now
        /\ checked' \in [key: Nat, code: Code, at: Nat, ok: BOOLEAN]
        /\ CodeMade' /\ CheckedMade'
        /\ validateTOTPCode(key) => key \in phone
    BY <2>1, CheckInv
  <2>3. TypeOK' /\ ConfirmedByPhone'
    BY <1>5, <2>1, <2>2 DEF CodesInv, TypeOK, ConfirmedByPhone, Enable
  <2> QED
    BY <2>2, <2>3 DEF CodesInv
<1>6. CASE Verify
  <2>1. /\ secret \in Nat \ {0} /\ Check(secret)
        /\ UNCHANGED <<settings, drift, now, setups, phone, code, secret>>
    BY <1>6 DEF CodesInv, TypeOK, Verify
  <2>2. /\ uses' \subseteq Start..now
        /\ checked' \in [key: Nat, code: Code, at: Nat, ok: BOOLEAN]
        /\ CodeMade' /\ CheckedMade'
    BY <2>1, CheckInv
  <2>3. TypeOK' /\ ConfirmedByPhone'
    BY <2>1, <2>2 DEF CodesInv, TypeOK, ConfirmedByPhone
  <2> QED
    BY <2>2, <2>3 DEF CodesInv
<1>7. CASE Disable
  <2>1. TypeOK' /\ ConfirmedByPhone'
    BY <1>7 DEF CodesInv, TypeOK, ConfirmedByPhone, Disable
  <2> QED
    BY <1>7, <2>1, OthersInv DEF CodesInv, Disable
<1>8. CASE UNCHANGED vars
  <2>1. TypeOK' /\ ConfirmedByPhone'
    BY <1>8 DEF CodesInv, TypeOK, ConfirmedByPhone, vars
  <2> QED
    BY <1>8, <2>1, OthersInv DEF CodesInv, vars
<1> QED
  BY <1>1, <1>2, <1>3, <1>4, <1>5, <1>6, <1>7, <1>8 DEF Next

LEMMA InvHolds == Spec => []CodesInv
BY InitInv, StepInv, PTL DEF Spec

----------------------------------------------------------------------------

(* The tolerance is kept on both sides, wherever in their periods the      *)
(* times are.                                                              *)
LEMMA InvSkew == CodesInv => SkewHonoured
<1> DEFINE at     == checked.at
           read   == checked.code.read
           period == settings.Period
           skew   == settings.SkewWindows
<1> SUFFICES ASSUME CodesInv, checked.key # 0, checked.code.key = checked.key
             PROVE  IF checked.ok
                    THEN at - read \in -((skew + 1) * period - 1)..((skew + 1) * period - 1)
                    ELSE at - read \notin -skew * period..skew * period
  BY DEF SkewHonoured
<1>1. at \in Nat /\ read \in Nat /\ period \in Nat \ {0} /\ skew \in Nat
  BY SettingsType DEF CodesInv, TypeOK, Code
<1>2. at \div period \in Nat /\ read \div period \in Nat
  BY <1>1, Quotient
<1>3. checked.ok <=> \E i \in -skew..skew : read \div period = (at \div period) + i
  BY DEF CodesInv, CheckedMade, Windows, Counter
<1>4. (skew + 1) * period \in Int /\ skew * period \in Int /\ -skew * period = -(skew * period)
  BY <1>1, SMTT(30)
<1> HIDE DEF at, read, period, skew
<1>5. CASE checked.ok
  <2>1. at \div period <= (read \div period) + skew /\ read \div period <= (at \div period) + skew
    BY <1>1, <1>2, <1>3, <1>5
  <2>2. at - read < (skew + 1) * period /\ read - at < (skew + 1) * period
    BY <1>1, <2>1, NearPeriods
  <2> QED
    BY <1>1, <1>4, <1>5, <2>2
<1>6. CASE ~checked.ok
  <2>1. at \div period > (read \div period) + skew \/ read \div period > (at \div period) + skew
    <3>1. SUFFICES ASSUME at \div period <= (read \div period) + skew,
                          read \div period <= (at \div period) + skew
                   PROVE  FALSE
      BY <1>1, <1>2
    <3>2. (read \div period) - (at \div period) \in -skew..skew
      BY <1>1, <1>2, <3>1
    <3>3. read \div period = (at \div period) + ((read \div period) - (at \div period))
      BY <1>2
    <3> QED
      BY <1>3, <1>6, <3>2, <3>3
  <2>2. at - read > skew * period \/ read - at > skew * period
    BY <1>1, <2>1, FarPeriods
  <2> QED
    BY <1>1, <1>4, <1>6, <2>2
<1> QED
  BY <1>5, <1>6

(* Two uses of one code are in step with the same period.                  *)
LEMMA InvReplay == CodesInv => ReplayWindow
<1> DEFINE period == settings.Period
           skew   == settings.SkewWindows
<1> SUFFICES ASSUME CodesInv, NEW s \in uses, NEW t \in uses
             PROVE  t - s < (2 * skew + 1) * period
  BY DEF ReplayWindow
<1>1. s \in Nat /\ t \in Nat /\ period \in Nat \ {0} /\ skew \in Nat
  BY SettingsType, TOTPConstants DEF CodesInv, TypeOK
<1>2. s \div period \in Nat /\ t \div period \in Nat
  BY <1>1, Quotient
<1>3. PICK i \in -skew..skew : code.counter = (s \div period) + i
  BY DEF CodesInv, CodeMade, Windows, Counter
<1>4. PICK j \in -skew..skew : code.counter = (t \div period) + j
  BY DEF CodesInv, CodeMade, Windows, Counter
<1> HIDE DEF period, skew
<1>5. t \div period <= (s \div period) + 2 * skew
  BY <1>1, <1>2, <1>3, <1>4
<1>6. 2 * skew \in Nat
  BY <1>1
<1> QED
  BY <1>1, <1>5, <1>6, NearPeriods

----------------------------------------------------------------------------

(* Every variable keeps its type.                                          *)
THEOREM TypeCorrect == Spec => []TypeOK
BY InvHolds, PTL DEF CodesInv

(* Whatever the period, the tolerance and the phone's drift: a code is     *)
(* accepted up to SkewWindows periods away, refused a period further.      *)
THEOREM Skew == Spec => []SkewHonoured
BY InvHolds, InvSkew, PTL

(* A code that is used again is used within 2 * SkewWindows + 1 periods.   *)
THEOREM Replays == Spec => []ReplayWindow
BY InvHolds, InvReplay, PTL

(* Whoever is enrolled has scanned the key they are enrolled with.         *)
THEOREM Confirmed == Spec => []ConfirmedByPhone
BY InvHolds, PTL DEF CodesInv

=============================================================================
