------------------------- MODULE BackupCodesProofs -------------------------
(***************************************************************************)
(* No backup code is lost or counted twice, for any number of requests and *)
(* enrolments; and every stored code matches however it is typed, for every *)
(* alphabet without white space.                                           *)
(***************************************************************************)
EXTENDS BackupCodes, SequenceTheorems, TLAPS

(* No issued code begins or ends with a character that TrimSpace removes.  *)
NoSpaces == \A c \in Alphabet : c \notin Spaces

Generated == stored # {} => CanGenerate

CodesInv == TypeOK /\ Generated /\ CodesAccountedFor

----------------------------------------------------------------------------

LEMMA CodesInit == Init => CodesInv
BY CodeConstants DEF Init, CodesInv, TypeOK, Generated, CodesAccountedFor

LEMMA StoredPlaces ==
    ASSUME TypeOK, NEW i \in stored
    PROVE  drawn \in Draws /\ i \in 1..BackupCodeCount /\ i \in Nat \ {0}
<1>1. i \in DOMAIN drawn
  BY DEF TypeOK
<1>2. drawn # <<>>
  BY <1>1
<1> QED
  BY <1>1, <1>2, CodeConstants DEF TypeOK, Draws

LEMMA CodesStep == CodesInv /\ [Next]_vars => CodesInv'
<1> SUFFICES ASSUME CodesInv, [Next]_vars PROVE CodesInv'
  OBVIOUS
<1> USE DEF CodesInv, TypeOK, Generated, CodesAccountedFor
<1>1. ASSUME NEW codes \in Draws, Enable(codes)
      PROVE  CodesInv'
  <2>1. enrolment' \in 0..MaxEnrolments
    BY <1>1, CodeConstants DEF Enable
  <2>2. DOMAIN drawn' = DOMAIN codes /\ DOMAIN uses' = DOMAIN codes
    BY <1>1 DEF Enable
  <2> QED
    BY <1>1, <2>1, <2>2 DEF Enable, CanGenerate
<1>2. CASE Disable
  BY <1>2 DEF Disable
<1>3. ASSUME NEW r \in Requests, NEW text \in Texts, Submit(r, text)
      PROVE  CodesInv'
  <2>1. PICK i \in stored : req' = [req EXCEPT ![r] = [enrolment |-> enrolment, place |-> i]]
    BY <1>3 DEF Submit
  <2>2. [enrolment |-> enrolment, place |-> i] \in Hashes
    BY StoredPlaces, CodeConstants DEF Hashes
  <2> QED
    BY <1>3, <2>1, <2>2 DEF Submit, CanGenerate
<1>4. ASSUME NEW r \in Requests, Consume(r)
      PROVE  CodesInv'
  <2>1. req[r].place \in stored /\ req[r].place \in DOMAIN drawn /\ uses[req[r].place] = 0
    BY <1>4 DEF Consume, StillStored
  <2> QED
    BY <1>4, <2>1 DEF Consume, CanGenerate
<1>5. ASSUME NEW r \in Requests, Refused(r)
      PROVE  CodesInv'
  BY <1>5 DEF Refused, CanGenerate
<1>6. CASE UNCHANGED vars
  BY <1>6 DEF vars, CanGenerate
<1> QED
  BY <1>1, <1>2, <1>3, <1>4, <1>5, <1>6 DEF Next

LEMMA CodesInvariant == Spec => []CodesInv
BY CodesInit, CodesStep, PTL DEF Spec

(* Every variable keeps its type; only hashes of the codes shown are stored. *)
THEOREM TypeCorrect == Spec => []TypeOK
<1>1. CodesInv => TypeOK
  BY DEF CodesInv
<1> QED
  BY <1>1, CodesInvariant, PTL

(* For any number of requests and codes: a code is stored until it has let *)
(* exactly one request in.                                                 *)
THEOREM AccountedFor == Spec => []CodesAccountedFor
<1>1. CodesInv => CodesAccountedFor
  BY DEF CodesInv
<1> QED
  BY <1>1, CodesInvariant, PTL

----------------------------------------------------------------------------

LEMMA Ends ==
    ASSUME NEW x \in Int, NEW y \in Int, x <= y
    PROVE  Min(x..y) = x /\ Max(x..y) = y
<1>1. x \in x..y /\ \A z \in x..y : x =< z
  OBVIOUS
<1>2. y \in x..y /\ \A z \in x..y : y >= z
  OBVIOUS
<1>3. \A z \in x..y : (\A u \in x..y : z =< u) => z = x
  BY <1>1
<1>4. \A z \in x..y : (\A u \in x..y : z >= u) => z = y
  BY <1>2
<1>5. Min(x..y) = x
  BY <1>1, <1>3 DEF Min
<1>6. Max(x..y) = y
  BY <1>2, <1>4 DEF Max
<1> QED
  BY <1>5, <1>6

LEMMA LowerCaseAlphabet ==
    \A c \in Alphabet : c \in Chars /\ Lower[c] = c
BY CharConstants, CodeConstants DEF Alphabet, ToLower, Range

(* Trimming and lowering takes every spelling of a code back to it.        *)
LEMMA SpellingNormalised ==
    ASSUME NoSpaces, BackupCodeLength \in Nat \ {0},
           NEW code \in [1..BackupCodeLength -> Alphabet],
           NEW text \in Seq(Chars), Spelling(text, code)
    PROVE  Normalised(text) = code
<1> DEFINE n == BackupCodeLength
           kept == {i \in DOMAIN text : text[i] \notin Spaces}
<1>1. /\ code \in Seq(Chars) /\ Len(code) = n /\ n \in Nat /\ n > 0
      /\ \A j \in 1..n : code[j] \in Chars /\ Lower[code[j]] = code[j] /\ code[j] \notin Spaces
  BY LowerCaseAlphabet DEF NoSpaces
<1>2. PICK before \in 0..Len(text) - n :
         \A i \in DOMAIN text :
            IF i - before \in 1..n
            THEN Lower[text[i]] = Lower[code[i - before]]
            ELSE text[i] \in Spaces
  BY <1>1 DEF Spelling
<1>3. /\ DOMAIN text = 1..Len(text) /\ Len(text) \in Nat /\ before \in Nat /\ before + n <= Len(text)
      /\ \A i \in 1..Len(text) : text[i] \in Chars
  BY <1>1, <1>2
<1>4. \A j \in 1..n : /\ before + j \in DOMAIN text
                      /\ Lower[text[before + j]] = code[j]
                      /\ text[before + j] \notin Spaces
  <2> SUFFICES ASSUME NEW j \in 1..n
               PROVE  /\ before + j \in DOMAIN text
                      /\ Lower[text[before + j]] = code[j]
                      /\ text[before + j] \notin Spaces
    OBVIOUS
  <2>1. before + j \in 1..Len(text) /\ (before + j) - before = j
    BY <1>1, <1>3
  <2>2. Lower[text[before + j]] = Lower[code[j]]
    BY <1>2, <1>3, <2>1
  <2>3. Lower[text[before + j]] \notin Spaces /\ text[before + j] \in Chars
    BY <1>1, <1>3, <2>1, <2>2
  <2> QED
    BY <1>1, <1>3, <2>1, <2>2, <2>3, CharConstants
<1>5. kept = (before + 1)..(before + n)
  <2>1. ASSUME NEW i \in kept
        PROVE  i \in (before + 1)..(before + n)
    <3>1. i - before \in 1..n
      BY <1>2, <2>1
    <3> QED
      BY <1>1, <1>3, <3>1
  <2>2. ASSUME NEW i \in (before + 1)..(before + n)
        PROVE  i \in kept
    <3>1. i - before \in 1..n /\ before + (i - before) = i
      BY <1>1, <1>3
    <3> QED
      BY <1>4, <3>1
  <2> QED
    BY <2>1, <2>2
<1>6. kept # {} /\ Min(kept) = before + 1 /\ Max(kept) = before + n
  <2>1. before + 1 \in Int /\ before + n \in Int /\ before + 1 <= before + n
    BY <1>1, <1>3
  <2>2. before + 1 \in kept
    BY <1>5, <2>1
  <2> HIDE DEF kept
  <2> QED
    BY <1>5, <2>1, <2>2, Ends
<1>7. TrimSpace(text) = SubSeq(text, before + 1, before + n)
  BY <1>6 DEF TrimSpace
<1>8. SubSeq(text, before + 1, before + n) = [j \in 1..n |-> text[before + j]]
  <2>1. (before + n) - (before + 1) + 1 = n /\ \A j \in 1..n : (before + 1) + j - 1 = before + j
    BY <1>1, <1>3
  <2> QED
    BY <1>1, <1>3, <2>1
<1>9. Normalised(text) = [j \in 1..n |-> Lower[text[before + j]]]
  BY <1>7, <1>8 DEF Normalised, ToLower
<1> QED
  BY <1>4, <1>9

(* For every alphabet without white space, every issued code matches, in   *)
(* any spelling, until it is spent.                                        *)
THEOREM StillMatch == ASSUME NoSpaces PROVE Spec => []IssuedCodesMatch
<1>1. CodesInv => IssuedCodesMatch
  <2> SUFFICES ASSUME CodesInv, NEW i \in stored, NEW text \in Texts, Spelling(text, drawn[i])
               PROVE  Matches(text) # {}
    BY DEF IssuedCodesMatch
  <2>1. drawn \in Draws /\ i \in 1..BackupCodeCount
    BY StoredPlaces DEF CodesInv
  <2>2. drawn[i] \in [1..BackupCodeLength -> Alphabet] /\ BackupCodeCount > 0
    BY <2>1, CodeConstants DEF Draws
  <2>3. BackupCodeLength \in Nat \ {0}
    <3>1. CanGenerate
      BY DEF CodesInv, Generated
    <3>2. BackupCodeLength \in 1..72
      BY <2>2, <3>1, Zenon DEF CanGenerate
    <3> QED
      BY <3>2
  <2>4. text \in Seq(Chars)
    BY CodeConstants
  <2>5. Normalised(text) = drawn[i]
    BY <2>2, <2>3, <2>4, SpellingNormalised
  <2> QED
    BY <2>5 DEF Matches
<1> QED
  BY <1>1, CodesInvariant, PTL

=============================================================================
