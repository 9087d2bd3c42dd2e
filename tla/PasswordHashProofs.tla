------------------------- MODULE PasswordHashProofs -------------------------
(***************************************************************************)
(* VerifyPassword runs argon2 on exactly the costs a string states, within *)
(* the limits, for every string; and no password is lost, for all limits   *)
(* and parameters that respect them.                                       *)
(***************************************************************************)
EXTENDS PasswordHash, TLAPS

(* Key k has no cost yet, or the one that an item read so far states.      *)
StatedBefore(k) ==
    v.costs[k] = 0 \/ \E j \in 1..v.i : v.hash.items[j] = [key |-> k, val |-> v.costs[k]]

(* ArgonAsWritten speaks of the end of decodeParams only.                  *)
Decoding ==
    /\ At("items") => Len(v.hash.items) = 3 /\ \A k \in Key : StatedBefore(k)
    /\ At("limits") => /\ Len(v.hash.items) = 3
                       /\ \A k \in Key : StatedBefore(k) /\ v.costs[k] # 0

DecodeInv == TypeOK /\ Decoding /\ ArgonAsWritten

----------------------------------------------------------------------------

LEMMA Fits ==
    ASSUME NEW n \in Nat, NEW max \in Nat, n <= max
    PROVE  n % (max + 1) = n
OBVIOUS

LEMMA HashPasswordType ==
    ASSUME NEW pw \in Passwords, NEW q \in HashingParams
    PROVE  /\ HashPassword(pw, q) \in Encoded
           /\ Len(HashPassword(pw, q).items) = 3
<1>1. q \in Params /\ q.costs["m"] \in Nat /\ q.costs["t"] \in Nat /\ q.costs["p"] \in Nat
  BY HashConstants
<1>2. \A k \in Key, n \in Nat : [key |-> k, val |-> n] \in Item
  BY DEF Item
<1>3. HashPassword(pw, q).items \in Seq(Item) /\ Len(HashPassword(pw, q).items) = 3
  BY <1>1, <1>2 DEF HashPassword, Key
<1> QED
  BY <1>1, <1>3 DEF HashPassword, Encoded, Params

(* What the loop stores for an item is what the item says.                 *)
LEMMA NothingCutOff ==
    ASSUME NEW item \in Item, ParseUint(item.val), Acceptable(item)
    PROVE  /\ item.key \in Key
           /\ Converted(item) = item.val
           /\ item.val \in 0..WordMax
           /\ item.key = "p" => item.val \in 0..ByteMax
<1>1. item.val \in Nat /\ item.val <= WordMax /\ (item.key = "p" => item.val <= ByteMax)
  BY HashConstants DEF ParseUint, Acceptable
<1>2. WordMax \in Nat /\ ByteMax \in Nat
  BY HashConstants
<1>3. Converted(item) = item.val
  BY <1>1, <1>2, Fits DEF Converted
<1> QED
  BY <1>1, <1>3 DEF Item, Acceptable

(* Three keys stated by three items: each item states one.                 *)
LEMMA EachOnce ==
    ASSUME NEW items, DOMAIN items = 1..3, NEW costs \in Costs,
           \A k \in Key : \E j \in 1..3 : items[j] = [key |-> k, val |-> costs[k]]
    PROVE  \E place \in [Key -> 1..3] :
              /\ \A k \in Key : items[place[k]] = [key |-> k, val |-> costs[k]]
              /\ {place[k] : k \in Key} = DOMAIN items
<1> DEFINE place == [k \in Key |-> CHOOSE j \in 1..3 : items[j] = [key |-> k, val |-> costs[k]]]
<1>1. \A k \in Key : place[k] \in 1..3 /\ items[place[k]] = [key |-> k, val |-> costs[k]]
  OBVIOUS
<1>2. place \in [Key -> 1..3]
  BY <1>1
<1> HIDE DEF place
<1>3. \A k, l \in Key : k # l => place[k] # place[l]
  BY <1>1
<1>4. place["m"] # place["t"] /\ place["t"] # place["p"] /\ place["m"] # place["p"]
  BY <1>3 DEF Key
<1>5. {place[k] : k \in Key} = {place["m"], place["t"], place["p"]}
  BY DEF Key
<1>6. place["m"] \in 1..3 /\ place["t"] \in 1..3 /\ place["p"] \in 1..3
  BY <1>2 DEF Key
<1>7. \A a, b, c \in 1..3 : a # b /\ b # c /\ a # c => {a, b, c} = 1..3
  OBVIOUS
<1>8. {place["m"], place["t"], place["p"]} = 1..3
  BY ONLY <1>4, <1>6, <1>7
<1> QED
  BY <1>1, <1>2, <1>5, <1>8

----------------------------------------------------------------------------

LEMMA DecodeInit == Init => DecodeInv
BY HashConstants DEF Init, DecodeInv, TypeOK, Verification, Zero, Costs, Key, Decoding, ArgonAsWritten,
       At, Encoded

LEMMA ReadItemStep ==
    ASSUME DecodeInv, ReadItem
    PROVE  DecodeInv'
<1> DEFINE item == v.hash.items[v.i + 1]
<1>1. /\ v \in Verification /\ v.i \in Nat /\ v.pc = "items"
      /\ v.hash.items \in Seq(Item) /\ Len(v.hash.items) = 3 /\ v.i + 1 \in 1..3
      /\ DOMAIN v.hash.items = 1..3
  BY DEF DecodeInv, TypeOK, Verification, Encoded, ReadItem, At, Decoding
<1>2. item \in Item
  BY <1>1
<1>3. CASE Goto("legacy")
  BY <1>1, <1>3 DEF Goto, ReadItem, DecodeInv, TypeOK, Verification, Decoding, ArgonAsWritten, At
<1>4. CASE /\ ParseUint(item.val) /\ Acceptable(item)
           /\ v' = [v EXCEPT !.i = Following(v.i), !.costs[item.key] = Converted(item)]
  <2>1. /\ item.key \in Key /\ Converted(item) = item.val /\ item.val \in 0..WordMax
        /\ item.key = "p" => item.val \in 0..ByteMax
    BY <1>2, <1>4, NothingCutOff
  <2> DEFINE costs == [v.costs EXCEPT ![item.key] = item.val]
  <2>0. v' = [v EXCEPT !.i = v.i + 1, !.costs = costs]
    BY <1>4, <2>1 DEF Following
  <2> HIDE DEF costs
  <2>2. v'.pc = "items" /\ v'.hash = v.hash /\ v'.i = v.i + 1 /\ v'.costs = costs
    BY <1>1, <2>0 DEF Verification
  <2>3. item.val \in Nat
    BY <2>1, HashConstants
  <2>4. costs \in Costs /\ \A k \in Key : costs[k] = IF k = item.key THEN item.val ELSE v.costs[k]
    BY <1>1, <2>1, <2>3 DEF Verification, Costs, costs
  <2>5. TypeOK'
    <3>1. v' \in Verification
      <4>1. v' = [pc |-> v.pc, hash |-> v.hash, i |-> v.i + 1, costs |-> costs, pw |-> v.pw,
                  right |-> v.right]
        BY <1>1, <2>0 DEF Verification
      <4>2. v.i + 1 \in Nat
        BY <1>1
      <4> QED
        BY <1>1, <2>4, <4>1, <4>2 DEF Verification
    <3>2. costs["m"] \in 0..WordMax /\ costs["t"] \in 0..WordMax /\ costs["p"] \in 0..ByteMax
      BY <2>1, <2>4 DEF DecodeInv, TypeOK, Key
    <3>3. v'.i \in 0..Len(v'.hash.items)
      <4>1. Len(v'.hash.items) = 3 /\ v'.i \in 1..3
        BY <1>1, <2>2
      <4> QED
        BY ONLY <4>1
    <3> QED
      BY <2>2, <3>1, <3>2, <3>3 DEF ReadItem, DecodeInv, TypeOK
  <2>6. ASSUME NEW k \in Key
        PROVE  StatedBefore(k)'
    <3>1. CASE k = item.key
      <4>1. item = [key |-> k, val |-> costs[k]]
        BY <1>2, <2>4, <3>1 DEF Item
      <4> QED
        BY <1>1, <2>2, <4>1 DEF StatedBefore
    <3>2. CASE k # item.key
      <4>1. costs[k] = v.costs[k]
        BY <2>4, <3>2
      <4>2. StatedBefore(k)
        BY <1>1 DEF DecodeInv, Decoding, At
      <4>3. 1..v.i \subseteq 1..v.i + 1
        BY <1>1
      <4> QED
        BY <2>2, <4>1, <4>2, <4>3 DEF StatedBefore
    <3> QED
      BY <3>1, <3>2
  <2> QED
    BY <1>1, <2>2, <2>5, <2>6 DEF DecodeInv, Decoding, ArgonAsWritten, At
<1> QED
  BY <1>3, <1>4 DEF ReadItem

(* The frame, the zero check, the limits and everything that changes no    *)
(* cost.                                                                   *)
LEMMA DecodeStep == DecodeInv /\ [Next]_vars => DecodeInv'
<1> SUFFICES ASSUME DecodeInv, [Next]_vars PROVE DecodeInv'
  OBVIOUS
<1>1. v \in Verification /\ TypeOK
  BY DEF DecodeInv, TypeOK
<1>2. ASSUME NEW pw \in Passwords, SetPassword(pw)
      PROVE  DecodeInv'
  BY <1>2, HashPasswordType
     DEF SetPassword, DecodeInv, TypeOK, Decoding, StatedBefore, ArgonAsWritten, At
<1>3. ASSUME NEW q \in HashingParams, Restart(q)
      PROVE  DecodeInv'
  BY <1>1, <1>3 DEF Restart, DecodeInv, TypeOK, Verification, Decoding, ArgonAsWritten, At
<1>4. ASSUME NEW pw \in Passwords, Begin(pw)
      PROVE  DecodeInv'
  <2>1. /\ stored \in Encoded /\ stored.items \in Seq(Item) /\ Zero \in Costs
        /\ Len(stored.items) \in Nat
        /\ \A k \in Key : Zero[k] = 0
    BY DEF DecodeInv, TypeOK, Encoded, Zero, Costs
  <2>2. /\ v'.pc \in {"items", "legacy"} /\ (v'.pc = "items" => Len(v'.hash.items) = 3)
        /\ v'.hash = stored /\ v'.costs = Zero /\ v'.i = 0
        /\ v' \in Verification
    BY <1>4, <2>1 DEF Begin, Verification
  <2>3. TypeOK'
    BY <1>4, <2>1, <2>2, HashConstants DEF Begin, DecodeInv, TypeOK, Key
  <2> QED
    BY <2>1, <2>2, <2>3 DEF DecodeInv, Decoding, StatedBefore, ArgonAsWritten, At
<1>5. CASE ReadItem
  BY <1>5, ReadItemStep
<1>6. CASE EndItems
  <2>1. /\ v'.pc \in {"legacy", "limits"} /\ v'.hash = v.hash /\ v'.costs = v.costs /\ v'.i = v.i
        /\ v'.pc = "limits" => \A k \in Key : v.costs[k] # 0
        /\ v' \in Verification /\ At("items")
        /\ params' = params /\ stored' = stored /\ password' = password
    BY <1>1, <1>6 DEF EndItems, Goto, Verification
  <2> QED
    BY <2>1 DEF DecodeInv, TypeOK, Decoding, StatedBefore, ArgonAsWritten, At
<1>7. CASE CheckLimits
  <2>1. /\ v'.pc = IF WithinLimits(v.costs) /\ LongEnough(v.hash) THEN "compare" ELSE "legacy"
        /\ v'.hash = v.hash /\ v'.costs = v.costs /\ v'.i = v.i
        /\ v' \in Verification /\ At("limits")
        /\ params' = params /\ stored' = stored /\ password' = password
    BY <1>1, <1>7 DEF CheckLimits, Goto, Verification
  <2>2. CASE v'.pc = "legacy"
    BY <2>1, <2>2 DEF DecodeInv, TypeOK, Decoding, ArgonAsWritten, At
  <2>3. CASE v'.pc = "compare"
    <3>1. /\ v.hash.items \in Seq(Item) /\ Len(v.hash.items) = 3
          /\ \A k \in Key : StatedBefore(k) /\ v.costs[k] # 0
          /\ v.i \in 0..3 /\ v.costs \in Costs
      BY <2>1 DEF DecodeInv, TypeOK, Verification, Encoded, Decoding
    <3>2. \A k \in Key : \E j \in 1..3 : v.hash.items[j] = [key |-> k, val |-> v.costs[k]]
      BY <3>1 DEF StatedBefore
    <3>3. DOMAIN v.hash.items = 1..3
      BY <3>1
    <3>4. \E place \in [Key -> 1..3] :
             /\ \A k \in Key : v.hash.items[place[k]] = [key |-> k, val |-> v.costs[k]]
             /\ {place[k] : k \in Key} = DOMAIN v.hash.items
      BY <3>1, <3>2, <3>3, EachOnce
    <3>5. WithinLimits(v.costs)'
      BY <2>1, <2>3 DEF WithinLimits
    <3>6. ArgonAsWritten'
      BY <2>1, <3>4, <3>5 DEF ArgonAsWritten
    <3> QED
      BY <2>1, <2>3, <3>6 DEF DecodeInv, TypeOK, Decoding, At
  <2> QED
    BY <2>1, <2>2, <2>3
<1>8. CASE Compare \/ LegacyRejects \/ LegacyAccepts
  <2>1. /\ v'.pc \in {"in", "denied", "legacy"} /\ v'.hash = v.hash /\ v'.costs = v.costs /\ v'.i = v.i
        /\ v' \in Verification /\ params' = params /\ password' = password
    BY <1>1, <1>8 DEF Compare, LegacyRejects, LegacyAccepts, Goto, Verdict, Verification
  <2>2. stored' \in Encoded
    BY <1>1, <1>8, HashPasswordType
       DEF Compare, LegacyRejects, LegacyAccepts, DecodeInv, TypeOK, Verification
  <2> QED
    BY <2>1, <2>2 DEF DecodeInv, TypeOK, Decoding, ArgonAsWritten, At
<1>9. CASE UNCHANGED vars
  BY <1>9 DEF vars, DecodeInv, TypeOK, Decoding, StatedBefore, ArgonAsWritten, At
<1> QED
  BY <1>2, <1>3, <1>4, <1>5, <1>6, <1>7, <1>8, <1>9 DEF Next

LEMMA DecodeInvariant == Spec => []DecodeInv
BY DecodeInit, DecodeStep, PTL DEF Spec

(* Every variable keeps its type; the decoded costs fit uint32 and uint8.  *)
THEOREM TypeCorrect == Spec => []TypeOK
<1>1. DecodeInv => TypeOK
  BY DEF DecodeInv
<1> QED
  BY <1>1, DecodeInvariant, PTL

(* For every string, every width and all limits: argon2 gets the costs the *)
(* string states, each stated once and within the limits.                  *)
THEOREM AsWritten == Spec => []ArgonAsWritten
<1>1. DecodeInv => ArgonAsWritten
  BY DEF DecodeInv
<1> QED
  BY <1>1, DecodeInvariant, PTL

----------------------------------------------------------------------------

(* Every configured value of HashingParams is one that VerifyPassword      *)
(* accepts.                                                                *)
SoundSettings ==
    \A q \in HashingParams : /\ WithinLimits(q.costs)
                             /\ q.SaltLength >= MinSaltLength
                             /\ q.KeyLength >= MinKeyLength

(* A string is imported or of the form HashPassword gives it.              *)
Known(h) ==
    \/ h.origin # "HashPassword" /\ (h.origin = "legacy" => h.algorithm # "argon2id")
    \/ \E pw \in Passwords, q \in HashingParams : h = HashPassword(pw, q)

(* The costs after i items of a string of HashPassword's.                  *)
CostsAfter(i, made) ==
    [k \in Key |-> IF \/ k = "m" /\ i >= 1
                      \/ k = "t" /\ i >= 2
                      \/ k = "p" /\ i >= 3
                   THEN made[k] ELSE 0]

(* On the way through a string of HashPassword's: the items read have left *)
(* their costs, and there is no other way than to the comparison.          *)
OwnString ==
    v.hash.origin = "HashPassword" =>
        /\ v.pc # "legacy"
        /\ At("items") => v.costs = CostsAfter(v.i, v.hash.made)
        /\ v.pc \in {"limits", "compare"} => v.costs = v.hash.made

(* What a stored string stands for, given the password set or imported.    *)
Follows(h, pw) ==
    h.origin # "other" =>
        \/ h.pw = pw
        \/ h.origin = "HashPassword" /\ PasswordLength[pw] > 72 /\ h.pw = Truncated[pw]

Followed ==
    /\ Follows(stored, password)
    /\ v.right => Follows(v.hash, v.pw)

KeptInv ==
    /\ DecodeInv
    /\ Followed
    /\ Known(stored) /\ Known(v.hash)
    /\ v.hash.origin = "legacy" => v.pc \in {"none", "legacy", "in", "denied"}
    /\ OwnString
    /\ PasswordKept

LEMMA FollowedStep == DecodeInv /\ Followed /\ [Next]_vars => Followed'
<1> SUFFICES ASSUME DecodeInv, Followed, [Next]_vars PROVE Followed'
  OBVIOUS
<1>0. /\ v \in Verification /\ stored \in Encoded /\ v.pw \in Passwords /\ password \in Passwords
      /\ \A h, pw : Follows(h, pw)' <=> Follows(h', pw')
  BY DEF DecodeInv, TypeOK, Verification, Follows
<1>1. ASSUME v'.hash = v.hash, v'.pw = v.pw, v'.right = v.right, Follows(stored', password')
      PROVE  Followed'
  BY <1>1 DEF Followed, Follows
<1>2. ASSUME NEW pw \in Passwords, SetPassword(pw)
      PROVE  Followed'
  BY <1>1, <1>2 DEF SetPassword, HashPassword, Follows
<1>3. ASSUME NEW pw \in Passwords, Begin(pw)
      PROVE  Followed'
  BY <1>3 DEF Begin, Followed, Follows
<1>4. ASSUME v'.hash = v.hash, v'.pw = v.pw, v'.right = v.right,
             stored' = stored, password' = password
      PROVE  Followed'
  BY <1>1, <1>4 DEF Followed
<1>5. CASE ReadItem \/ EndItems \/ CheckLimits \/ Compare \/ LegacyRejects
  BY <1>0, <1>4, <1>5
     DEF ReadItem, EndItems, CheckLimits, Compare, LegacyRejects, Goto, Verification
<1>6. ASSUME NEW q \in HashingParams, Restart(q)
      PROVE  Followed'
  BY <1>0, <1>4, <1>6 DEF Restart, Verification
<1>7. CASE LegacyAccepts
  <2>1. /\ v'.hash = v.hash /\ v'.pw = v.pw /\ v'.right = v.right /\ password' = password
        /\ v.hash.origin = "legacy" /\ Truncated[v.pw] = Truncated[v.hash.pw]
        /\ \/ stored = v.hash /\ PasswordLength[v.pw] <= 72 /\ stored' = HashPassword(v.pw, params)
           \/ stored' = stored
    BY <1>0, <1>7, HashConstants
       DEF LegacyAccepts, VerifiedLegacy, StillVerified, Hashable, Goto, Verification
  <2>2. CASE stored' = stored
    BY <1>4, <2>1, <2>2
  <2>3. CASE stored = v.hash /\ PasswordLength[v.pw] <= 72 /\ stored' = HashPassword(v.pw, params)
    <3>1. stored.pw = password
      BY <2>1, <2>3 DEF Followed, Follows
    <3>2. stored'.pw = Truncated[password] /\ stored'.origin = "HashPassword"
      BY <1>0, <2>1, <2>3, <3>1, HashConstants DEF HashPassword
    <3>3. PasswordLength[password] > 72 \/ Truncated[password] = password
      BY <1>0, HashConstants
    <3> QED
      BY <1>1, <2>1, <3>2, <3>3 DEF Follows
  <2> QED
    BY <2>1, <2>2, <2>3
<1>8. CASE UNCHANGED vars
  BY <1>4, <1>8 DEF vars
<1> QED
  BY <1>2, <1>3, <1>5, <1>6, <1>7, <1>8 DEF Next

LEMMA OwnForm ==
    ASSUME NEW pw \in Passwords, NEW q \in HashingParams, NEW h, h = HashPassword(pw, q)
    PROVE  /\ h.origin = "HashPassword" /\ h.algorithm = "argon2id" /\ h.version = "19"
           /\ Len(h.items) = 3 /\ h.made = q.costs /\ h.salt = q.SaltLength /\ h.hash = q.KeyLength
           /\ h.items[1] = [key |-> "m", val |-> h.made["m"]]
           /\ h.items[2] = [key |-> "t", val |-> h.made["t"]]
           /\ h.items[3] = [key |-> "p", val |-> h.made["p"]]
           /\ h.made \in Costs
           /\ h.made["m"] \in 0..WordMax /\ h.made["t"] \in 0..WordMax /\ h.made["p"] \in 0..ByteMax
<1>1. q \in Params /\ q.costs["m"] \in 0..WordMax /\ q.costs["t"] \in 0..WordMax /\ q.costs["p"] \in 0..ByteMax
  BY HashConstants
<1> QED
  BY <1>1 DEF HashPassword, Params

LEMMA KeptInit == Init => KeptInv
BY DecodeInit, HashConstants, LegacyHashes
   DEF Init, KeptInv, Known, Followed, Follows, OwnString, PasswordKept, At, Encoded

(* What is known while a string of HashPassword's is verified.             *)
LEMMA OwnFacts ==
    ASSUME KeptInv, v.hash.origin = "HashPassword"
    PROVE  /\ v.hash.algorithm = "argon2id" /\ v.hash.version = "19" /\ Len(v.hash.items) = 3
           /\ v.hash.items[1] = [key |-> "m", val |-> v.hash.made["m"]]
           /\ v.hash.items[2] = [key |-> "t", val |-> v.hash.made["t"]]
           /\ v.hash.items[3] = [key |-> "p", val |-> v.hash.made["p"]]
           /\ v.hash.made \in Costs
           /\ v.hash.made["m"] \in 0..WordMax /\ v.hash.made["t"] \in 0..WordMax
           /\ v.hash.made["p"] \in 0..ByteMax
           /\ SoundSettings => WithinLimits(v.hash.made) /\ LongEnough(v.hash)
<1>1. PICK pw \in Passwords, q \in HashingParams : v.hash = HashPassword(pw, q)
  BY DEF KeptInv, Known
<1> QED
  BY <1>1, OwnForm DEF SoundSettings, LongEnough

LEMMA OwnItem ==
    ASSUME KeptInv, ReadItem, v.hash.origin = "HashPassword"
    PROVE  /\ v'.pc = "items" /\ v'.hash = v.hash /\ v'.i = v.i + 1
           /\ v'.costs = CostsAfter(v.i + 1, v.hash.made)
<1> DEFINE item == v.hash.items[v.i + 1]
<1>1. /\ v \in Verification /\ v.i \in {0, 1, 2} /\ v.pc = "items"
      /\ v.costs = CostsAfter(v.i, v.hash.made)
  <2>1. v \in Verification /\ v.pc = "items" /\ v.i \in Nat /\ v.i < Len(v.hash.items)
    BY DEF KeptInv, DecodeInv, TypeOK, ReadItem, At, Verification
  <2>2. Len(v.hash.items) = 3
    BY OwnFacts
  <2>3. v.costs = CostsAfter(v.i, v.hash.made)
    BY <2>1 DEF KeptInv, OwnString, At
  <2> QED
    BY <2>1, <2>2, <2>3
<1>2. WordMax \in Nat /\ ByteMax \in Nat /\ ByteMax <= WordMax
  BY HashConstants
<1>3. /\ item.key = IF v.i = 0 THEN "m" ELSE IF v.i = 1 THEN "t" ELSE "p"
      /\ item.val = v.hash.made[item.key]
      /\ item.val \in 0..WordMax /\ (item.key = "p" => item.val <= ByteMax)
  BY <1>1, <1>2, OwnFacts
<1>4. item \in Item
  <2>1. v.hash.items \in Seq(Item) /\ v.i + 1 \in 1..Len(v.hash.items)
    BY <1>1, OwnFacts DEF Verification, Encoded
  <2> QED
    BY <2>1
<1>5. ParseUint(item.val) /\ Acceptable(item)
  BY <1>3 DEF ParseUint, Acceptable
<1>6. item.key \in Key /\ Converted(item) = item.val
  BY <1>4, <1>5, NothingCutOff
<1> DEFINE costs == [v.costs EXCEPT ![item.key] = item.val]
<1>7. v' = [v EXCEPT !.i = v.i + 1, !.costs = costs]
  BY <1>5, <1>6 DEF ReadItem, Following
<1>8. costs = CostsAfter(v.i + 1, v.hash.made)
  <2>1. ASSUME NEW k \in Key
        PROVE  costs[k] = CostsAfter(v.i + 1, v.hash.made)[k]
    <3>1. costs[k] = IF k = item.key THEN v.hash.made[k] ELSE CostsAfter(v.i, v.hash.made)[k]
      BY <1>1, <1>3, <1>6 DEF CostsAfter
    <3>2. /\ k = "m" \/ k = "t" \/ k = "p"
          /\ item.key = IF v.i = 0 THEN "m" ELSE IF v.i = 1 THEN "t" ELSE "p"
      BY <1>3 DEF Key
    <3> HIDE DEF item, costs
    <3>3. CASE v.i = 0
      <4>1. v.i + 1 = 1
        BY <3>3
      <4>2. /\ CostsAfter(0, v.hash.made)[k] = 0
            /\ CostsAfter(1, v.hash.made)[k] = IF k = "m" THEN v.hash.made[k] ELSE 0
        BY <3>2 DEF CostsAfter
      <4> QED
        BY <3>1, <3>2, <3>3, <4>1, <4>2
    <3>4. CASE v.i = 1
      <4>1. v.i + 1 = 2
        BY <3>4
      <4>2. /\ CostsAfter(1, v.hash.made)[k] = IF k = "m" THEN v.hash.made[k] ELSE 0
            /\ CostsAfter(2, v.hash.made)[k] = IF k = "m" \/ k = "t" THEN v.hash.made[k] ELSE 0
        BY <3>2 DEF CostsAfter
      <4> QED
        BY <3>1, <3>2, <3>4, <4>1, <4>2
    <3>5. CASE v.i = 2
      <4>1. v.i + 1 = 3
        BY <3>5
      <4>2. /\ CostsAfter(2, v.hash.made)[k] = IF k = "m" \/ k = "t" THEN v.hash.made[k] ELSE 0
            /\ CostsAfter(3, v.hash.made)[k] = v.hash.made[k]
        BY <3>2 DEF CostsAfter
      <4> QED
        BY <3>1, <3>2, <3>5, <4>1, <4>2
    <3> QED
      BY <1>1, <3>3, <3>4, <3>5
  <2>2. costs = [k \in Key |-> costs[k]]
    BY <1>1 DEF CostsAfter
  <2>3. CostsAfter(v.i + 1, v.hash.made) = [k \in Key |-> CostsAfter(v.i + 1, v.hash.made)[k]]
    BY DEF CostsAfter
  <2> HIDE DEF costs
  <2> QED
    BY <2>1, <2>2, <2>3
<1> HIDE DEF costs
<1> QED
  BY <1>1, <1>7, <1>8 DEF Verification

LEMMA KeptRead ==
    ASSUME KeptInv, DecodeInv', Followed', ReadItem
    PROVE  KeptInv'
<1>1. /\ v'.pc \in {"items", "legacy"} /\ v'.hash = v.hash /\ stored' = stored /\ v.pc = "items"
      /\ \A h : Known(h)' <=> Known(h)
  BY DEF ReadItem, KeptInv, DecodeInv, TypeOK, Verification, Goto, At, Known
<1>2. CASE v.hash.origin = "HashPassword"
  <2>1. OwnString'
    <3>1. v'.pc = "items" /\ v'.costs = CostsAfter(v'.i, v'.hash.made)
      BY <1>2, OwnItem
    <3> QED
      BY <3>1 DEF OwnString, At
  <2> QED
    BY <1>1, <1>2, <2>1 DEF KeptInv, PasswordKept, At
<1>3. CASE v.hash.origin # "HashPassword"
  BY <1>1, <1>3 DEF KeptInv, OwnString, PasswordKept, At
<1> QED
  BY <1>2, <1>3

LEMMA KeptStep == ASSUME SoundSettings PROVE KeptInv /\ [Next]_vars => KeptInv'
<1> SUFFICES ASSUME KeptInv, [Next]_vars PROVE KeptInv'
  OBVIOUS
<1>0. DecodeInv /\ DecodeInv' /\ Followed /\ Followed' /\ v \in Verification /\ stored \in Encoded
  BY DecodeStep, FollowedStep DEF KeptInv, DecodeInv, TypeOK
<1>1. Known(stored) /\ Known(v.hash) /\ OwnString /\ PasswordKept
  BY DEF KeptInv
<1>2. \A pw \in Passwords : Known(HashPassword(pw, params))
  BY <1>0 DEF Known, DecodeInv, TypeOK
<1>3. \A h : Known(h)' <=> Known(h)
  BY DEF Known
<1>4. ASSUME v'.hash = v.hash, Known(stored'), 
             OwnString', PasswordKept',
             v.hash.origin = "legacy" => v'.pc \in {"none", "legacy", "in", "denied"}
      PROVE  KeptInv'
  BY <1>0, <1>1, <1>3, <1>4 DEF KeptInv
<1>5. ASSUME NEW pw \in Passwords, SetPassword(pw)
      PROVE  KeptInv'
  BY <1>1, <1>2, <1>4, <1>5 DEF SetPassword, KeptInv, OwnString, PasswordKept, CutOff, At
<1>6. ASSUME NEW q \in HashingParams, Restart(q)
      PROVE  KeptInv'
  <2>1. v'.pc = "none" /\ v'.hash = v.hash /\ stored' = stored
    BY <1>0, <1>6 DEF Restart, Verification
  <2> QED
    BY <1>1, <1>4, <2>1 DEF OwnString, PasswordKept, At
<1>7. ASSUME NEW pw \in Passwords, Begin(pw)
      PROVE  KeptInv'
  <2>1. /\ v'.hash = stored /\ stored' = stored /\ v'.costs = Zero /\ v'.i = 0
        /\ v'.pc = IF stored.algorithm = "argon2id" /\ stored.version = "19" /\ Len(stored.items) = 3
                   THEN "items" ELSE "legacy"
    BY <1>7 DEF Begin
  <2>2. CASE stored.origin = "HashPassword"
    <3>1. PICK pv \in Passwords, q \in HashingParams : stored = HashPassword(pv, q)
      BY <1>1, <2>2 DEF Known
    <3>2. v'.pc = "items"
      <4>1. stored.algorithm = "argon2id" /\ stored.version = "19" /\ Len(stored.items) = 3
        BY <3>1, HashPasswordType DEF HashPassword
      <4> QED
        BY <2>1, <4>1
    <3>3. CostsAfter(0, stored.made) = Zero
      BY DEF CostsAfter, Zero
    <3>4. OwnString'
      BY <2>1, <3>2, <3>3 DEF OwnString, At
    <3> QED
      BY <1>0, <1>1, <1>3, <2>1, <2>2, <3>2, <3>4 DEF KeptInv, PasswordKept, At
  <2>3. CASE stored.origin # "HashPassword"
    <3>1. stored.origin = "legacy" => v'.pc = "legacy"
      <4>1. stored.origin = "legacy" => stored.algorithm # "argon2id"
        BY <2>3, <1>1, OwnForm DEF Known
      <4> QED
        BY <2>1, <4>1
    <3>2. v'.pc # "denied"
      BY <2>1
    <3>3. Known(stored') /\ Known(v'.hash)
      BY <1>1, <2>1
    <3>4. OwnString' /\ PasswordKept'
      BY <2>1, <2>3, <3>2 DEF OwnString, PasswordKept, At
    <3> QED
      BY <1>0, <1>3, <2>1, <3>1, <3>3, <3>4 DEF KeptInv
  <2> QED
    BY <2>2, <2>3
<1>8. CASE ReadItem
  BY <1>0, <1>8, KeptRead DEF KeptInv
<1>9. CASE EndItems
  <2>1. /\ v'.hash = v.hash /\ v'.costs = v.costs /\ stored' = stored /\ v.pc = "items"
        /\ v'.pc = IF \E k \in Key : v.costs[k] = 0 THEN "legacy" ELSE "limits"
        /\ v.i \in Nat /\ v.i >= Len(v.hash.items)
    BY <1>0, <1>9 DEF EndItems, Goto, At, Verification
  <2>2. CASE v.hash.origin = "HashPassword"
    <3>1. v.i >= 3
      BY <2>1, <2>2, OwnFacts DEF KeptInv
    <3>2. v.hash.made \in Costs /\ WithinLimits(v.hash.made)
      BY <2>2, OwnFacts
    <3>3. v.costs = [k \in Key |-> v.hash.made[k]]
      <4>1. v.costs = CostsAfter(v.i, v.hash.made)
        BY <1>1, <2>1, <2>2 DEF OwnString, At
      <4>2. \A k \in Key : (k = "m" /\ v.i >= 1) \/ (k = "t" /\ v.i >= 2) \/ (k = "p" /\ v.i >= 3)
        BY <2>1, <3>1 DEF Key
      <4> QED
        BY <4>1, <4>2 DEF CostsAfter
    <3>4. v.costs = v.hash.made
      BY <3>2, <3>3 DEF Costs
    <3>5. \A k \in Key : v.hash.made[k] # 0
      BY <3>2, HashConstants DEF WithinLimits, Key, Costs
    <3>6. v'.pc = "limits"
      BY <2>1, <3>4, <3>5
    <3> QED
      BY <1>1, <1>4, <2>1, <2>2, <3>4, <3>6 DEF OwnString, PasswordKept, At
  <2>3. CASE v.hash.origin # "HashPassword"
    <3>1. v.hash.origin # "legacy" /\ v'.pc # "denied"
      BY <2>1 DEF KeptInv
    <3> QED
      BY <1>1, <1>4, <2>1, <2>3, <3>1 DEF OwnString, PasswordKept, At
  <2> QED
    BY <2>2, <2>3
<1>10. CASE CheckLimits
  <2>1. /\ v'.hash = v.hash /\ v'.costs = v.costs /\ stored' = stored /\ v.pc = "limits"
        /\ v'.pc = IF WithinLimits(v.costs) /\ LongEnough(v.hash) THEN "compare" ELSE "legacy"
    BY <1>0, <1>10 DEF CheckLimits, Goto, At, Verification
  <2>2. CASE v.hash.origin = "HashPassword"
    <3>1. v.costs = v.hash.made /\ WithinLimits(v.hash.made) /\ LongEnough(v.hash)
      BY <1>1, <2>1, <2>2, OwnFacts DEF OwnString
    <3> QED
      BY <1>1, <1>4, <2>1, <2>2, <3>1 DEF OwnString, PasswordKept, At
  <2>3. CASE v.hash.origin # "HashPassword"
    <3>1. v.hash.origin # "legacy" /\ v'.pc # "denied"
      BY <2>1 DEF KeptInv
    <3> QED
      BY <1>1, <1>4, <2>1, <2>3, <3>1 DEF OwnString, PasswordKept, At
  <2> QED
    BY <2>2, <2>3
<1>11. CASE Compare
  <2>1. /\ v'.hash = v.hash /\ v'.pw = v.pw /\ stored' = stored /\ v.pc = "compare"
        /\ v'.pc \in {"in", "denied"}
        /\ v'.pc = "denied" => ~(v.pw = v.hash.pw /\ v.costs = v.hash.made)
        /\ v'.right = v.right
    BY <1>0, <1>11 DEF Compare, Goto, At, Verdict, Verification
  <2>2. v.hash.origin # "legacy" /\ (v.hash.origin = "HashPassword" => v.costs = v.hash.made)
    BY <1>1, <2>1 DEF KeptInv, OwnString
  <2>3. PasswordKept'
    <3>1. v'.pc = "denied" /\ v'.right /\ v'.hash.origin # "other" =>
             /\ v.hash.origin = "HashPassword"
             /\ PasswordLength[v.pw] > 72 /\ v.hash.pw = Truncated[v.pw]
      <4>1. v.hash.origin \in {"HashPassword", "other"}
        BY <1>0, <2>2 DEF Verification, Encoded
      <4>2. v.right => Follows(v.hash, v.pw)
        BY <1>0 DEF Followed
      <4> QED
        BY <2>1, <2>2, <4>1, <4>2 DEF Follows
    <3> QED
      BY <2>1, <3>1 DEF PasswordKept, CutOff, At
  <2> QED
    BY <1>1, <1>4, <2>1, <2>2, <2>3 DEF OwnString, At
<1>12. CASE LegacyRejects \/ LegacyAccepts
  <2>1. /\ v'.hash = v.hash /\ v'.pw = v.pw /\ v'.right = v.right /\ v.pc = "legacy"
        /\ v'.pc \in {"in", "denied"}
        /\ v'.pc = "denied" => ~VerifiedLegacy
    BY <1>0, <1>12 DEF LegacyRejects, LegacyAccepts, Goto, At, Verification
  <2>2. Known(stored')
    BY <1>0, <1>1, <1>2, <1>12 DEF LegacyRejects, LegacyAccepts, Verification
  <2>3. v.hash.origin # "HashPassword"
    BY <1>1, <2>1 DEF OwnString
  <2>4. PasswordKept'
    <3>1. v.hash.origin \in {"legacy", "other"}
      BY <1>0, <2>3 DEF Verification, Encoded
    <3>2. v.right /\ v.hash.origin = "legacy" => v.hash.pw = v.pw
      BY <1>0 DEF Followed, Follows
    <3>3. v.hash.origin = "legacy" /\ v.hash.pw = v.pw => VerifiedLegacy
      BY DEF VerifiedLegacy
    <3>4. v'.pc = "denied" /\ v'.right => v'.hash.origin = "other"
      BY <2>1, <3>1, <3>2, <3>3
    <3> QED
      BY <3>4 DEF PasswordKept, At
  <2> QED
    BY <1>4, <2>1, <2>2, <2>3, <2>4 DEF OwnString, At
<1>13. CASE UNCHANGED vars
  BY <1>0, <1>1, <1>4, <1>13 DEF vars, KeptInv, OwnString, PasswordKept, CutOff, At
<1> QED
  BY <1>5, <1>6, <1>7, <1>8, <1>9, <1>10, <1>11, <1>12, <1>13 DEF Next

LEMMA KeptInvariant == ASSUME SoundSettings PROVE Spec => []KeptInv
<1>1. KeptInv /\ [Next]_vars => KeptInv'
  BY KeptStep
<1> QED
  BY KeptInit, <1>1, PTL DEF Spec

(* With parameters that VerifyPassword accepts, whoever types the password *)
(* last set or imported is never denied, but for an imported password over *)
(* 72 bytes that an upgrade has cut to the 72 that bcrypt compares.        *)
THEOREM Kept == ASSUME SoundSettings PROVE Spec => []PasswordKept
<1>1. KeptInv => PasswordKept
  BY DEF KeptInv
<1> QED
  BY <1>1, KeptInvariant, PTL

(* So if no password is longer than bcrypt compares, none is ever lost.    *)
THEOREM AlwaysKept ==
    ASSUME SoundSettings, \A pw \in Passwords : PasswordLength[pw] <= 72
    PROVE  Spec => []PasswordAlwaysKept
<1>1. KeptInv => PasswordAlwaysKept
  <2>1. KeptInv => v.pw \in Passwords /\ PasswordLength[v.pw] \in Nat
    BY HashConstants DEF KeptInv, DecodeInv, TypeOK, Verification
  <2>2. KeptInv => ~CutOff
    BY <2>1 DEF CutOff
  <2> QED
    BY <2>2 DEF KeptInv, PasswordKept, PasswordAlwaysKept
<1> QED
  BY <1>1, KeptInvariant, PTL

(* With such parameters a hash of HashPassword's never reaches the legacy  *)
(* verifier.                                                               *)
THEOREM NeverLegacy == ASSUME SoundSettings PROVE Spec => []NativeNeverLegacy
<1>1. KeptInv => NativeNeverLegacy
  BY DEF KeptInv, OwnString, NativeNeverLegacy, At
<1> QED
  BY <1>1, KeptInvariant, PTL

=============================================================================
