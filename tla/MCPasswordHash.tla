--------------------------- MODULE MCPasswordHash ---------------------------
(***************************************************************************)
(* Small instances of PasswordHash for TLC: the limits of util.go, words   *)
(* of 18 bits, and values on both sides of every limit.                    *)
(***************************************************************************)
EXTENDS PasswordHash

CONSTANTS right, long, prefix

(* prefix is the first 72 bytes of long.                                   *)
LengthOf == [pw \in Passwords |-> IF pw = long THEN 73 ELSE IF pw = prefix THEN 72 ELSE 11]

FirstBytes == [pw \in Passwords |-> IF pw = long THEN prefix ELSE pw]

Cost(m, t, p) == [key \in Key |-> IF key = "m" THEN m ELSE IF key = "t" THEN t ELSE p]

Setting(m, t, p, salt, hash) == [costs |-> Cost(m, t, p), SaltLength |-> salt, KeyLength |-> hash]

(* The default parameters and the limits.                                  *)
SoundParams ==
    {Setting(65536, 3, 2, 16, 32), Setting(MinMemory, 1, 1, 16, 16),
     Setting(MaxMemory, MaxIterations, MaxParallelism, 16, 32)}

WeakParams == {Setting(19456, 2, 1, 16, 32)}

(* For each key, values at the limits and values that are at them once cut *)
(* off.                                                                    *)
ItemsOf(key, values) == {[key |-> key, val |-> n] : n \in values}

SomeItems ==
    ItemsOf("m", {-1, MinMemory - 1, MinMemory, MaxMemory, MaxMemory + 1, WordMax + 1 + MinMemory})
    \cup ItemsOf("t", {0, 1, MaxIterations, MaxIterations + 1, WordMax + 2})
    \cup ItemsOf("p", {0, 1, MaxParallelism, MaxParallelism + 1, ByteMax + 2})
    \cup ItemsOf("other", {1})

Good == <<[key |-> "m", val |-> MinMemory], [key |-> "t", val |-> 1], [key |-> "p", val |-> 1]>>

NativeLooking(items, version, salt, hash) ==
    [origin |-> "other", algorithm |-> "argon2id", version |-> version, items |-> items,
     salt |-> salt, hash |-> hash, pw |-> right, made |-> Cost(MinMemory, 1, 1)]

Bcrypt(pw) == [origin |-> "legacy", algorithm |-> "other", version |-> "unreadable", items |-> <<>>,
               salt |-> -1, hash |-> -1, pw |-> pw, made |-> Zero]

SomeImports ==
    {NativeLooking(items, "19", 16, 16) : items \in [1..3 -> SomeItems]}
    \cup {NativeLooking(SubSeq(Good, 1, 2), "19", 16, 16), NativeLooking(Good \o Good, "19", 16, 16)}
    \cup {NativeLooking(Good, version, salt, hash) :
            version \in {"19", "other", "unreadable"}, salt \in {-1, 15, 16}, hash \in {-1, 15, 16}}
    \cup {Bcrypt(right), Bcrypt(long), Bcrypt(prefix)}

OnlyBcrypt == {Bcrypt(right)}

LongBcrypt == {Bcrypt(long)}

=============================================================================
