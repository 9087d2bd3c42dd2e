-------------------------- MODULE UserStoreProofs --------------------------
(***************************************************************************)
(* MemoryStorage keeps its three maps consistent and implements UserTable, *)
(* for every set of users, names, security values and heap addresses.      *)
(***************************************************************************)
EXTENDS UserStore, TLAPS

(* Each stored struct is a user filed under its own ID, and not the        *)
(* caller's struct.                                                        *)
Filed ==
    \A u \in Stored : /\ heap[users[u]] \in UserRecord
                      /\ heap[users[u]].id = u
                      /\ users[u] # hand

HandHeld == hand # None => heap[hand] \in UserRecord

(* IndexConsistent alone is not inductive: a clone or an edit could land   *)
(* on a stored struct, or a struct be filed under another user's ID.       *)
StoreInv == TypeOK /\ Filed /\ HandHeld /\ IndexConsistent

----------------------------------------------------------------------------

LEMMA KeyOf ==
    ASSUME NEW name \in Names, NEW f \in Field, name[f] # None
    PROVE  name[f] \in Spellings /\ Lower[name[f]] \in Keys
BY DEF Names, Field, Spellings, Keys

LEMMA NewUserType ==
    ASSUME NEW id \in Users, NEW name \in Names, NEW hash \in Hash
    PROVE  NewUser(id, name, hash) \in UserRecord
BY DEF NewUser, UserRecord, Account

LEMMA RecordFields ==
    ASSUME NEW user \in UserRecord
    PROVE  /\ user.id \in Users
           /\ user.name \in Names
           /\ user.acct \in Account
BY DEF UserRecord

(* What the collector keeps: anything still pointed to.                    *)
LEMMA WriteHeap ==
    ASSUME TypeOK, NEW r, NEW user \in UserRecord, Write(r, user)
    PROVE  /\ heap' \in [Refs -> UserRecord \cup {None}]
           /\ \A x \in Refs : x \in Pointers' => heap'[x] = IF x = r THEN user ELSE heap[x]
BY DEF TypeOK, Write

LEMMA UnwrittenHeap ==
    ASSUME TypeOK, Unwritten
    PROVE  /\ heap' \in [Refs -> UserRecord \cup {None}]
           /\ \A x \in Refs : x \in Pointers' => heap'[x] = heap[x]
BY DEF TypeOK, Unwritten

(* A step that leaves the maps alone, every stored name, and the caller    *)
(* with a struct of its own keeps the invariant.                           *)
LEMMA MapsKept ==
    ASSUME StoreInv,
           UNCHANGED maps,
           heap' \in [Refs -> UserRecord \cup {None}],
           hand' \in Refs \cup {None},
           reply' \in Reply,
           \A u \in Stored : /\ heap'[users[u]] \in UserRecord
                             /\ heap'[users[u]].id = u
                             /\ heap'[users[u]].name = heap[users[u]].name
                             /\ users[u] # hand',
           hand' # None => heap'[hand'] \in UserRecord
    PROVE  StoreInv'
<1>1. TypeOK'
  BY DEF StoreInv, TypeOK, maps
<1>2. Filed'
  BY DEF Filed, Stored, maps
<1>3. HandHeld'
  BY DEF HandHeld
<1>4. IndexConsistent'
  <2> SUFFICES ASSUME NEW f \in Field, NEW k \in Keys, NEW r \in Refs
               PROVE  index[f][k] = r <=>
                        \E u \in Stored : users[u] = r /\ HasKey(heap'[r], f, k)
    BY DEF IndexConsistent, Stored, maps
  <2>1. index[f][k] = r <=> \E u \in Stored : users[u] = r /\ HasKey(heap[r], f, k)
    BY DEF StoreInv, IndexConsistent
  <2>2. \A u \in Stored : users[u] = r => (HasKey(heap'[r], f, k) <=> HasKey(heap[r], f, k))
    BY DEF HasKey
  <2> QED
    BY <2>1, <2>2
<1> QED
  BY <1>1, <1>2, <1>3, <1>4 DEF StoreInv

(* The pointers of the maps and of the caller survive the step.            *)
LEMMA Reachable ==
    /\ \A u \in Users : users[u] \in Pointers
    /\ hand \in Pointers
    /\ \A f \in Field, k \in Keys : index[f][k] \in Pointers
BY DEF Pointers

LEMMA ReachableNext ==
    /\ \A u \in Users : users'[u] \in Pointers'
    /\ hand' \in Pointers'
    /\ \A f \in Field, k \in Keys : index'[f][k] \in Pointers'
BY DEF Pointers

(* A name's entry, when there is one, is a stored struct with that name.   *)
LEMMA EntryStored ==
    ASSUME StoreInv, NEW name \in Names, NEW f \in Field, Entry(name, f) # None
    PROVE  \E u \in Stored : /\ users[u] = Entry(name, f)
                             /\ name[f] # None
                             /\ HasKey(heap[users[u]], f, Lower[name[f]])
<1>1. name[f] # None /\ Entry(name, f) = index[f][Lower[name[f]]]
  BY DEF Entry
<1>2. Lower[name[f]] \in Keys
  BY <1>1, KeyOf
<1>3. index[f][Lower[name[f]]] \in Refs
  BY <1>1, <1>2 DEF StoreInv, TypeOK
<1> QED
  BY <1>1, <1>2, <1>3 DEF StoreInv, IndexConsistent

LEMMA StoredHasEntry ==
    ASSUME StoreInv, NEW name \in Names, NEW f \in Field, name[f] # None,
           NEW u \in Stored, HasKey(heap[users[u]], f, Lower[name[f]])
    PROVE  Entry(name, f) = users[u]
<1>1. Lower[name[f]] \in Keys
  BY KeyOf
<1>2. users[u] \in Refs
  BY DEF StoreInv, TypeOK, Stored
<1> QED
  BY <1>1, <1>2 DEF StoreInv, IndexConsistent, Entry

----------------------------------------------------------------------------
(* The invariant, action by action. *)

LEMMA InitInv == Init => StoreInv
<1> SUFFICES ASSUME Init
             PROVE  StoreInv
  OBVIOUS
<1>1. Stored = {} /\ hand = None
  BY DEF Init, Stored
<1>2. \A f \in Field, k \in Keys : index[f][k] = None
  BY DEF Init
<1>3. index \in [Field -> [Keys -> Refs \cup {None}]]
  BY DEF Init
<1>4. TypeOK
  BY <1>3 DEF Init, TypeOK, Reply, Answer
<1>5. IndexConsistent
  BY <1>1, <1>2, RefConstants DEF IndexConsistent
<1> QED
  BY <1>1, <1>4, <1>5 DEF StoreInv, Filed, HandHeld

LEMMA RefuseInv ==
    ASSUME StoreInv, NEW err \in {"ErrUserAlreadyExists", "ErrUserNotFound",
                                 "ErrTFAAttemptsExhausted"}, Refuse(err)
    PROVE  StoreInv'
<1>1. UNCHANGED <<heap, users, index, hand>> /\ reply' \in Reply
  BY DEF Refuse, Reply, Answer
<1> QED
  BY <1>1 DEF StoreInv, TypeOK, Filed, HandHeld, IndexConsistent, Stored, HasKey

(* A struct at an unused address, handed to the caller.                    *)
LEMMA HandOutInv ==
    ASSUME StoreInv, NEW r \in Refs, Unused(r), NEW user \in UserRecord,
           hand' = r, UNCHANGED maps, Write(r, user), reply' \in Reply
    PROVE  StoreInv'
<1>1. /\ heap' \in [Refs -> UserRecord \cup {None}]
      /\ \A x \in Refs : x \in Pointers' => heap'[x] = IF x = r THEN user ELSE heap[x]
  BY WriteHeap DEF StoreInv
<1>2. \A u \in Stored : users[u] \in Refs /\ users[u] # r
  BY Reachable DEF Unused, Stored, StoreInv, TypeOK
<1>3. \A u \in Stored : heap'[users[u]] = heap[users[u]]
  BY <1>1, <1>2, ReachableNext DEF maps, Stored
<1>4. heap'[hand'] = user
  BY <1>1, ReachableNext
<1> QED
  BY <1>1, <1>2, <1>3, <1>4, MapsKept DEF StoreInv, Filed

(* The caller's struct or a stored account is written in place.            *)
LEMMA EditInv ==
    ASSUME StoreInv, hand # None, NEW user \in UserRecord,
           UNCHANGED <<users, index, hand, reply>>, Write(hand, user)
    PROVE  StoreInv'
<1>1. /\ heap' \in [Refs -> UserRecord \cup {None}]
      /\ \A x \in Refs : x \in Pointers' => heap'[x] = IF x = hand THEN user ELSE heap[x]
  BY WriteHeap DEF StoreInv
<1>2. \A u \in Stored : users[u] \in Refs /\ users[u] # hand
  BY DEF Stored, StoreInv, TypeOK, Filed
<1>3. \A u \in Stored : heap'[users[u]] = heap[users[u]]
  BY <1>1, <1>2, ReachableNext DEF Stored
<1>4. heap'[hand'] = user
  BY <1>1, ReachableNext DEF StoreInv, TypeOK
<1>5. hand' \in Refs \cup {None} /\ reply' \in Reply
  BY DEF StoreInv, TypeOK
<1> QED
  BY <1>1, <1>2, <1>3, <1>4, <1>5, MapsKept DEF StoreInv, Filed, maps

LEMMA WithUserInv ==
    ASSUME StoreInv, NEW id \in Users, NEW changed,
           id \in Stored => changed \in Account,
           NEW answer, id \in Stored => answer \in Reply,
           WithUser(id, changed, answer)
    PROVE  StoreInv'
<1>1. CASE id \notin Stored
  BY <1>1, RefuseInv DEF WithUser
<1>2. CASE id \in Stored
  <2> DEFINE user == [heap[users[id]] EXCEPT !.acct = changed]
  <2>1. /\ reply' = answer
        /\ UNCHANGED <<users, index, hand>>
        /\ Write(users[id], user)
    BY <1>2 DEF WithUser
  <2>2. user \in UserRecord /\ user.id = id /\ user.name = heap[users[id]].name
    BY <1>2 DEF StoreInv, Filed, UserRecord
  <2>3. /\ heap' \in [Refs -> UserRecord \cup {None}]
        /\ \A x \in Refs : x \in Pointers' =>
              heap'[x] = IF x = users[id] THEN user ELSE heap[x]
    BY <2>1, <2>2, WriteHeap DEF StoreInv
  <2>4. \A u \in Stored : /\ users[u] \in Refs
                          /\ users[u] # hand
                          /\ heap[users[u]] \in UserRecord
                          /\ heap[users[u]].id = u
    BY DEF Stored, StoreInv, TypeOK, Filed
  <2>5. \A u \in Stored : heap'[users[u]] = IF u = id THEN user ELSE heap[users[u]]
    BY <1>2, <2>1, <2>3, <2>4, ReachableNext DEF Stored
  <2>6. hand' # None => heap'[hand'] = heap[hand] /\ heap[hand] \in UserRecord
    BY <1>2, <2>1, <2>3, <2>4, ReachableNext DEF StoreInv, TypeOK, HandHeld
  <2> HIDE DEF user
  <2>7. \A u \in Stored : /\ heap'[users[u]] \in UserRecord
                          /\ heap'[users[u]].id = u
                          /\ heap'[users[u]].name = heap[users[u]].name
                          /\ users[u] # hand'
    BY <2>1, <2>2, <2>4, <2>5
  <2>8. hand' \in Refs \cup {None} /\ reply' \in Reply /\ UNCHANGED maps
    BY <1>2, <2>1 DEF StoreInv, TypeOK, maps
  <2> QED
    BY <2>3, <2>6, <2>7, <2>8, MapsKept
<1> QED
  BY <1>1, <1>2

LEMMA GetInv ==
    ASSUME StoreInv, NEW r, r # None => \E u \in Stored : users[u] = r, Get(r)
    PROVE  StoreInv'
<1>1. CASE r = None
  BY <1>1, RefuseInv DEF Get, GiveClone
<1>2. CASE r # None
  <2>1. heap[r] \in UserRecord
    BY <1>2 DEF StoreInv, Filed
  <2>2. reply' \in Reply /\ GiveClone(r)
    BY <1>2 DEF Get, Reply, Answer
  <2> QED
    BY <2>1, <2>2, HandOutInv DEF GiveClone
<1> QED
  BY <1>1, <1>2

LEMMA IndexedStored ==
    ASSUME StoreInv, NEW f \in Field, NEW k \in Keys, index[f][k] # None
    PROVE  \E u \in Stored : users[u] = index[f][k]
BY DEF StoreInv, TypeOK, IndexConsistent

(* A new struct filed under its ID and its names, after the names of the   *)
(* struct it replaces (if any) were deleted.                               *)
LEMMA FileInv ==
    ASSUME StoreInv, NEW r \in Refs, Unused(r),
           NEW user \in UserRecord,
           NEW base \in [Field -> [Keys -> Refs \cup {None}]],
           \A f \in Field, k \in Keys, x \in Refs :
               base[f][k] = x <=> \E u \in Stored \ {user.id} :
                                     users[u] = x /\ HasKey(heap[x], f, k),
           \A f \in Field, k \in Keys : HasKey(user, f, k) => base[f][k] = None,
           users' = [users EXCEPT ![user.id] = r],
           index' = Indexed(base, user, r),
           reply' = Answer("ok"),
           UNCHANGED hand,
           Write(r, user)
    PROVE  StoreInv'
<1> USE RefConstants
<1>1. /\ heap' \in [Refs -> UserRecord \cup {None}]
      /\ \A x \in Refs : x \in Pointers' => heap'[x] = IF x = r THEN user ELSE heap[x]
  BY WriteHeap DEF StoreInv
<1>2. user.id \in Users
  BY RecordFields
<1>3. /\ users' \in [Users -> Refs \cup {None}]
      /\ \A u \in Users : users'[u] = IF u = user.id THEN r ELSE users[u]
  BY <1>2 DEF StoreInv, TypeOK
<1>4. Stored' = Stored \cup {user.id}
  BY <1>2, <1>3 DEF Stored
<1>5. \A u \in Stored : users[u] \in Refs /\ users[u] # r
  BY Reachable DEF Unused, Stored, StoreInv, TypeOK
<1>6. \A u \in Stored' : heap'[users'[u]] = IF u = user.id THEN user ELSE heap[users[u]]
  BY <1>1, <1>3, <1>4, <1>5, ReachableNext DEF Stored
<1>7. /\ hand' = hand
      /\ hand # r
      /\ hand # None => heap'[hand'] = heap[hand]
  BY <1>1, Reachable, ReachableNext DEF StoreInv, TypeOK, Unused
<1>8. index' \in [Field -> [Keys -> Refs \cup {None}]]
  BY DEF Indexed
<1>9. TypeOK'
  BY <1>1, <1>3, <1>7, <1>8 DEF StoreInv, TypeOK, Reply, Answer
<1>10. Filed'
  BY <1>3, <1>4, <1>5, <1>6, <1>7 DEF StoreInv, Filed
<1>11. HandHeld'
  BY <1>7 DEF StoreInv, HandHeld
<1>12. IndexConsistent'
  <2> SUFFICES ASSUME NEW f \in Field, NEW k \in Keys, NEW x \in Refs
               PROVE  index'[f][k] = x <=>
                        \E u \in Stored' : users'[u] = x /\ HasKey(heap'[x], f, k)
    BY DEF IndexConsistent
  <2>1. index'[f][k] = IF HasKey(user, f, k) THEN r ELSE base[f][k]
    BY DEF Indexed
  <2>2. base[f][k] = x <=> \E u \in Stored \ {user.id} :
                              users[u] = x /\ HasKey(heap[x], f, k)
    OBVIOUS
  <2>3. \A u \in Stored \ {user.id} : users'[u] = users[u] /\ heap'[users'[u]] = heap[users[u]]
    BY <1>3, <1>4, <1>6 DEF Stored
  <2>4. users'[user.id] = r /\ heap'[r] = user
    BY <1>2, <1>3, <1>4, <1>6
  <2>5. CASE x = r
    <3>1. base[f][k] # r
      BY <1>5, <2>2, <2>5
    <3>2. \A u \in Stored' : users'[u] = r => HasKey(heap'[r], f, k) <=> HasKey(user, f, k)
      BY <2>4
    <3> QED
      BY <1>4, <2>1, <2>4, <2>5, <3>1
  <2>6. CASE x # r
    <3>1. (\E u \in Stored' : users'[u] = x /\ HasKey(heap'[x], f, k))
            <=> base[f][k] = x
      BY <1>4, <2>2, <2>3, <2>4, <2>6
    <3>2. HasKey(user, f, k) => base[f][k] # x
      OBVIOUS
    <3> QED
      BY <2>1, <2>6, <3>1, <3>2
  <2> QED
    BY <2>5, <2>6
<1> QED
  BY <1>9, <1>10, <1>11, <1>12 DEF StoreInv

(* Unindexed removes exactly the entries of one stored user.               *)
LEMMA UnindexedFacts ==
    ASSUME StoreInv, NEW id \in Stored
    PROVE  /\ Unindexed(index, heap[users[id]]) \in [Field -> [Keys -> Refs \cup {None}]]
           /\ \A f \in Field, k \in Keys, x \in Refs :
                 Unindexed(index, heap[users[id]])[f][k] = x <=>
                   \E u \in Stored \ {id} : users[u] = x /\ HasKey(heap[x], f, k)
<1> USE RefConstants
<1> DEFINE base == Unindexed(index, heap[users[id]])
<1>1. base \in [Field -> [Keys -> Refs \cup {None}]]
  BY DEF Unindexed, Indexed, StoreInv, TypeOK
<1>2. ASSUME NEW f \in Field, NEW k \in Keys, NEW x \in Refs
      PROVE  base[f][k] = x <=>
               \E u \in Stored \ {id} : users[u] = x /\ HasKey(heap[x], f, k)
  <2>1. base[f][k] = IF HasKey(heap[users[id]], f, k) THEN None ELSE index[f][k]
    BY DEF Unindexed, Indexed
  <2>2. index[f][k] = x <=> \E u \in Stored : users[u] = x /\ HasKey(heap[x], f, k)
    BY DEF StoreInv, IndexConsistent
  <2>3. \A u \in Stored : users[u] = users[id] => u = id
    BY DEF StoreInv, Filed
  <2>4. users[id] \in Refs
    BY DEF Stored, StoreInv, TypeOK
  <2>5. CASE HasKey(heap[users[id]], f, k)
    <3>1. index[f][k] = users[id]
      BY <2>4, <2>5 DEF StoreInv, IndexConsistent
    <3>2. ~ \E u \in Stored \ {id} : users[u] = x /\ HasKey(heap[x], f, k)
      BY <2>2, <2>3, <3>1
    <3> QED
      BY <2>1, <2>5, <3>2
  <2>6. CASE ~HasKey(heap[users[id]], f, k)
    BY <2>1, <2>2, <2>6
  <2> QED
    BY <2>5, <2>6
<1> HIDE DEF base
<1>3. \A f \in Field, k \in Keys, x \in Refs :
        base[f][k] = x <=> \E u \in Stored \ {id} : users[u] = x /\ HasKey(heap[x], f, k)
  BY <1>2
<1> QED
  BY <1>1, <1>3 DEF base

LEMMA CreateInv == StoreInv /\ CreateUser => StoreInv'
<1> SUFFICES ASSUME StoreInv, CreateUser
             PROVE  StoreInv'
  OBVIOUS
<1> USE RefConstants
<1> DEFINE user == heap[hand]
<1>1. user \in UserRecord /\ user.name \in Names
  BY RecordFields DEF CreateUser, StoreInv, HandHeld
<1>2. CASE Refuse("ErrUserAlreadyExists")
  BY <1>2, RefuseInv
<1>3. CASE ~Refuse("ErrUserAlreadyExists")
  <2>1. user.id \notin Stored /\ \A f \in Field : Entry(user.name, f) = None
    BY <1>3 DEF CreateUser
  <2>2. PICK r \in Refs : /\ Unused(r)
                         /\ users' = [users EXCEPT ![user.id] = r]
                         /\ index' = Indexed(index, user, r)
                         /\ reply' = Answer("ok")
                         /\ UNCHANGED hand
                         /\ Write(r, user)
    BY <1>3 DEF CreateUser
  <2>3. index \in [Field -> [Keys -> Refs \cup {None}]]
    BY DEF StoreInv, TypeOK
  <2>4. \A f \in Field, k \in Keys, x \in Refs :
          index[f][k] = x <=> \E u \in Stored \ {user.id} :
                                users[u] = x /\ HasKey(heap[x], f, k)
    BY <2>1 DEF StoreInv, IndexConsistent
  <2>5. \A f \in Field, k \in Keys : HasKey(user, f, k) => index[f][k] = None
    BY <2>1 DEF HasKey, Entry
  <2> HIDE DEF user
  <2> QED
    BY <1>1, <2>2, <2>3, <2>4, <2>5, FileInv, ZenonT(60)
<1> QED
  BY <1>2, <1>3

LEMMA UpdateInv == StoreInv /\ UpdateProfile => StoreInv'
<1> SUFFICES ASSUME StoreInv, UpdateProfile
             PROVE  StoreInv'
  OBVIOUS
<1> USE RefConstants
<1> DEFINE user == heap[hand]
           existing == heap[users[user.id]]
           base == Unindexed(index, existing)
<1>1. user \in UserRecord /\ user.name \in Names /\ user.id \in Users
  BY RecordFields DEF UpdateProfile, StoreInv, HandHeld
<1>2. CASE Refuse("ErrUserNotFound") \/ Refuse("ErrUserAlreadyExists")
  BY <1>2, RefuseInv
<1>3. CASE ~(Refuse("ErrUserNotFound") \/ Refuse("ErrUserAlreadyExists"))
  <2>1. /\ user.id \in Stored
        /\ \A f \in Field : Entry(user.name, f) # None =>
                             heap[Entry(user.name, f)].id = user.id
    BY <1>3 DEF UpdateProfile
  <2>2. PICK r \in Refs : /\ Unused(r)
                         /\ users' = [users EXCEPT ![user.id] = r]
                         /\ index' = Indexed(base, user, r)
                         /\ reply' = Answer("ok")
                         /\ UNCHANGED hand
                         /\ Write(r, Updated(user, existing))
    BY <1>3 DEF UpdateProfile
  <2>3. existing \in UserRecord
    BY <2>1 DEF StoreInv, Filed
  <2> DEFINE new == Updated(user, existing)
  <2>4. new \in UserRecord /\ new.id = user.id /\ new.name = user.name
    BY <1>1, <2>3 DEF Updated, UserRecord, Account
  <2>5. /\ base \in [Field -> [Keys -> Refs \cup {None}]]
        /\ \A f \in Field, k \in Keys, x \in Refs :
             base[f][k] = x <=> \E u \in Stored \ {user.id} :
                                  users[u] = x /\ HasKey(heap[x], f, k)
    BY <2>1, UnindexedFacts
  <2> HIDE DEF user, existing, base, new
  <2>6. ASSUME NEW f \in Field, NEW k \in Keys, HasKey(user, f, k)
        PROVE  base[f][k] = None
    <3>1. SUFFICES ASSUME base[f][k] \in Refs
                   PROVE  FALSE
      BY <2>5
    <3>2. PICK u \in Stored \ {user.id} :
            users[u] = base[f][k] /\ HasKey(heap[users[u]], f, k)
      BY <2>5, <3>1
    <3>3. user.name[f] # None /\ Lower[user.name[f]] = k
      BY <2>6 DEF HasKey
    <3>4. Entry(user.name, f) = users[u]
      BY <1>1, <3>2, <3>3, StoredHasEntry
    <3>5. users[u] # None /\ heap[users[u]].id = u
      BY <3>2 DEF Stored, StoreInv, Filed
    <3> QED
      BY <2>1, <3>2, <3>4, <3>5
  <2>7. users' = [users EXCEPT ![new.id] = r] /\ index' = Indexed(base, new, r)
    BY <2>2, <2>4 DEF Indexed, HasKey
  <2>8. \A f \in Field, k \in Keys, x \in Refs :
          base[f][k] = x <=> \E u \in Stored \ {new.id} :
                               users[u] = x /\ HasKey(heap[x], f, k)
    BY <2>4, <2>5
  <2>9. \A f \in Field, k \in Keys : HasKey(new, f, k) => base[f][k] = None
    BY <2>4, <2>6 DEF HasKey
  <2>10. Write(r, new)
    BY <2>2 DEF new
  <2>11. base \in [Field -> [Keys -> Refs \cup {None}]] /\ new \in UserRecord
    BY <2>4, <2>5
  <2>12. Unused(r) /\ reply' = Answer("ok") /\ UNCHANGED hand
    BY <2>2
  <2> QED
    BY <2>7, <2>8, <2>9, <2>10, <2>11, <2>12, FileInv, ZenonT(60)
<1> QED
  BY <1>2, <1>3

LEMMA DeleteInv ==
    ASSUME StoreInv, NEW id \in Users, DeleteUser(id)
    PROVE  StoreInv'
<1> USE RefConstants
<1>1. CASE id \notin Stored
  BY <1>1, RefuseInv DEF DeleteUser
<1>2. CASE id \in Stored
  <2>1. /\ users' = [users EXCEPT ![id] = None]
        /\ index' = Unindexed(index, heap[users[id]])
        /\ reply' = Answer("ok")
        /\ UNCHANGED hand
        /\ Unwritten
    BY <1>2 DEF DeleteUser
  <2>2. /\ heap' \in [Refs -> UserRecord \cup {None}]
        /\ \A x \in Refs : x \in Pointers' => heap'[x] = heap[x]
    BY <2>1, UnwrittenHeap DEF StoreInv
  <2>3. /\ users' \in [Users -> Refs \cup {None}]
        /\ \A u \in Users : users'[u] = IF u = id THEN None ELSE users[u]
    BY <2>1 DEF StoreInv, TypeOK
  <2>4. Stored' = Stored \ {id}
    BY <2>3 DEF Stored
  <2>5. /\ index' \in [Field -> [Keys -> Refs \cup {None}]]
        /\ \A f \in Field, k \in Keys, x \in Refs :
             index'[f][k] = x <=> \E u \in Stored \ {id} :
                                    users[u] = x /\ HasKey(heap[x], f, k)
    BY <1>2, <2>1, UnindexedFacts
  <2>6. \A u \in Stored' : /\ users'[u] = users[u]
                           /\ users[u] \in Refs
                           /\ heap'[users[u]] = heap[users[u]]
    BY <2>2, <2>3, <2>4, ReachableNext DEF Stored, StoreInv, TypeOK
  <2>7. hand' = hand /\ (hand # None => heap'[hand'] = heap[hand])
    BY <2>1, <2>2, ReachableNext DEF StoreInv, TypeOK
  <2>8. TypeOK'
    BY <2>1, <2>2, <2>3, <2>5, <2>7 DEF StoreInv, TypeOK, Reply, Answer
  <2>9. Filed'
    BY <2>4, <2>6, <2>7 DEF StoreInv, Filed
  <2>10. HandHeld'
    BY <2>7 DEF StoreInv, HandHeld
  <2>11. IndexConsistent'
    <3> SUFFICES ASSUME NEW f \in Field, NEW k \in Keys, NEW x \in Refs
                 PROVE  index'[f][k] = x <=>
                          \E u \in Stored' : users'[u] = x /\ HasKey(heap'[x], f, k)
      BY DEF IndexConsistent
    <3> QED
      BY <2>4, <2>5, <2>6
  <2> QED
    BY <2>8, <2>9, <2>10, <2>11 DEF StoreInv
<1> QED
  BY <1>1, <1>2

LEMMA AccountStored ==
    ASSUME StoreInv, NEW id \in Stored
    PROVE  StoredAccount(id) \in Account
BY RecordFields DEF StoredAccount, StoreInv, Filed

LEMMA AttemptFacts ==
    ASSUME NEW a \in Account, CanConsumeTOTPAttempt(a, MaxAttempts)
    PROVE  /\ ConsumeTOTPAttempt(a) \in Account
           /\ AttemptsRemaining(ConsumeTOTPAttempt(a), MaxAttempts) \in Nat
BY RefConstants DEF CanConsumeTOTPAttempt, ConsumeTOTPAttempt, AttemptsRemaining, Account

LEMMA NarrowFacts ==
    ASSUME NEW a \in Account
    PROVE  /\ ResetTOTPAttempts(a) \in Account
           /\ ClearTOTP(a) \in Account
           /\ \A code : ConsumeBackupCode(a, code) \in Account
           /\ \A secret \in Secrets, codes \in SUBSET Codes :
                 SetTOTP(a, secret, codes) \in Account
BY DEF ResetTOTPAttempts, ClearTOTP, ConsumeBackupCode, SetTOTP, Account

LEMMA NextInv == StoreInv /\ [Next]_vars => StoreInv'
<1> SUFFICES ASSUME StoreInv, [Next]_vars
             PROVE  StoreInv'
  OBVIOUS
<1> USE DEF StoreInv
<1>1. ASSUME NEW id \in Users, NEW name \in Names, NEW hash \in Hash, Build(id, name, hash)
      PROVE  StoreInv'
  <2>1. PICK r \in Refs : /\ Unused(r) /\ hand' = r
                         /\ UNCHANGED <<users, index, reply>>
                         /\ Write(r, NewUser(id, name, hash))
    BY <1>1 DEF Build
  <2>2. NewUser(id, name, hash) \in UserRecord
    BY NewUserType
  <2>3. UNCHANGED maps /\ reply' \in Reply
    BY <2>1 DEF maps, TypeOK
  <2> QED
    BY <2>1, <2>2, <2>3, HandOutInv
<1>2. ASSUME NEW name \in Names, Rename(name)
      PROVE  StoreInv'
  <2>1. [heap[hand] EXCEPT !.name = name] \in UserRecord
    BY <1>2 DEF Rename, HandHeld, UserRecord
  <2> QED
    BY <1>2, <2>1, EditInv DEF Rename
<1>3. ASSUME NEW hash \in Hash, Rehash(hash)
      PROVE  StoreInv'
  <2>1. [heap[hand] EXCEPT !.acct.hash = hash] \in UserRecord
    BY <1>3 DEF Rehash, HandHeld, UserRecord, Account
  <2> QED
    BY <1>3, <2>1, EditInv DEF Rehash
<1>4. CASE CreateUser
  BY <1>4, CreateInv
<1>5. CASE UpdateProfile
  BY <1>5, UpdateInv
<1>6. ASSUME NEW id \in Users, DeleteUser(id)
      PROVE  StoreInv'
  BY <1>6, DeleteInv
<1>7. ASSUME NEW id \in Users, GetUserByID(id)
      PROVE  StoreInv'
  BY <1>7, GetInv DEF GetUserByID, Stored
<1>8. ASSUME NEW id \in Users, Attempt(id)
      PROVE  StoreInv'
  <2> DEFINE after == ConsumeTOTPAttempt(StoredAccount(id))
             answer == [err |-> "ok", n |-> AttemptsRemaining(after, MaxAttempts)]
  <2>1. CASE Refuse("ErrTFAAttemptsExhausted")
    BY <2>1, RefuseInv
  <2>2. CASE /\ id \in Stored => CanConsumeTOTPAttempt(StoredAccount(id), MaxAttempts)
             /\ WithUser(id, after, answer)
    <3>1. id \in Stored => after \in Account /\ answer \in Reply
      BY <2>2, AccountStored, AttemptFacts DEF Reply
    <3> HIDE DEF after, answer
    <3> QED
      BY <2>2, <3>1, WithUserInv
  <2> QED
    BY <1>8, <2>1, <2>2 DEF Attempt
<1>9. ASSUME NEW id \in Users,
             \/ WithUser(id, ResetTOTPAttempts(StoredAccount(id)), Answer("ok"))
             \/ WithUser(id, ClearTOTP(StoredAccount(id)), Answer("ok"))
             \/ \E secret \in Secrets, codes \in SUBSET Codes :
                   WithUser(id, SetTOTP(StoredAccount(id), secret, codes), Answer("ok"))
      PROVE  StoreInv'
  <2>1. Answer("ok") \in Reply
    BY DEF Answer, Reply
  <2>2. id \in Stored =>
          /\ ResetTOTPAttempts(StoredAccount(id)) \in Account
          /\ ClearTOTP(StoredAccount(id)) \in Account
          /\ \A secret \in Secrets, codes \in SUBSET Codes :
                SetTOTP(StoredAccount(id), secret, codes) \in Account
    BY AccountStored, NarrowFacts
  <2> QED
    BY <1>9, <2>1, <2>2, WithUserInv
<1>10. ASSUME NEW id \in Users, NEW code \in Codes, UseCode(id, code)
       PROVE  StoreInv'
  <2>1. id \in Stored => ConsumeBackupCode(StoredAccount(id), code) \in Account
    BY AccountStored, NarrowFacts
  <2>2. [err |-> "ok", n |-> IF code \in StoredAccount(id).codes THEN 1 ELSE 0] \in Reply
    BY DEF Reply
  <2> QED
    BY <1>10, <2>1, <2>2, WithUserInv DEF UseCode
<1>11. ASSUME NEW f \in Field, NEW spelling \in Spellings, GetUserByName(f, spelling)
       PROVE  StoreInv'
  <2>1. Lower[spelling] \in Keys
    BY DEF Keys
  <2> QED
    BY <1>11, <2>1, IndexedStored, GetInv DEF GetUserByName
<1>12. CASE UNCHANGED vars
  BY <1>12 DEF vars, TypeOK, Filed, HandHeld, IndexConsistent, Stored, HasKey
<1> QED
  BY <1>1, <1>2, <1>3, <1>4, <1>5, <1>6, <1>7, <1>8, <1>9, <1>10, <1>11, <1>12 DEF Next

LEMMA StoreInvariant == Spec => []StoreInv
BY InitInv, NextInv, PTL DEF Spec

(* Every variable of MemoryStorage keeps its type.                         *)
THEOREM TypeCorrect == Spec => []TypeOK
<1>1. StoreInv => TypeOK
  BY DEF StoreInv
<1> QED
  BY <1>1, StoreInvariant, PTL

(* The three maps of MemoryStorage always agree.                           *)
THEOREM Indexes == Spec => []IndexConsistent
<1>1. StoreInv => IndexConsistent
  BY DEF StoreInv
<1> QED
  BY <1>1, StoreInvariant, PTL

----------------------------------------------------------------------------
(* Refinement: every step of the store is a step of the table. *)

tableOf == [u \in Users |-> IF users[u] = None THEN None ELSE heap[users[u]]]

handOf == IF hand = None THEN None ELSE heap[hand]

LEMMA Mapped ==
    ASSUME StoreInv
    PROVE  /\ Table!Stored = Stored
           /\ \A u \in Stored : tableOf[u] = heap[users[u]]
           /\ handOf = None <=> hand = None
BY NoneIsNoUser DEF Table!Stored, Stored, tableOf, handOf, StoreInv, Filed, HandHeld

LEMMA TableSame ==
    ASSUME users' = users,
           \A u \in Stored : heap'[users[u]] = heap[users[u]]
    PROVE  tableOf' = tableOf
BY DEF tableOf, Stored

LEMMA RefuseMaps ==
    ASSUME NEW err, Refuse(err)
    PROVE  reply' = Answer(err) /\ tableOf' = tableOf /\ handOf' = handOf
BY DEF Refuse, tableOf, handOf

(* A struct handed to the caller leaves the table as it was.               *)
LEMMA HandOutMaps ==
    ASSUME StoreInv, NEW r \in Refs, Unused(r), NEW user \in UserRecord,
           hand' = r, UNCHANGED maps, Write(r, user)
    PROVE  tableOf' = tableOf /\ handOf' = user
<1>1. \A x \in Refs : x \in Pointers' => heap'[x] = IF x = r THEN user ELSE heap[x]
  BY WriteHeap DEF StoreInv
<1>2. \A u \in Stored : users[u] \in Refs /\ users[u] # r
  BY Reachable DEF Unused, Stored, StoreInv, TypeOK
<1>3. \A u \in Stored : heap'[users[u]] = heap[users[u]]
  BY <1>1, <1>2, ReachableNext DEF maps, Stored
<1>4. heap'[hand'] = user /\ hand' # None
  BY <1>1, ReachableNext, RefConstants
<1> QED
  BY <1>3, <1>4, TableSame DEF maps, handOf

LEMMA EditMaps ==
    ASSUME StoreInv, hand # None, NEW user \in UserRecord,
           UNCHANGED <<users, index, hand, reply>>, Write(hand, user)
    PROVE  tableOf' = tableOf /\ handOf' = user
<1>1. \A x \in Refs : x \in Pointers' => heap'[x] = IF x = hand THEN user ELSE heap[x]
  BY WriteHeap DEF StoreInv
<1>2. \A u \in Stored : users[u] \in Refs /\ users[u] # hand
  BY DEF Stored, StoreInv, TypeOK, Filed
<1>3. \A u \in Stored : heap'[users[u]] = heap[users[u]]
  BY <1>1, <1>2, ReachableNext DEF Stored
<1>4. heap'[hand'] = user
  BY <1>1, ReachableNext DEF StoreInv, TypeOK
<1> QED
  BY <1>3, <1>4, TableSame DEF handOf

LEMMA WithUserMaps ==
    ASSUME StoreInv, NEW id \in Users, NEW changed,
           id \in Stored => changed \in Account, NEW answer,
           WithUser(id, changed, answer)
    PROVE  \/ /\ id \notin Stored
              /\ reply' = Answer("ErrUserNotFound")
              /\ tableOf' = tableOf /\ handOf' = handOf
           \/ /\ id \in Stored
              /\ reply' = answer
              /\ tableOf' = [tableOf EXCEPT ![id].acct = changed] /\ handOf' = handOf
<1>1. CASE id \notin Stored
  BY <1>1, RefuseMaps DEF WithUser
<1>2. CASE id \in Stored
  <2> DEFINE user == [heap[users[id]] EXCEPT !.acct = changed]
  <2>1. /\ reply' = answer
        /\ UNCHANGED <<users, index, hand>>
        /\ Write(users[id], user)
    BY <1>2 DEF WithUser
  <2>2. user \in UserRecord
    BY <1>2 DEF StoreInv, Filed, UserRecord
  <2>3. \A x \in Refs : x \in Pointers' => heap'[x] = IF x = users[id] THEN user ELSE heap[x]
    BY <2>1, <2>2, WriteHeap DEF StoreInv
  <2>4. \A u \in Stored : users[u] \in Refs /\ users[u] # hand /\ (users[u] = users[id] => u = id)
    BY <1>2 DEF Stored, StoreInv, TypeOK, Filed
  <2>5. \A u \in Stored : heap'[users[u]] = IF u = id THEN user ELSE heap[users[u]]
    BY <1>2, <2>1, <2>3, <2>4, ReachableNext DEF Stored
  <2>6. handOf' = handOf
    BY <1>2, <2>1, <2>3, <2>4, ReachableNext DEF StoreInv, TypeOK, handOf
  <2>7. tableOf' = [tableOf EXCEPT ![id].acct = changed]
    BY <1>2, <2>1, <2>5 DEF tableOf, Stored
  <2> QED
    BY <1>2, <2>1, <2>6, <2>7
<1> QED
  BY <1>1, <1>2

LEMMA GetMaps ==
    ASSUME StoreInv, NEW r, NEW found, found \subseteq Stored,
           \A u \in Stored : users[u] = r <=> u \in found,
           r # None => found # {},
           Get(r)
    PROVE  Table!Get(found)
<1>1. CASE r = None
  <2>1. found = {}
    BY <1>1 DEF Stored
  <2> QED
    BY <1>1, <2>1, RefuseMaps DEF Get, Table!Get, Table!Refuse, Answer, Table!Answer,
                                    tableOf, handOf
<1>2. CASE r # None
  <2>1. PICK u \in found : users[u] = r /\ u \in Stored
    BY <1>2
  <2>2. heap[r] \in UserRecord
    BY <2>1 DEF StoreInv, Filed
  <2>3. reply' = Answer("ok") /\ tableOf' = tableOf /\ handOf' = heap[r]
    BY <1>2, <2>2, HandOutMaps DEF Get, GiveClone
  <2>4. tableOf[u] = heap[r]
    BY <2>1, Mapped
  <2> QED
    BY <2>1, <2>3, <2>4 DEF Table!Get, Answer, Table!Answer, tableOf, handOf
<1> QED
  BY <1>1, <1>2

(* The stored users with a name's key are those its index entry points to. *)
LEMMA Carriers ==
    ASSUME StoreInv, NEW f \in Field, NEW k \in Keys
    PROVE  /\ {u \in Stored : HasKey(heap[users[u]], f, k)} =
                {u \in Stored : users[u] = index[f][k]}
           /\ index[f][k] # None => \E u \in Stored : users[u] = index[f][k]
<1>1. \A u \in Stored : users[u] \in Refs /\ users[u] # None
  BY DEF Stored, StoreInv, TypeOK
<1>2. \A r \in Refs : index[f][k] = r <=>
                       \E u \in Stored : users[u] = r /\ HasKey(heap[r], f, k)
  BY DEF StoreInv, IndexConsistent
<1>3. \A u \in Stored : HasKey(heap[users[u]], f, k) <=> users[u] = index[f][k]
  BY <1>1, <1>2
<1> QED
  BY <1>3, IndexedStored

LEMMA NameTakenMaps ==
    ASSUME StoreInv, hand # None
    PROVE  Table!NameTaken <=> \E v \in Stored \ {heap[hand].id} :
                                  \E f \in Field : /\ heap[hand].name[f] # None
                                                   /\ HasKey(heap[users[v]], f, Lower[heap[hand].name[f]])
<1>1. handOf = heap[hand] /\ handOf # None
  BY Mapped DEF handOf
<1>2. Table!NameTaken <=> \E v \in Stored \ {heap[hand].id} :
                             Table!SharesKey(tableOf[v], heap[hand])
  BY <1>1, Mapped DEF Table!NameTaken, tableOf, handOf
<1>3. ASSUME NEW v \in Stored
      PROVE  Table!SharesKey(tableOf[v], heap[hand]) <=>
               \E f \in Field : /\ heap[hand].name[f] # None
                                /\ HasKey(heap[users[v]], f, Lower[heap[hand].name[f]])
  BY Mapped DEF Table!SharesKey, HasKey, Table!Field, Field
<1> QED
  BY <1>2, <1>3

(* The table after a struct was filed: only that user's row changed.       *)
LEMMA FileMaps ==
    ASSUME StoreInv, NEW r \in Refs, Unused(r), NEW user \in UserRecord,
           users' = [users EXCEPT ![user.id] = r],
           UNCHANGED hand,
           Write(r, user)
    PROVE  tableOf' = [tableOf EXCEPT ![user.id] = user] /\ handOf' = handOf
<1>1. \A x \in Refs : x \in Pointers' => heap'[x] = IF x = r THEN user ELSE heap[x]
  BY WriteHeap DEF StoreInv
<1>2. user.id \in Users
  BY RecordFields
<1>3. \A u \in Users : users'[u] = IF u = user.id THEN r ELSE users[u]
  BY <1>2 DEF StoreInv, TypeOK
<1>4. \A u \in Stored : users[u] \in Refs /\ users[u] # r
  BY Reachable DEF Unused, Stored, StoreInv, TypeOK
<1>5. \A u \in Users : users'[u] # None =>
         heap'[users'[u]] = IF u = user.id THEN user ELSE heap[users[u]]
  BY <1>1, <1>3, <1>4, ReachableNext DEF Stored
<1>6. r # None
  BY RefConstants
<1>7. tableOf' = [tableOf EXCEPT ![user.id] = user]
  BY <1>2, <1>3, <1>5, <1>6 DEF tableOf
<1>8. handOf' = handOf
  BY <1>1, Reachable, ReachableNext DEF StoreInv, TypeOK, Unused, handOf
<1> QED
  BY <1>7, <1>8

LEMMA CreateMaps == StoreInv /\ CreateUser => Table!CreateUser
<1> SUFFICES ASSUME StoreInv, CreateUser
             PROVE  Table!CreateUser
  OBVIOUS
<1> DEFINE user == heap[hand]
<1>1. hand # None /\ user \in UserRecord /\ user.name \in Names
  BY RecordFields DEF CreateUser, StoreInv, HandHeld
<1>2. handOf = user /\ handOf # None /\ Table!Stored = Stored
  BY <1>1, Mapped DEF handOf
<1>3. Table!NameTaken \/ user.id \in Stored <=>
        user.id \in Stored \/ \E f \in Field : Entry(user.name, f) # None
  <2>1. ASSUME NEW f \in Field, Entry(user.name, f) # None, user.id \notin Stored
        PROVE  Table!NameTaken
    BY <1>1, <2>1, EntryStored, NameTakenMaps
  <2>2. ASSUME Table!NameTaken
        PROVE  \E f \in Field : Entry(user.name, f) # None
    <3>1. PICK v \in Stored \ {user.id}, f \in Field :
            user.name[f] # None /\ HasKey(heap[users[v]], f, Lower[user.name[f]])
      BY <1>1, <2>2, NameTakenMaps
    <3>2. Entry(user.name, f) = users[v]
      BY <1>1, <3>1, StoredHasEntry
    <3> QED
      BY <3>1, <3>2 DEF Stored
  <2> QED
    BY <2>1, <2>2
<1>4. CASE user.id \in Stored \/ Table!NameTaken
  <2>1. Refuse("ErrUserAlreadyExists")
    BY <1>3, <1>4 DEF CreateUser
  <2>2. Table!Refuse("ErrUserAlreadyExists")
    BY <2>1, RefuseMaps DEF Table!Refuse, Answer, Table!Answer, tableOf, handOf
  <2> QED
    BY <1>2, <1>4, <2>2 DEF Table!CreateUser, handOf
<1>5. CASE ~(user.id \in Stored \/ Table!NameTaken)
  <2>1. PICK r \in Refs : /\ Unused(r)
                         /\ users' = [users EXCEPT ![user.id] = r]
                         /\ reply' = Answer("ok")
                         /\ UNCHANGED hand
                         /\ Write(r, user)
    BY <1>3, <1>5 DEF CreateUser
  <2>2. tableOf' = [tableOf EXCEPT ![user.id] = user] /\ handOf' = handOf
    BY <1>1, <2>1, FileMaps
  <2> QED
    BY <1>2, <1>5, <2>1, <2>2 DEF Table!CreateUser, Answer, Table!Answer, tableOf, handOf
<1> QED
  BY <1>4, <1>5

LEMMA UpdateMaps == StoreInv /\ UpdateProfile => Table!UpdateProfile
<1> SUFFICES ASSUME StoreInv, UpdateProfile
             PROVE  Table!UpdateProfile
  OBVIOUS
<1> DEFINE user == heap[hand]
           existing == heap[users[user.id]]
           new == Updated(user, existing)
<1>1. hand # None /\ user \in UserRecord /\ user.name \in Names
  BY RecordFields DEF UpdateProfile, StoreInv, HandHeld
<1>2. handOf = user /\ handOf # None /\ Table!Stored = Stored
  BY <1>1, Mapped DEF handOf
<1>3. CASE user.id \notin Stored
  <2>1. Refuse("ErrUserNotFound")
    BY <1>3 DEF UpdateProfile
  <2>2. Table!Refuse("ErrUserNotFound")
    BY <2>1, RefuseMaps DEF Table!Refuse, Answer, Table!Answer, tableOf, handOf
  <2> QED
    BY <1>2, <1>3, <2>2 DEF Table!UpdateProfile, handOf
<1>4. Table!NameTaken <=> \E f \in Field : /\ Entry(user.name, f) # None
                                           /\ heap[Entry(user.name, f)].id # user.id
  <2>1. ASSUME NEW f \in Field, Entry(user.name, f) # None,
               heap[Entry(user.name, f)].id # user.id
        PROVE  Table!NameTaken
    <3>1. PICK v \in Stored : /\ users[v] = Entry(user.name, f)
                             /\ user.name[f] # None
                             /\ HasKey(heap[users[v]], f, Lower[user.name[f]])
      BY <1>1, <2>1, EntryStored
    <3>2. v # user.id
      BY <2>1, <3>1 DEF StoreInv, Filed
    <3> QED
      BY <1>1, <3>1, <3>2, NameTakenMaps
  <2>2. ASSUME Table!NameTaken
        PROVE  \E f \in Field : /\ Entry(user.name, f) # None
                                /\ heap[Entry(user.name, f)].id # user.id
    <3>1. PICK v \in Stored \ {user.id}, f \in Field :
            user.name[f] # None /\ HasKey(heap[users[v]], f, Lower[user.name[f]])
      BY <1>1, <2>2, NameTakenMaps
    <3>2. Entry(user.name, f) = users[v]
      BY <1>1, <3>1, StoredHasEntry
    <3> QED
      BY <3>1, <3>2 DEF Stored, StoreInv, Filed
  <2> QED
    BY <2>1, <2>2
<1>5. CASE user.id \in Stored /\ Table!NameTaken
  <2>1. Refuse("ErrUserAlreadyExists")
    BY <1>4, <1>5 DEF UpdateProfile
  <2>2. Table!Refuse("ErrUserAlreadyExists")
    BY <2>1, RefuseMaps DEF Table!Refuse, Answer, Table!Answer, tableOf, handOf
  <2> QED
    BY <1>2, <1>5, <2>2 DEF Table!UpdateProfile, handOf
<1>6. CASE user.id \in Stored /\ ~Table!NameTaken
  <2>1. PICK r \in Refs : /\ Unused(r)
                         /\ users' = [users EXCEPT ![user.id] = r]
                         /\ reply' = Answer("ok")
                         /\ UNCHANGED hand
                         /\ Write(r, new)
    BY <1>4, <1>6 DEF UpdateProfile
  <2>2. existing \in UserRecord /\ tableOf[user.id] = existing
    BY <1>6, Mapped DEF StoreInv, Filed
  <2>3. new \in UserRecord /\ new.id = user.id
    BY <1>1, <2>2 DEF Updated, UserRecord, Account
  <2>4. new = [user EXCEPT !.acct = Table!UpdateUser(tableOf[user.id].acct, @)]
    BY <1>1, <2>2 DEF Updated, Table!UpdateUser, UserRecord, Account
  <2>5. tableOf' = [tableOf EXCEPT ![user.id] = new] /\ handOf' = handOf
    <3> HIDE DEF new
    <3> QED
      BY <2>1, <2>3, FileMaps
  <2> HIDE DEF new, existing
  <2> QED
    BY <1>2, <1>6, <2>1, <2>4, <2>5
    DEF Table!UpdateProfile, Answer, Table!Answer, tableOf, handOf
<1> QED
  BY <1>3, <1>5, <1>6

LEMMA DeleteMaps ==
    ASSUME StoreInv, NEW id \in Users, DeleteUser(id)
    PROVE  Table!DeleteUser(id)
<1>1. CASE id \notin Stored
  BY <1>1, Mapped, RefuseMaps
  DEF DeleteUser, Table!DeleteUser, Table!Refuse, Answer, Table!Answer, tableOf, handOf
<1>2. CASE id \in Stored
  <2>1. /\ users' = [users EXCEPT ![id] = None]
        /\ reply' = Answer("ok")
        /\ UNCHANGED hand
        /\ Unwritten
    BY <1>2 DEF DeleteUser
  <2>2. \A x \in Refs : x \in Pointers' => heap'[x] = heap[x]
    BY <2>1, UnwrittenHeap DEF StoreInv
  <2>3. \A u \in Users : users'[u] = IF u = id THEN None ELSE users[u]
    BY <2>1 DEF StoreInv, TypeOK
  <2>4. \A u \in Users : users'[u] # None => heap'[users'[u]] = heap[users[u]]
    BY <2>2, <2>3, ReachableNext DEF StoreInv, TypeOK
  <2>5. tableOf' = [tableOf EXCEPT ![id] = None]
    BY <2>3, <2>4 DEF tableOf
  <2>6. handOf' = handOf
    BY <2>1, <2>2, ReachableNext DEF StoreInv, TypeOK, handOf
  <2> QED
    BY <1>2, <2>1, <2>5, <2>6, Mapped DEF Table!DeleteUser, Answer, Table!Answer, tableOf, handOf
<1> QED
  BY <1>1, <1>2

LEMMA InitMaps == Init => Table!Init
BY DEF Init, Table!Init, Answer, Table!Answer

(* The two modules read one and the same Storage and UserRecords.          *)
LEMMA SameSets ==
    /\ Table!Names = Names
    /\ Table!Hash = Hash
    /\ Table!Field = Field
    /\ Table!Spellings = Spellings
BY DEF Table!Names, Names, Table!Hash, Hash, Table!Field, Field, Table!Spellings, Spellings

LEMMA StepMaps == StoreInv /\ [Next]_vars => [Table!Next]_(Table!vars)
<1> SUFFICES ASSUME StoreInv, [Next]_vars
             PROVE  [Table!Next]_(Table!vars)
  OBVIOUS
<1> USE SameSets
<1>1. ASSUME NEW id \in Users, NEW name \in Names, NEW hash \in Hash, Build(id, name, hash)
      PROVE  Table!Next
  <2>1. PICK r \in Refs : /\ Unused(r) /\ hand' = r
                         /\ UNCHANGED <<users, index, reply>>
                         /\ Write(r, NewUser(id, name, hash))
    BY <1>1 DEF Build
  <2>2. tableOf' = tableOf /\ handOf' = NewUser(id, name, hash)
    BY <2>1, NewUserType, HandOutMaps DEF maps
  <2>3. Table!Build(id, name, hash)
    BY <2>1, <2>2 DEF Table!Build, NewUser, Table!NewUser, tableOf, handOf
  <2> QED
    BY <2>3 DEF Table!Next
<1>2. ASSUME NEW name \in Names, Rename(name)
      PROVE  Table!Next
  <2>1. [heap[hand] EXCEPT !.name = name] \in UserRecord
    BY <1>2 DEF Rename, StoreInv, HandHeld, UserRecord
  <2>2. tableOf' = tableOf /\ handOf' = [heap[hand] EXCEPT !.name = name]
    BY <1>2, <2>1, EditMaps DEF Rename
  <2>3. Table!Rename(name)
    BY <1>2, <2>2, Mapped DEF Rename, Table!Rename, tableOf, handOf
  <2> QED
    BY <2>3 DEF Table!Next
<1>3. ASSUME NEW hash \in Hash, Rehash(hash)
      PROVE  Table!Next
  <2>1. [heap[hand] EXCEPT !.acct.hash = hash] \in UserRecord
    BY <1>3 DEF Rehash, StoreInv, HandHeld, UserRecord, Account
  <2>2. tableOf' = tableOf /\ handOf' = [heap[hand] EXCEPT !.acct.hash = hash]
    BY <1>3, <2>1, EditMaps DEF Rehash
  <2>3. Table!Rehash(hash)
    BY <1>3, <2>2, Mapped DEF Rehash, Table!Rehash, tableOf, handOf
  <2> QED
    BY <2>3 DEF Table!Next
<1>4. CASE CreateUser
  BY <1>4, CreateMaps DEF Table!Next
<1>5. CASE UpdateProfile
  BY <1>5, UpdateMaps DEF Table!Next
<1>6. ASSUME NEW id \in Users, DeleteUser(id)
      PROVE  Table!Next
  BY <1>6, DeleteMaps DEF Table!Next
<1>7. ASSUME NEW id \in Users, GetUserByID(id)
      PROVE  Table!Next
  <2>1. \A u \in Stored : users[u] = users[id] <=> u \in {id} \cap Stored
    BY DEF Stored, StoreInv, Filed
  <2>2. users[id] # None => {id} \cap Stored # {}
    BY DEF Stored
  <2>3. Table!Get({id} \cap Stored)
    BY <1>7, <2>1, <2>2, GetMaps DEF GetUserByID
  <2>4. Table!GetUserByID(id)
    BY <2>3, Mapped DEF Table!GetUserByID
  <2> QED
    BY <2>4 DEF Table!Next
<1>8. ASSUME NEW id \in Users, Attempt(id)
      PROVE  Table!Next
  <2> DEFINE after == ConsumeTOTPAttempt(StoredAccount(id))
             answer == [err |-> "ok", n |-> AttemptsRemaining(after, MaxAttempts)]
  <2>1. id \in Stored => tableOf[id].acct = StoredAccount(id)
    BY Mapped DEF StoredAccount
  <2>2. CASE id \in Stored /\ ~CanConsumeTOTPAttempt(StoredAccount(id), MaxAttempts)
    <3>1. Refuse("ErrTFAAttemptsExhausted")
      BY <1>8, <2>2 DEF Attempt
    <3>2. Table!Refuse("ErrTFAAttemptsExhausted")
      BY <3>1, RefuseMaps DEF Table!Refuse, Answer, Table!Answer, tableOf, handOf
    <3>3. Table!Attempt(id)
      BY <2>1, <2>2, <3>2, Mapped
      DEF Table!Attempt, CanConsumeTOTPAttempt, Table!CanConsumeTOTPAttempt, tableOf
    <3> QED
      BY <3>3 DEF Table!Next
  <2>3. CASE id \in Stored => CanConsumeTOTPAttempt(StoredAccount(id), MaxAttempts)
    <3>1. WithUser(id, after, answer)
      BY <1>8, <2>3 DEF Attempt
    <3>2. id \in Stored => after \in Account
      BY <2>3, AccountStored, AttemptFacts
    <3>3. \/ /\ id \notin Stored
             /\ reply' = Answer("ErrUserNotFound")
             /\ tableOf' = tableOf /\ handOf' = handOf
          \/ /\ id \in Stored
             /\ reply' = answer
             /\ tableOf' = [tableOf EXCEPT ![id].acct = after] /\ handOf' = handOf
      <4> HIDE DEF after, answer
      <4> QED
        BY <3>1, <3>2, WithUserMaps
    <3>4. Table!Attempt(id)
      BY <2>1, <2>3, <3>3, Mapped
      DEF Table!Attempt, Table!WithUser, Table!Refuse, Answer, Table!Answer,
          CanConsumeTOTPAttempt, Table!CanConsumeTOTPAttempt,
          ConsumeTOTPAttempt, Table!ConsumeTOTPAttempt, AttemptsRemaining,
          Table!AttemptsRemaining, tableOf, handOf
    <3> QED
      BY <3>4 DEF Table!Next
  <2> QED
    BY <2>2, <2>3
<1>9. ASSUME NEW id \in Users, WithUser(id, ResetTOTPAttempts(StoredAccount(id)), Answer("ok"))
      PROVE  Table!Next
  <2> DEFINE after == ResetTOTPAttempts(StoredAccount(id))
  <2>1. id \in Stored => /\ tableOf[id].acct = StoredAccount(id)
                         /\ after \in Account
    BY AccountStored, NarrowFacts, Mapped DEF StoredAccount
  <2>2. WithUser(id, after, Answer("ok"))
    BY <1>9
  <2>3. \/ /\ id \notin Stored
           /\ reply' = Answer("ErrUserNotFound")
           /\ tableOf' = tableOf /\ handOf' = handOf
        \/ /\ id \in Stored
           /\ reply' = Answer("ok")
           /\ tableOf' = [tableOf EXCEPT ![id].acct = after] /\ handOf' = handOf
    <3> HIDE DEF after
    <3> QED
      BY <2>1, <2>2, WithUserMaps
  <2>4. Table!WithUser(id, Table!ResetTOTPAttempts(tableOf[id].acct), Table!Answer("ok"))
    BY <2>1, <2>3, Mapped
    DEF Table!WithUser, Table!Refuse, Answer, Table!Answer, ResetTOTPAttempts, Table!ResetTOTPAttempts, tableOf, handOf
  <2> QED
    BY <2>4 DEF Table!Next, tableOf
<1>10. ASSUME NEW id \in Users, WithUser(id, ClearTOTP(StoredAccount(id)), Answer("ok"))
      PROVE  Table!Next
  <2> DEFINE after == ClearTOTP(StoredAccount(id))
  <2>1. id \in Stored => /\ tableOf[id].acct = StoredAccount(id)
                         /\ after \in Account
    BY AccountStored, NarrowFacts, Mapped DEF StoredAccount
  <2>2. WithUser(id, after, Answer("ok"))
    BY <1>10
  <2>3. \/ /\ id \notin Stored
           /\ reply' = Answer("ErrUserNotFound")
           /\ tableOf' = tableOf /\ handOf' = handOf
        \/ /\ id \in Stored
           /\ reply' = Answer("ok")
           /\ tableOf' = [tableOf EXCEPT ![id].acct = after] /\ handOf' = handOf
    <3> HIDE DEF after
    <3> QED
      BY <2>1, <2>2, WithUserMaps
  <2>4. Table!WithUser(id, Table!ClearTOTP(tableOf[id].acct), Table!Answer("ok"))
    BY <2>1, <2>3, Mapped
    DEF Table!WithUser, Table!Refuse, Answer, Table!Answer, ClearTOTP, Table!ClearTOTP, tableOf, handOf
  <2> QED
    BY <2>4 DEF Table!Next, tableOf
<1>11. ASSUME NEW id \in Users, NEW secret \in Secrets, NEW codes \in SUBSET Codes,
             WithUser(id, SetTOTP(StoredAccount(id), secret, codes), Answer("ok"))
      PROVE  Table!Next
  <2> DEFINE after == SetTOTP(StoredAccount(id), secret, codes)
  <2>1. id \in Stored => /\ tableOf[id].acct = StoredAccount(id)
                         /\ after \in Account
    BY AccountStored, NarrowFacts, Mapped DEF StoredAccount
  <2>2. WithUser(id, after, Answer("ok"))
    BY <1>11
  <2>3. \/ /\ id \notin Stored
           /\ reply' = Answer("ErrUserNotFound")
           /\ tableOf' = tableOf /\ handOf' = handOf
        \/ /\ id \in Stored
           /\ reply' = Answer("ok")
           /\ tableOf' = [tableOf EXCEPT ![id].acct = after] /\ handOf' = handOf
    <3> HIDE DEF after
    <3> QED
      BY <2>1, <2>2, WithUserMaps
  <2>4. Table!WithUser(id, Table!SetTOTP(tableOf[id].acct, secret, codes), Table!Answer("ok"))
    BY <2>1, <2>3, Mapped
    DEF Table!WithUser, Table!Refuse, Answer, Table!Answer, SetTOTP, Table!SetTOTP, tableOf, handOf
  <2> QED
    BY <2>4 DEF Table!Next, tableOf
<1>12. ASSUME NEW id \in Users, NEW code \in Codes, UseCode(id, code)
       PROVE  Table!Next
  <2> DEFINE after == ConsumeBackupCode(StoredAccount(id), code)
             answer == [err |-> "ok", n |-> IF code \in StoredAccount(id).codes THEN 1 ELSE 0]
  <2>1. id \in Stored => /\ tableOf[id].acct = StoredAccount(id)
                         /\ after \in Account
    BY AccountStored, NarrowFacts, Mapped DEF StoredAccount
  <2>2. WithUser(id, after, answer)
    BY <1>12 DEF UseCode
  <2>3. \/ /\ id \notin Stored
           /\ reply' = Answer("ErrUserNotFound")
           /\ tableOf' = tableOf /\ handOf' = handOf
        \/ /\ id \in Stored
           /\ reply' = answer
           /\ tableOf' = [tableOf EXCEPT ![id].acct = after] /\ handOf' = handOf
    <3> HIDE DEF after, answer
    <3> QED
      BY <2>1, <2>2, WithUserMaps
  <2>4. Table!UseCode(id, code)
    BY <2>1, <2>3, Mapped
    DEF Table!UseCode, Table!WithUser, Table!Refuse, Answer, Table!Answer,
        ConsumeBackupCode, Table!ConsumeBackupCode, tableOf, handOf
  <2> QED
    BY <2>4 DEF Table!Next
<1>13. ASSUME NEW f \in Field, NEW spelling \in Spellings, GetUserByName(f, spelling)
       PROVE  Table!Next
  <2> DEFINE k == Lower[spelling]
             found == {u \in Stored : HasKey(heap[users[u]], f, k)}
  <2>1. k \in Keys
    BY DEF Keys
  <2>2. Table!Get(found)
    <3>1. \A u \in Stored : users[u] = index[f][k] <=> u \in found
      BY <2>1, Carriers
    <3>2. index[f][k] # None => found # {}
      BY <2>1, <3>1, Carriers
    <3>3. Get(index[f][k])
      BY <1>13 DEF GetUserByName
    <3> HIDE DEF k
    <3> QED
      BY <3>1, <3>2, <3>3, GetMaps
  <2>3. {u \in Table!Stored : Table!HasKey(tableOf[u], f, k)} = found
    BY Mapped DEF HasKey, Table!HasKey
  <2>4. Table!GetUserByName(f, spelling)
    BY <2>2, <2>3 DEF Table!GetUserByName, tableOf
  <2> QED
    BY <2>4 DEF Table!Next
<1>14. CASE UNCHANGED vars
  BY <1>14 DEF vars, Table!vars
<1> QED
  BY <1>1, <1>2, <1>3, <1>4, <1>5, <1>6, <1>7, <1>8, <1>9, <1>10, <1>11, <1>12,
     <1>13, <1>14 DEF Next

(* MemoryStorage behaves like the table of values that                     *)
(* storage_interface.go promises: no caller's write reaches a stored user  *)
(* and UpdateUser never changes the security state.                        *)
THEOREM Refinement == Spec => Implements
<1>1. Init => Table!Init
  BY InitMaps
<1>2. StoreInv /\ [Next]_vars => [Table!Next]_(Table!vars)
  BY StepMaps
<1> QED
  BY <1>1, <1>2, StoreInvariant, PTL DEF Implements, Spec, Table!Spec

=============================================================================
