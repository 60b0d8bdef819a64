------------------------- MODULE ExistenceCacheProofs -------------------------
(***************************************************************************)
(* Theorems about ExistenceCache, for every number of goroutines, paths,   *)
(* sizes, permits and failures.                                            *)
(***************************************************************************)
EXTENDS ExistenceCache, FiniteSetTheorems, TLAPS

-----------------------------------------------------------------------------
(* Types and permits: the type of permits needs the exact count, since a   *)
(* Release subtracts.                                                      *)

Holders == {c \in Checks : pc[c] \in Holding}

PermitInv == TypeOK /\ PermitsExact

\* A step that moves check c without letting it enter or leave the holders.
LEMMA HoldersKept ==
    ASSUME TypeOK, NEW p \in Actors, NEW label,
           pc' = [pc EXCEPT ![p] = label],
           p \in Checks => (pc[p] \in Holding <=> label \in Holding)
    PROVE  Holders' = Holders
  BY DEF Holders, TypeOK, Actors

\* Acquire adds one holder.
LEMMA HolderAdded ==
    ASSUME TypeOK, PermitsExact, NEW c \in Checks, pc[c] \notin Holding,
           NEW label \in Holding, pc' = [pc EXCEPT ![c] = label]
    PROVE  Cardinality(Holders') = permits + 1
<1>1. Holders' = Holders \cup {c}
  BY DEF Holders, TypeOK, Actors
<1>2. IsFiniteSet(Holders) /\ c \notin Holders
  BY CacheAssumption, FS_Subset DEF Holders
<1>3. QED
  BY <1>1, <1>2, FS_AddElement DEF PermitsExact, Holders

\* Release removes one, so there was one.
LEMMA HolderRemoved ==
    ASSUME TypeOK, PermitsExact, NEW c \in Checks, pc[c] \in Holding,
           NEW label, label \notin Holding, pc' = [pc EXCEPT ![c] = label]
    PROVE  /\ permits >= 1
           /\ Cardinality(Holders') = permits - 1
<1>1. Holders' = Holders \ {c}
  BY DEF Holders, TypeOK, Actors
<1>2. IsFiniteSet(Holders) /\ c \in Holders
  BY CacheAssumption, FS_Subset DEF Holders
<1>3. Cardinality(Holders') = Cardinality(Holders) - 1
  BY <1>1, <1>2, FS_RemoveElement
<1>4. Cardinality(Holders) \in Nat /\ Cardinality(Holders) # 0
  BY <1>2, FS_CardinalityType, FS_EmptySet
<1>5. QED
  BY <1>3, <1>4 DEF PermitsExact, Holders

LEMMA PermitInit == Init => PermitInv
<1> SUFFICES ASSUME Init PROVE PermitInv
  OBVIOUS
<1>1. TypeOK
  BY CacheAssumption
     DEF Init, TypeOK, Infos, Actors, CheckPCs, UploadPCs
<1>2. Holders = {}
  BY DEF Init, Holders, Holding, Actors
<1>3. PermitsExact
  BY <1>2, FS_EmptySet DEF Init, PermitsExact, Holders
<1>4. QED
  BY <1>1, <1>3 DEF PermitInv

LEMMA PermitStep == PermitInv /\ [Next]_vars => PermitInv'
<1> SUFFICES ASSUME TypeOK, PermitsExact, [Next]_vars PROVE PermitInv'
  BY DEF PermitInv
<1> USE CacheAssumption
<1>1. ASSUME NEW c \in Checks, Acquire(c) PROVE PermitInv'
  <2>1. Cardinality(Holders') = permits'
    BY <1>1, HolderAdded DEF Acquire, Goto, Holding
  <2>2. TypeOK'
    BY <1>1 DEF Acquire, Goto, marks, TypeOK, CheckPCs, UploadPCs, Owning, Holding, Actors
  <2>3. QED
    BY <2>1, <2>2 DEF PermitInv, PermitsExact, Holders
<1>2. ASSUME NEW c \in Checks, Release(c) PROVE PermitInv'
  <2>1. permits >= 1 /\ Cardinality(Holders') = permits'
    BY <1>2, HolderRemoved DEF Release, Goto, Holding
  <2>2. TypeOK'
    BY <1>2, <2>1 DEF Release, Goto, marks, TypeOK, CheckPCs, UploadPCs, Owning, Holding, Actors
  <2>3. QED
    BY <2>1, <2>2 DEF PermitInv, PermitsExact, Holders
<1>. DEFINE Lookups(c) == \/ LookupHit(c) \/ LookupMiss(c) \/ LookupFail(c)
                          \/ Claim(c) \/ Spin(c)
                          \/ RelookupHit(c) \/ RelookupMiss(c)
                          \/ RelookupFail(c) \/ AcquireCancelled(c)
                          \/ Unlock(c)
            Queries(c) == Query(c) \/ QueryFail(c) \/ Store(c) \/ StoreFail(c)
<1>3. ASSUME NEW c \in Checks, Lookups(c) PROVE PermitInv'
  <2>1. /\ \E label \in CheckPCs \ Holding : pc' = [pc EXCEPT ![c] = label]
        /\ pc[c] \notin Holding
    BY <1>3 DEF LookupHit, LookupMiss, LookupFail, Claim, Spin, RelookupHit,
            RelookupMiss, RelookupFail, AcquireCancelled, Unlock, Goto,
            CheckPCs, Owning, Holding
  <2>2. /\ UNCHANGED <<storage, cache, permits, key, info, listed, raced, resized, odd>>
        /\ shaken' \subseteq Keys /\ locks' \subseteq Keys
        /\ disturbances' \in 0 .. MaxDisturbances
    BY <1>3 DEF LookupHit, LookupMiss, LookupFail, Claim, Spin, RelookupHit,
            RelookupMiss, RelookupFail, AcquireCancelled, Unlock, Disturb,
            marks, TypeOK, Actors
  <2>3. Holders' = Holders
    BY <2>1, HoldersKept DEF Actors
  <2>4. TypeOK'
    BY <2>1, <2>2 DEF TypeOK, Actors
  <2>5. QED
    BY <2>2, <2>3, <2>4 DEF PermitInv, PermitsExact, Holders
<1>4. ASSUME NEW c \in Checks, Queries(c) PROVE PermitInv'
  <2>1. /\ \E label \in Holding : pc' = [pc EXCEPT ![c] = label]
        /\ pc[c] \in Holding
    BY <1>4 DEF Query, QueryFail, Store, StoreFail, Goto, Holding
  <2>2. /\ cache' \in [Keys -> Infos \cup {NoEntry}]
        /\ info' \in [Actors -> Infos]
        /\ UNCHANGED <<storage, locks, permits, key, listed, resized>>
        /\ shaken' \subseteq Keys /\ raced' \subseteq Keys /\ odd' \subseteq Keys
        /\ disturbances' \in 0 .. MaxDisturbances
    BY <1>4 DEF Query, QueryFail, Store, StoreFail, Disturb, Healed, marks,
            TypeOK, Actors
  <2>3. Holders' = Holders
    BY <2>1, HoldersKept DEF Actors
  <2>4. TypeOK'
    BY <2>1, <2>2 DEF TypeOK, Actors, CheckPCs, Owning
  <2>5. QED
    BY <2>2, <2>3, <2>4 DEF PermitInv, PermitsExact, Holders
<1>5. ASSUME NEW c \in Checks, NEW k \in Keys, Begin(c, k) PROVE PermitInv'
  <2>1. Holders' = Holders
    BY <1>5, HoldersKept DEF Begin, Goto, Actors, Holding
  <2>2. TypeOK'
    BY <1>5 DEF Begin, Goto, marks, TypeOK, Actors, CheckPCs
  <2>3. QED
    BY <1>5, <2>1, <2>2 DEF Begin, PermitInv, PermitsExact, Holders
<1>6. ASSUME NEW u \in Uploads,
             \/ UploadStep(u)
             \/ \E k \in Keys, s \in Sizes : StartUpload(u, k, s)
             \/ \E s \in Sizes : Rewritten(u, s)
      PROVE  PermitInv'
  <2>1. /\ \E label \in UploadPCs : pc' = [pc EXCEPT ![u] = label]
        /\ u \in Actors /\ u \notin Checks
    <3>1. CASE UploadStep(u)
      BY <3>1 DEF UploadStep, Put, PutLost, PutFail, SetFileExists,
              SetFileExistsFail, Goto, UploadPCs, Actors
    <3>2. CASE \E k \in Keys, s \in Sizes : StartUpload(u, k, s)
      BY <3>2 DEF StartUpload, Goto, UploadPCs, Actors
    <3>3. CASE \E s \in Sizes : Rewritten(u, s)
      <4>1. pc' = [pc EXCEPT ![u] = pc[u]]
        BY <3>3 DEF Rewritten, TypeOK, Actors
      <4>2. QED
        BY <4>1 DEF TypeOK, Actors
    <3>4. QED
      BY <1>6, <3>1, <3>2, <3>3
  <2>2. /\ storage' \in [Keys -> Infos]
        /\ cache' \in [Keys -> Infos \cup {NoEntry}]
        /\ key' \in [Actors -> Keys] /\ info' \in [Actors -> Infos]
        /\ UNCHANGED <<locks, permits, listed, shaken>>
        /\ raced' \subseteq Keys /\ odd' \subseteq Keys /\ resized' \subseteq Uploads
        /\ disturbances' \in 0 .. MaxDisturbances
    <3>1. CASE UploadStep(u)
      BY <3>1 DEF UploadStep, Put, PutLost, PutFail, SetFileExists,
              SetFileExistsFail, Disturb, Healed, marks, TypeOK, Actors
    <3>2. CASE \E k \in Keys, s \in Sizes : StartUpload(u, k, s)
      BY <3>2 DEF StartUpload, marks, TypeOK, Actors, Infos
    <3>3. CASE \E s \in Sizes : Rewritten(u, s)
      BY <3>3 DEF Rewritten, Disturb, TypeOK, Actors, Infos
    <3>4. QED
      BY <1>6, <3>1, <3>2, <3>3
  <2>3. Holders' = Holders
    BY <2>1, HoldersKept
  <2>4. TypeOK'
    BY <2>1, <2>2 DEF TypeOK, Actors
  <2>5. QED
    BY <2>2, <2>3, <2>4 DEF PermitInv, PermitsExact, Holders
<1>. DEFINE Clearing == \/ \E k \in Keys : ClearKey(k)
                        \/ \E w \in Clears : \/ ListKeys(w) \/ DelKeys(w)
                                             \/ DelKeysFail(w)
<1>7. CASE Clearing
  <2>1. UNCHANGED <<storage, locks, permits, pc, key, info>>
    BY <1>7 DEF ClearKey, ListKeys, DelKeys, DelKeysFail
  <2>2. /\ cache' \in [Keys -> Infos \cup {NoEntry}]
        /\ raced' \subseteq Keys /\ shaken' \subseteq Keys
        /\ odd' \subseteq Keys /\ resized' \subseteq Uploads
        /\ disturbances' \in 0 .. MaxDisturbances
        /\ listed' \in [Clears -> SUBSET Keys]
    BY <1>7 DEF ClearKey, ListKeys, DelKeys, DelKeysFail, Cleared, Disturb, marks, TypeOK
  <2>3. QED
    BY <2>1, <2>2 DEF PermitInv, PermitsExact, TypeOK
<1>8. CASE Crash
  <2>1. TypeOK'
    BY <1>8 DEF Crash, Disturb, TypeOK, CheckPCs, UploadPCs, Actors
  <2>2. Holders' = {}
    BY <1>8 DEF Crash, Holders, Holding, Actors
  <2>3. PermitsExact'
    BY <1>8, <2>2, FS_EmptySet DEF Crash, PermitsExact, Holders
  <2>4. QED
    BY <2>1, <2>3 DEF PermitInv
<1>9. CASE UNCHANGED vars
  BY <1>9 DEF vars, state, marks, PermitInv, PermitsExact, TypeOK
<1>10. QED
  BY <1>1, <1>2, <1>3, <1>4, <1>5, <1>6, <1>7, <1>8, <1>9 DEF Next, CheckStep

\* The types, among them the bound on concurrent storage checks.
THEOREM TypeCorrect == Spec => []TypeOK
<1>1. PermitInv => TypeOK
  BY DEF PermitInv
<1>2. QED
  BY PermitInit, PermitStep, <1>1, PTL DEF Spec

\* No path through CheckFileExists leaks a permit or returns one twice.
THEOREM PermitsAreExact == Spec => []PermitsExact
<1>1. PermitInv => PermitsExact
  BY DEF PermitInv
<1>2. QED
  BY PermitInit, PermitStep, <1>1, PTL DEF Spec

-----------------------------------------------------------------------------
(* Locks and single flight.  For a key nothing disturbed: an owner is alone *)
(* and the lock is in the map, and a check that will look the key up again, *)
(* or lets others do so, has an entry to find there.                        *)

Undisturbed(k) ==
    /\ \A c, d \in Owners(k) : c = d
    /\ \A c \in Owners(k) : k \in locks
    /\ \A c \in Checks : key[c] = k =>
          /\ pc[c] \in {"relookup", "release", "unlock"} => cache[k] # NoEntry
          /\ pc[c] = "spin" /\ k \notin locks => cache[k] # NoEntry

FlightInv == /\ TypeOK
             /\ NoOrphanLock
             /\ \A k \in Keys \ shaken : Undisturbed(k)

LEMMA FlightInit == Init => FlightInv
<1> SUFFICES ASSUME Init PROVE FlightInv
  OBVIOUS
<1>1. TypeOK
  BY PermitInit DEF PermitInv
<1>2. \A c \in Checks : pc[c] = "idle"
  BY DEF Init, Actors
<1>3. \A k \in Keys : Owners(k) = {}
  BY <1>2 DEF Owners, Owning, Holding
<1>4. QED
  BY <1>1, <1>2, <1>3 DEF Init, FlightInv, NoOrphanLock, Undisturbed

\* The orphan-free locks alone: only the deferred Delete ends an ownership.
LEMMA OrphanStep == TypeOK /\ NoOrphanLock /\ [Next]_vars => NoOrphanLock'
<1> SUFFICES ASSUME TypeOK, NoOrphanLock, [Next]_vars PROVE NoOrphanLock'
  OBVIOUS
<1> USE CacheAssumption
<1>1. ASSUME NEW c \in Checks, CheckStep(c) PROVE NoOrphanLock'
  <2>1. CASE Claim(c)
    <3> SUFFICES ASSUME NEW k \in locks' PROVE Owners(k)' # {}
      BY DEF NoOrphanLock
    <3>1. CASE k \in locks
      <4>1. PICK d \in Checks : pc[d] \in Owning /\ key[d] = k
        BY <3>1 DEF NoOrphanLock, Owners
      <4>2. pc'[d] = pc[d] /\ key'[d] = key[d]
        BY <2>1, <4>1 DEF Claim, Goto, Owning, Holding, TypeOK, Actors
      <4>3. QED
        BY <4>1, <4>2 DEF Owners
    <3>2. CASE k \notin locks
      <4>1. key[c] = k /\ pc'[c] = "acquire" /\ key' = key
        BY <2>1, <3>2 DEF Claim, Goto, TypeOK, Actors
      <4>2. QED
        BY <4>1 DEF Owners, Owning
    <3>3. QED
      BY <3>1, <3>2
  <2>2. CASE Unlock(c)
    BY <2>2 DEF Unlock, Goto, NoOrphanLock, Owners, Owning, TypeOK, Actors
  <2>3. CASE ~Claim(c) /\ ~Unlock(c)
    <3>1. /\ UNCHANGED <<locks, key>>
          /\ \E label \in CheckPCs : /\ pc' = [pc EXCEPT ![c] = label]
                                     /\ pc[c] \in Owning => label \in Owning
      BY <1>1, <2>3
         DEF CheckStep, LookupHit, LookupMiss, LookupFail, Spin, RelookupHit,
             RelookupMiss, RelookupFail, Acquire, AcquireCancelled, Query,
             QueryFail, Store, StoreFail, Release, Goto, CheckPCs, Owning,
             Holding
    <3>2. QED
      BY <3>1 DEF NoOrphanLock, Owners, TypeOK, Actors
  <2>4. QED
    BY <2>1, <2>2, <2>3
<1>2. ASSUME NEW c \in Checks, NEW k \in Keys, Begin(c, k) PROVE NoOrphanLock'
  BY <1>2 DEF Begin, Goto, NoOrphanLock, Owners, Owning, Holding, TypeOK, Actors
<1>3. ASSUME NEW u \in Uploads,
             \/ UploadStep(u)
             \/ \E k \in Keys, s \in Sizes : StartUpload(u, k, s)
             \/ \E s \in Sizes : Rewritten(u, s)
      PROVE  NoOrphanLock'
  <2>1. /\ locks' = locks
        /\ \A c \in Checks : pc'[c] = pc[c] /\ key'[c] = key[c]
    BY <1>3 DEF UploadStep, StartUpload, Rewritten, Put, PutLost, PutFail,
            SetFileExists, SetFileExistsFail, Goto, TypeOK, Actors
  <2>2. QED
    BY <2>1 DEF NoOrphanLock, Owners
<1>4. CASE \/ \E k \in Keys : ClearKey(k)
           \/ \E w \in Clears : ListKeys(w) \/ DelKeys(w) \/ DelKeysFail(w)
           \/ UNCHANGED vars
  <2>1. UNCHANGED <<locks, pc, key>>
    BY <1>4 DEF ClearKey, ListKeys, DelKeys, DelKeysFail, vars, state
  <2>2. QED
    BY <2>1 DEF NoOrphanLock, Owners
<1>5. CASE Crash
  BY <1>5 DEF Crash, NoOrphanLock
<1>6. QED
  BY <1>1, <1>2, <1>3, <1>4, <1>5 DEF Next

\* What every step of a check does to the disturbance of a key.
LEMMA FlightCheckStep ==
    ASSUME FlightInv, NEW c \in Checks, CheckStep(c),
           NEW k \in Keys, k \notin shaken'
    PROVE  Undisturbed(k)'
<1> USE CacheAssumption
<1>0. TypeOK /\ NoOrphanLock /\ c \in Actors /\ key[c] \in Keys
  BY DEF FlightInv, TypeOK, Actors
<1>1. k \notin shaken /\ Undisturbed(k) /\ UNCHANGED key
  BY DEF FlightInv, CheckStep, LookupHit, LookupMiss, LookupFail, Claim, Spin,
         RelookupHit, RelookupMiss, RelookupFail, Acquire, AcquireCancelled,
         Query, QueryFail, Store, StoreFail, Release, Unlock
<1> DEFINE Moved(label) == /\ pc'[c] = label
                           /\ \A d \in Checks \ {c} : pc'[d] = pc[d]
<1>2. ASSUME NEW label, Goto(c, label) PROVE Moved(label)
  BY <1>0, <1>2 DEF Goto, TypeOK, Actors
<1> HIDE DEF Moved
<1>3. CASE Claim(c)
  <2>1. Moved(IF key[c] \in locks THEN "spin" ELSE "acquire")
    BY <1>2, <1>3 DEF Claim
  <2>2. QED
    BY <1>0, <1>1, <1>3, <2>1
       DEF Claim, Moved, Undisturbed, Owners, Owning, Holding
<1>4. CASE Spin(c)
  <2>1. Moved("relookup")
    BY <1>2, <1>4 DEF Spin
  <2>2. QED
    BY <1>0, <1>1, <1>4, <2>1
       DEF Spin, Moved, Undisturbed, Owners, Owning, Holding
\* Steps outside the lock, which leave the waiters and the owners alone.
<1>5. CASE LookupHit(c) \/ LookupMiss(c) \/ LookupFail(c) \/ RelookupHit(c)
  <2>1. /\ Moved("idle") \/ Moved("claim")
        /\ pc[c] \in {"lookup", "relookup"}
        /\ UNCHANGED <<cache, locks>>
    BY <1>2, <1>5 DEF LookupHit, LookupMiss, LookupFail, RelookupHit
  <2>2. QED
    BY <1>0, <1>1, <2>1 DEF Moved, Undisturbed, Owners, Owning, Holding
\* Steps that can only be taken for another key, or that disturb this one.
<1>6. CASE \/ RelookupMiss(c) \/ RelookupFail(c) \/ AcquireCancelled(c)
           \/ QueryFail(c) \/ StoreFail(c)
  <2>1. /\ key[c] # k
        /\ \E label : Moved(label)
        /\ UNCHANGED <<cache, locks>>
    BY <1>0, <1>1, <1>2, <1>6
       DEF RelookupMiss, RelookupFail, AcquireCancelled, QueryFail, StoreFail,
           Undisturbed
  <2>2. QED
    BY <1>1, <2>1 DEF Moved, Undisturbed, Owners
\* Steps of an owner that stays one.
<1>7. CASE Acquire(c) \/ Query(c) \/ Release(c)
  <2>1. /\ \/ pc[c] = "acquire" /\ Moved("query")
           \/ pc[c] = "query" /\ Moved("store")
           \/ pc[c] = "release" /\ Moved("unlock")
        /\ UNCHANGED <<cache, locks>>
    BY <1>2, <1>7 DEF Acquire, Query, Release
  <2>2. QED
    BY <1>1, <2>1 DEF Moved, Undisturbed, Owners, Owning, Holding
<1>8. CASE Store(c)
  <2>1. /\ pc[c] = "store" /\ Moved("release")
        /\ locks' = locks
        /\ cache' = [cache EXCEPT ![key[c]] = info[c]]
        /\ info[c] # NoEntry
    BY <1>0, <1>2, <1>8 DEF Store, TypeOK, Infos
  <2>2. cache[k] # NoEntry => cache'[k] # NoEntry
    BY <1>0, <2>1 DEF TypeOK
  <2>3. key[c] = k => cache'[k] # NoEntry
    BY <1>0, <2>1 DEF TypeOK
  <2>4. QED
    BY <1>1, <2>1, <2>2, <2>3 DEF Moved, Undisturbed, Owners, Owning, Holding
<1>9. CASE Unlock(c)
  <2>1. Moved("idle") /\ pc[c] = "unlock"
    BY <1>2, <1>9 DEF Unlock
  <2>2. QED
    BY <1>0, <1>1, <1>9, <2>1
       DEF Unlock, Moved, Undisturbed, Owners, Owning, Holding
<1>10. QED
  BY <1>3, <1>4, <1>5, <1>6, <1>7, <1>8, <1>9 DEF CheckStep

LEMMA FlightStep == FlightInv /\ TypeOK' /\ [Next]_vars => FlightInv'
<1> SUFFICES ASSUME FlightInv, TypeOK', [Next]_vars PROVE FlightInv'
  OBVIOUS
<1> USE CacheAssumption
<1>0. TypeOK /\ NoOrphanLock
  BY DEF FlightInv
<1>1. NoOrphanLock'
  BY <1>0, OrphanStep
<1> SUFFICES ASSUME NEW k \in Keys, k \notin shaken' PROVE Undisturbed(k)'
  BY <1>1 DEF FlightInv
<1>2. ASSUME NEW c \in Checks, CheckStep(c) PROVE Undisturbed(k)'
  BY <1>2, FlightCheckStep
<1>3. ASSUME NEW c \in Checks, NEW kk \in Keys, Begin(c, kk)
      PROVE  Undisturbed(k)'
  <2>1. /\ UNCHANGED <<cache, locks>>
        /\ pc[c] = "idle" /\ pc'[c] = "lookup"
        /\ \A d \in Checks \ {c} : pc'[d] = pc[d] /\ key'[d] = key[d]
        /\ key'[c] = kk
    BY <1>0, <1>3 DEF Begin, Goto, TypeOK, Actors
  <2>2. CASE k \in shaken
    <3>1. k = kk /\ \A d \in Checks : ~(pc[d] # "idle" /\ key[d] = k)
      BY <1>3, <2>2 DEF Begin
    <3>2. QED
      BY <2>1, <3>1 DEF Undisturbed, Owners, Owning, Holding
  <2>3. CASE k \notin shaken
    <3>1. Undisturbed(k)
      BY <2>3 DEF FlightInv
    <3>2. QED
      BY <2>1, <3>1 DEF Undisturbed, Owners, Owning, Holding
  <2>4. QED
    BY <2>2, <2>3
<1>4. ASSUME NEW u \in Uploads,
             \/ UploadStep(u)
             \/ \E kk \in Keys, s \in Sizes : StartUpload(u, kk, s)
             \/ \E s \in Sizes : Rewritten(u, s)
      PROVE  Undisturbed(k)'
  <2>1. /\ UNCHANGED <<locks, shaken>>
        /\ \A c \in Checks : pc'[c] = pc[c] /\ key'[c] = key[c]
        /\ cache[k] # NoEntry => cache'[k] # NoEntry
    BY <1>0, <1>4
       DEF UploadStep, StartUpload, Rewritten, Put, PutLost, PutFail,
           SetFileExists, SetFileExistsFail, Goto, TypeOK, Actors, Infos
  <2>2. Undisturbed(k)
    BY <2>1 DEF FlightInv
  <2>3. QED
    BY <2>1, <2>2 DEF Undisturbed, Owners
<1>5. CASE \/ \E kk \in Keys : ClearKey(kk)
           \/ \E w \in Clears : ListKeys(w) \/ DelKeys(w) \/ DelKeysFail(w)
           \/ UNCHANGED vars
  <2>1. /\ UNCHANGED <<locks, pc, key>>
        /\ k \notin shaken /\ cache'[k] = cache[k]
    BY <1>0, <1>5
       DEF ClearKey, ListKeys, DelKeys, DelKeysFail, Cleared, vars, state,
           TypeOK
  <2>2. Undisturbed(k)
    BY <2>1 DEF FlightInv
  <2>3. QED
    BY <2>1, <2>2 DEF Undisturbed, Owners
<1>6. CASE Crash
  BY <1>6 DEF Crash, Undisturbed, Owners, Owning, Holding, Actors
<1>7. QED
  BY <1>2, <1>3, <1>4, <1>5, <1>6 DEF Next

\* A waiter in the unbounded poll loop always has somebody to wait for.
THEOREM LocksHaveOwners == Spec => []NoOrphanLock
<1>1. Init => NoOrphanLock
  BY FlightInit DEF FlightInv
<1>2. QED
  BY <1>1, OrphanStep, TypeCorrect, PTL DEF Spec

\* One storage query per key at a time, as long as no call failed for the key.
THEOREM ChecksAreSingleFlight == Spec => []SingleFlight
<1>1. FlightInv => SingleFlight
  BY DEF FlightInv, SingleFlight, Undisturbed
<1>2. QED
  BY <1>1, FlightInit, FlightStep, TypeCorrect, PTL DEF Spec

-----------------------------------------------------------------------------
(* Coherence.  The invariant is strengthened with the writers in flight:    *)
(* for a key no race touched, none of them holds a value out of date.       *)

Pending(k) == \E u \in Uploads : /\ pc[u] = "announce"
                                 /\ key[u] = k
                                 /\ info[u] = storage[k]

Coherent(k) == /\ \A p \in Actors : ~HoldsStale(p, k)
               /\ StaleEntry(k) => Pending(k)

CoherenceInv == \A k \in Keys \ raced : Coherent(k)

\* A step that touches neither the data nor a writer of k, and whose actor
\* arrives at a label where it holds nothing, or has read the current value.
LEMMA CoherentKept ==
    ASSUME NEW k \in Keys, Coherent(k),
           storage'[k] = storage[k],
           cache'[k] \in {cache[k], NoEntry, storage[k]},
           NEW p \in Actors,
           \A q \in Actors \ {p} : /\ pc'[q] = pc[q] /\ key'[q] = key[q]
                                   /\ info'[q] = info[q],
           ~HoldsStale(p, k)',
           pc[p] = "announce" /\ key[p] = k =>
               \/ pc'[p] = "announce" /\ key'[p] = k /\ info'[p] = info[p]
               \/ cache'[k] \in {NoEntry, storage[k]}
    PROVE  Coherent(k)'
<1>1. \A q \in Actors : ~HoldsStale(q, k)'
  BY DEF Coherent, HoldsStale
<1>2. ASSUME StaleEntry(k)' PROVE Pending(k)'
  <2>1. StaleEntry(k)
    BY <1>2 DEF StaleEntry
  <2>2. PICK u \in Uploads : /\ pc[u] = "announce" /\ key[u] = k
                             /\ info[u] = storage[k]
    BY <2>1 DEF Coherent, Pending
  <2>3. pc'[u] = "announce" /\ key'[u] = k /\ info'[u] = info[u]
    BY <1>2, <2>2 DEF StaleEntry, Actors
  <2>4. QED
    BY <2>2, <2>3 DEF Pending
<1>3. QED
  BY <1>1, <1>2 DEF Coherent

LEMMA CoherentCheckStep ==
    ASSUME TypeOK, CoherenceInv, NEW c \in Checks, CheckStep(c),
           NEW k \in Keys, k \notin raced'
    PROVE  Coherent(k)'
<1> USE CacheAssumption
<1>0. /\ c \in Actors /\ key[c] \in Keys
      /\ storage' = storage /\ key' = key
      /\ \A q \in Actors \ {c} : pc'[q] = pc[q] /\ info'[q] = info[q]
  BY DEF CheckStep, LookupHit, LookupMiss, LookupFail, Claim, Spin,
         RelookupHit, RelookupMiss, RelookupFail, Acquire, AcquireCancelled,
         Query, QueryFail, Store, StoreFail, Release, Unlock, Goto, TypeOK,
         Actors
<1>1. pc[c] # "announce"
  BY DEF TypeOK, CheckPCs, Owning, Holding
<1>2. CASE Store(c)
  <2>1. /\ pc'[c] = "release" /\ info' = info
        /\ cache' = [cache EXCEPT ![key[c]] = info[c]]
        /\ raced' = Healed(c, key[c], info[c])
        /\ pc[c] = "store"
    BY <1>2 DEF Store, Goto, TypeOK, Actors
  <2>2. CASE k \notin raced
    <3>1. Coherent(k)
      BY <2>2 DEF CoherenceInv
    <3>2. cache'[k] \in {cache[k], storage[k]}
      BY <1>0, <2>1, <3>1 DEF Coherent, HoldsStale, TypeOK
    <3>3. QED
      BY <1>0, <1>1, <2>1, <3>1, <3>2, CoherentKept DEF HoldsStale
  \* The store healed the key: what it wrote is current, and no one is behind.
  <2>3. CASE k \in raced
    <3>1. /\ k = key[c]
          /\ info[c] \in {NoEntry, storage[k]}
          /\ \A q \in Actors \ {c} : ~HoldsStale(q, k)
      BY <2>1, <2>3 DEF Healed
    <3>2. ~StaleEntry(k)'
      BY <1>0, <2>1, <3>1 DEF StaleEntry, TypeOK
    <3>3. \A q \in Actors : ~HoldsStale(q, k)'
      BY <1>0, <2>1, <3>1 DEF HoldsStale
    <3>4. QED
      BY <3>2, <3>3 DEF Coherent
  <2>4. QED
    BY <2>2, <2>3
<1>3. CASE ~Store(c)
  <2>1. /\ cache' = cache /\ raced' = raced
        /\ pc'[c] \in {"store", "announce"} => info'[c] = storage[key[c]]
    BY <1>3 DEF CheckStep, LookupHit, LookupMiss, LookupFail, Claim, Spin,
         RelookupHit, RelookupMiss, RelookupFail, Acquire, AcquireCancelled,
         Query, QueryFail, StoreFail, Release, Unlock, Goto, TypeOK, Actors
  <2>2. Coherent(k)
    BY <2>1 DEF CoherenceInv
  <2>3. ~HoldsStale(c, k)'
    BY <1>0, <2>1 DEF HoldsStale
  <2>4. QED
    BY <1>0, <1>1, <2>1, <2>2, <2>3, CoherentKept
<1>4. QED
  BY <1>2, <1>3

LEMMA CoherentUploadStep ==
    ASSUME TypeOK, CoherenceInv, NEW u \in Uploads,
           \/ UploadStep(u)
           \/ \E k \in Keys, s \in Sizes : StartUpload(u, k, s)
           \/ \E s \in Sizes : Rewritten(u, s),
           NEW k \in Keys, k \notin raced'
    PROVE  Coherent(k)'
<1> USE CacheAssumption
<1>0. /\ u \in Actors /\ key[u] \in Keys
      /\ \A q \in Actors \ {u} : /\ pc'[q] = pc[q] /\ info'[q] = info[q]
                                 /\ key'[q] = key[q]
  BY DEF UploadStep, Put, PutLost, PutFail, SetFileExists, SetFileExistsFail,
         StartUpload, Rewritten, Goto, TypeOK, Actors
\* The two steps that change the object.
<1>1. CASE Put(u) \/ PutLost(u)
  <2>1. /\ storage' = [storage EXCEPT ![key[u]] = info[u]]
        /\ cache' = cache /\ key' = key /\ info' = info
        /\ pc[u] = "put" /\ k \notin raced
        /\ pc'[u] \in {"announce", "idle"}
    BY <1>1 DEF Put, PutLost, Goto, TypeOK, Actors
  <2>2. Coherent(k)
    BY <2>1 DEF CoherenceInv
  <2>3. CASE k # key[u]
    <3>1. storage'[k] = storage[k]
      BY <2>1, <2>3 DEF TypeOK
    <3>2. QED
      BY <1>0, <2>1, <2>2, <2>3, <3>1, CoherentKept DEF HoldsStale
  <2>4. CASE k = key[u]
    <3>1. storage'[k] = info[u] /\ ~Overtaken(u)
      BY <1>1, <2>1, <2>4 DEF Put, PutLost, TypeOK
    <3>2. \A q \in Actors : ~HoldsStale(q, k)'
      BY <1>0, <2>1, <2>4, <3>1 DEF HoldsStale, Overtaken
    <3>3. CASE Put(u)
      <4>1. pc'[u] = "announce"
        BY <3>3 DEF Put, Goto, TypeOK, Actors
      <4>2. Pending(k)'
        BY <2>1, <2>4, <3>1, <4>1 DEF Pending
      <4>3. QED
        BY <3>2, <4>2 DEF Coherent
    <3>4. CASE PutLost(u)
      <4>1. ~StaleEntry(k)'
        BY <2>1, <2>4, <3>1, <3>4 DEF PutLost, StaleEntry
      <4>2. QED
        BY <3>2, <4>1 DEF Coherent
    <3>5. QED
      BY <1>1, <3>3, <3>4
  <2>5. QED
    BY <2>3, <2>4
<1>2. CASE SetFileExists(u)
  <2>1. /\ pc'[u] = "idle" /\ info' = info /\ key' = key
        /\ storage' = storage /\ pc[u] = "announce"
        /\ cache' = [cache EXCEPT ![key[u]] = info[u]]
        /\ raced' = Healed(u, key[u], info[u])
    BY <1>2 DEF SetFileExists, Goto, TypeOK, Actors
  <2>2. CASE k \notin raced
    <3>1. Coherent(k)
      BY <2>2 DEF CoherenceInv
    <3>2. IF k = key[u] THEN cache'[k] = storage[k] ELSE cache'[k] = cache[k]
      BY <1>0, <2>1, <3>1 DEF Coherent, HoldsStale, TypeOK
    <3>3. QED
      BY <1>0, <2>1, <3>1, <3>2, CoherentKept DEF HoldsStale
  <2>3. CASE k \in raced
    <3>1. /\ k = key[u]
          /\ info[u] \in {NoEntry, storage[k]}
          /\ \A q \in Actors \ {u} : ~HoldsStale(q, k)
      BY <2>1, <2>3 DEF Healed
    <3>2. ~StaleEntry(k)'
      BY <1>0, <2>1, <3>1 DEF StaleEntry, TypeOK
    <3>3. \A q \in Actors : ~HoldsStale(q, k)'
      BY <1>0, <2>1, <3>1 DEF HoldsStale
    <3>4. QED
      BY <3>2, <3>3 DEF Coherent
  <2>4. QED
    BY <2>2, <2>3
<1>3. CASE SetFileExistsFail(u)
  <2>1. /\ pc'[u] = "idle" /\ pc[u] = "announce"
        /\ UNCHANGED <<info, key, storage, cache>>
        /\ k \notin raced
        /\ k = key[u] => ~StaleEntry(k)
    BY <1>3 DEF SetFileExistsFail, Goto, TypeOK, Actors
  <2>2. Coherent(k)
    BY <2>1 DEF CoherenceInv
  <2>3. QED
    BY <1>0, <2>1, <2>2, CoherentKept DEF HoldsStale, StaleEntry
<1>4. CASE PutFail(u) \/ \E kk \in Keys, s \in Sizes : StartUpload(u, kk, s)
  <2>1. /\ pc'[u] \in {"idle", "put"} /\ pc[u] # "announce"
        /\ UNCHANGED <<storage, cache, raced>>
    BY <1>4 DEF PutFail, StartUpload, Goto, TypeOK, Actors
  <2>2. Coherent(k)
    BY <2>1 DEF CoherenceInv
  <2>3. QED
    BY <1>0, <2>1, <2>2, CoherentKept DEF HoldsStale
<1>5. CASE \E s \in Sizes : Rewritten(u, s)
  <2>1. /\ UNCHANGED <<storage, cache, pc, key>> /\ key[u] # k /\ k \notin raced
    BY <1>5 DEF Rewritten
  <2>2. Coherent(k)
    BY <2>1 DEF CoherenceInv
  <2>3. QED
    BY <1>0, <2>1, <2>2, CoherentKept DEF HoldsStale
<1>6. QED
  BY <1>1, <1>2, <1>3, <1>4, <1>5 DEF UploadStep

LEMMA CoherenceStep == TypeOK /\ CoherenceInv /\ [Next]_vars => CoherenceInv'
<1> SUFFICES ASSUME TypeOK, CoherenceInv, [Next]_vars,
                    NEW k \in Keys, k \notin raced'
             PROVE  Coherent(k)'
  BY DEF CoherenceInv
<1>1. ASSUME NEW c \in Checks, CheckStep(c) PROVE Coherent(k)'
  BY <1>1, CoherentCheckStep
<1>2. ASSUME NEW c \in Checks, NEW kk \in Keys, Begin(c, kk) PROVE Coherent(k)'
  <2>1. /\ c \in Actors /\ pc[c] = "idle" /\ pc'[c] = "lookup"
        /\ UNCHANGED <<storage, cache, raced>>
        /\ \A q \in Actors \ {c} : /\ pc'[q] = pc[q] /\ info'[q] = info[q]
                                   /\ key'[q] = key[q]
    BY <1>2 DEF Begin, Goto, TypeOK, Actors
  <2>2. Coherent(k)
    BY <2>1 DEF CoherenceInv
  <2>3. QED
    BY <2>1, <2>2, CoherentKept DEF HoldsStale
<1>3. ASSUME NEW u \in Uploads,
             \/ UploadStep(u)
             \/ \E kk \in Keys, s \in Sizes : StartUpload(u, kk, s)
             \/ \E s \in Sizes : Rewritten(u, s)
      PROVE  Coherent(k)'
  BY <1>3, CoherentUploadStep
<1>4. ASSUME NEW K \in SUBSET Keys, Cleared(K),
             UNCHANGED <<storage, pc, key, info>>
      PROVE  Coherent(k)'
  <2>1. CASE k \in raced
    BY <1>4, <2>1 DEF Cleared, Coherent, HoldsStale, StaleEntry
  <2>2. CASE k \notin raced
    BY <1>4, <2>2
       DEF Cleared, CoherenceInv, Coherent, HoldsStale, StaleEntry, Pending
  <2>3. QED
    BY <2>1, <2>2
<1>5. CASE \/ \E kk \in Keys : ClearKey(kk)
           \/ \E w \in Clears : DelKeys(w)
  <2>1. \E K \in SUBSET Keys : Cleared(K) /\ UNCHANGED <<storage, pc, key, info>>
    BY <1>5 DEF ClearKey, DelKeys, TypeOK
  <2>2. QED
    BY <1>4, <2>1
<1>6. CASE \/ \E w \in Clears : ListKeys(w) \/ DelKeysFail(w)
           \/ UNCHANGED vars
  <2>1. UNCHANGED <<storage, cache, pc, key, info, raced>>
    BY <1>6 DEF ListKeys, DelKeysFail, vars, state
  <2>2. QED
    BY <2>1 DEF CoherenceInv, Coherent, HoldsStale, StaleEntry, Pending
<1>7. CASE Crash
  BY <1>7 DEF Crash, Coherent, HoldsStale, StaleEntry
<1>8. QED
  BY <1>1, <1>2, <1>3, <1>5, <1>6, <1>7 DEF Next

\* An entry of Redis is out of date only if one of the named races or failures
\* left it so, or while the upload that changed the object still announces it.
THEOREM CacheIsCoherentUnlessRaced == Spec => []CoherentUnlessRaced
<1>1. Init => CoherenceInv
  BY DEF Init, CoherenceInv, Coherent, HoldsStale, StaleEntry
<1>2. CoherenceInv => CoherentUnlessRaced
  BY DEF CoherenceInv, Coherent, CoherentUnlessRaced, Pending
<1>3. QED
  BY <1>1, <1>2, CoherenceStep, TypeCorrect, PTL DEF Spec

-----------------------------------------------------------------------------
(* Refinement.  An upload that is about to put an object has one to put,    *)
(* and only one that put its object may have had its source rewritten;      *)
(* besides, the types are enough: every action maps to a step of            *)
(* LookasideCache, or leaves what that speaks of alone.                     *)

UploadsHaveSizes == \A u \in Uploads : /\ pc[u] = "put" => info[u] \in Sizes
                                       /\ u \in resized => pc[u] = "announce"

LEMMA SizesStep ==
  ASSUME TypeOK, UploadsHaveSizes, [Next]_vars
  PROVE  UploadsHaveSizes'
<1> USE CacheAssumption DEF UploadsHaveSizes
<1>1. ASSUME NEW c \in Checks, CheckStep(c) \/ \E k \in Keys : Begin(c, k)
      PROVE  UploadsHaveSizes'
  <2>1. /\ \A u \in Uploads : pc'[u] = pc[u] /\ info'[u] = info[u]
        /\ resized' = resized
    BY <1>1 DEF CheckStep, LookupHit, LookupMiss, LookupFail, Claim, Spin,
       RelookupHit, RelookupMiss, RelookupFail, Acquire, AcquireCancelled,
       Query, QueryFail, Store, StoreFail, Release, Unlock, Begin, Goto,
       marks, TypeOK, Actors
  <2>2. QED
    BY <2>1
<1>2. ASSUME NEW u \in Uploads,
             \/ UploadStep(u)
             \/ \E k \in Keys, s \in Sizes : StartUpload(u, k, s)
             \/ \E s \in Sizes : Rewritten(u, s)
      PROVE  UploadsHaveSizes'
  <2>1. \A v \in Uploads \ {u} : /\ pc'[v] = pc[v] /\ info'[v] = info[v]
                                 /\ v \in resized' <=> v \in resized
    BY <1>2 DEF UploadStep, Put, PutLost, PutFail, SetFileExists,
       SetFileExistsFail, StartUpload, Rewritten, Goto, marks, TypeOK, Actors
  <2>2. /\ pc'[u] = "put" => info'[u] \in Sizes
        /\ u \in resized' => pc'[u] = "announce"
    BY <1>2 DEF UploadStep, Put, PutLost, PutFail, SetFileExists,
       SetFileExistsFail, StartUpload, Rewritten, Goto, marks, TypeOK, Actors
  <2>3. QED
    BY <2>1, <2>2
<1>3. CASE \/ \E k \in Keys : ClearKey(k)
           \/ \E w \in Clears : ListKeys(w) \/ DelKeys(w) \/ DelKeysFail(w)
           \/ UNCHANGED vars
  BY <1>3 DEF ClearKey, ListKeys, DelKeys, DelKeysFail, Cleared, marks, vars, state
<1>4. CASE Crash
  BY <1>4 DEF Crash, Actors
<1>5. QED
  BY <1>1, <1>2, <1>3, <1>4 DEF Next

LEMMA UploadsPutSizes == Spec => []UploadsHaveSizes
<1>1. Init => UploadsHaveSizes
  BY DEF Init, UploadsHaveSizes, Actors
<1>2. QED
  BY <1>1, SizesStep, TypeCorrect, PTL DEF Spec

\* A goroutine that holds an answer is a call that may still record.
LEMMA WhatIsHeld ==
  ASSUME TypeOK, NEW p \in Actors
  PROVE  /\ held[p] = IF pc[p] \in {"store", "announce"} THEN info[p] ELSE NoEntry
         /\ held[p] # NoEntry <=> pc[p] \in {"store", "announce"}
         /\ p \in active <=> pc[p] \notin {"idle", "release", "unlock"}
  BY CacheAssumption DEF held, active, TypeOK, Infos

\* A step of p that moves it to a label: the others stay in the abstract state
\* where they were.
LEMMA MoveMaps ==
  ASSUME TypeOK, NEW p \in Actors, NEW label, pc' = [pc EXCEPT ![p] = label],
         \A q \in Actors \ {p} : info'[q] = info[q]
  PROVE  /\ active' = IF label \in {"idle", "release", "unlock"}
                      THEN active \ {p} ELSE active \cup {p}
         /\ held' = [held EXCEPT ![p] = IF label \in {"store", "announce"}
                                        THEN info'[p] ELSE NoEntry]
<1>1. pc'[p] = label /\ \A q \in Actors \ {p} : pc'[q] = pc[q]
  BY DEF TypeOK
<1>2. active' = IF label \in {"idle", "release", "unlock"}
                THEN active \ {p} ELSE active \cup {p}
  BY <1>1 DEF active
<1>3. held' = [held EXCEPT ![p] = IF label \in {"store", "announce"}
                                  THEN info'[p] ELSE NoEntry]
  BY <1>1 DEF held
<1>4. QED
  BY <1>2, <1>3

\* A step of p that leaves it an active call without an answer, or an ended one.
LEMMA StutterMaps ==
  ASSUME TypeOK, NEW p \in Actors, NEW label, pc' = [pc EXCEPT ![p] = label],
         UNCHANGED <<storage, cache, key, info, marks>>,
         held[p] = NoEntry, label \notin {"store", "announce"},
         p \in active <=> label \notin {"idle", "release", "unlock"}
  PROVE  UNCHANGED Abstract!vars
<1>1. active' = active
  BY MoveMaps DEF active
<1>2. held' = held
  BY MoveMaps DEF held
<1>3. QED
  BY <1>1, <1>2 DEF marks, Abstract!vars

\* A step of p that gives up.
LEMMA EndMaps ==
  ASSUME TypeOK, NEW p \in Actors, NEW label \in {"idle", "release", "unlock"},
         p \in active, pc' = [pc EXCEPT ![p] = label], resized' = resized \ {p},
         UNCHANGED <<storage, cache, key, info, odd>>
  PROVE  Abstract!Next
<1>1. Abstract!End(p)
  BY MoveMaps DEF Abstract!End
<1>2. QED
  BY <1>1 DEF Abstract!Next, Abstract!Actors, Actors

\* A step of p that writes what it holds in Redis.
LEMMA RecordMaps ==
  ASSUME TypeOK, NEW p \in Actors, NEW label \in {"idle", "release", "unlock"},
         pc[p] \in {"store", "announce"}, pc' = [pc EXCEPT ![p] = label],
         cache' = [cache EXCEPT ![key[p]] = info[p]],
         odd' = IF p \in resized THEN odd \cup {key[p]} ELSE odd \ {key[p]},
         resized' = resized \ {p},
         UNCHANGED <<storage, key, info>>
  PROVE  Abstract!Next
<1>1. held[p] # NoEntry /\ held[p] = info[p]
  BY WhatIsHeld
<1>2. Abstract!Record(p)
  BY <1>1, MoveMaps DEF Abstract!Record
<1>3. QED
  BY <1>2 DEF Abstract!Next, Abstract!Actors, Actors

\* The beginning of a check or of an upload.
LEMMA CallMaps ==
  ASSUME TypeOK, NEW p \in Actors, NEW k \in Keys, NEW label \in {"lookup", "put"},
         pc[p] = "idle", pc' = [pc EXCEPT ![p] = label],
         key' = [key EXCEPT ![p] = k],
         \A q \in Actors \ {p} : info'[q] = info[q],
         UNCHANGED <<storage, cache, marks>>
  PROVE  Abstract!Next
<1>1. p \notin active /\ held[p] = NoEntry
  BY WhatIsHeld
<1>2. active' = active \cup {p} /\ held' = [held EXCEPT ![p] = NoEntry]
  BY MoveMaps
<1>3. held' = held
  BY <1>1, <1>2 DEF held
<1>4. Abstract!Call(p, k)
  BY <1>1, <1>2, <1>3 DEF marks, Abstract!Call
<1>5. QED
  BY <1>4 DEF Abstract!Next, Abstract!Actors, Actors

LEMMA CheckMaps ==
  ASSUME TypeOK, NEW c \in Checks, CheckStep(c)
  PROVE  [Abstract!Next]_(Abstract!vars)
<1>0. c \in Actors /\ c \notin resized
  BY CacheAssumption DEF Actors, TypeOK
<1>1. CASE \/ LookupMiss(c) \/ LookupFail(c) \/ Claim(c) \/ Spin(c)
           \/ RelookupMiss(c) \/ RelookupFail(c) \/ Acquire(c)
           \/ Release(c) \/ Unlock(c)
  <2>1. PICK label : /\ pc' = [pc EXCEPT ![c] = label]
                     /\ label \notin {"store", "announce"}
                     /\ pc[c] \notin {"store", "announce"}
                     /\ pc[c] \notin {"idle", "release", "unlock"}
                          <=> label \notin {"idle", "release", "unlock"}
    BY <1>1 DEF LookupMiss, LookupFail, Claim, Spin, RelookupMiss,
       RelookupFail, Acquire, Release, Unlock, Goto
  <2>2. UNCHANGED <<storage, cache, key, info, marks>>
    BY <1>1 DEF LookupMiss, LookupFail, Claim, Spin, RelookupMiss,
       RelookupFail, Acquire, Release, Unlock
  <2>3. QED
    BY <1>0, <2>1, <2>2, WhatIsHeld, StutterMaps
<1>2. CASE \/ LookupHit(c) \/ RelookupHit(c) \/ AcquireCancelled(c)
           \/ QueryFail(c) \/ StoreFail(c)
  <2>1. PICK label \in {"idle", "release", "unlock"} :
                /\ pc' = [pc EXCEPT ![c] = label]
                /\ pc[c] \notin {"idle", "release", "unlock"}
    BY <1>2 DEF LookupHit, RelookupHit, AcquireCancelled, QueryFail,
       StoreFail, Goto
  <2>2. UNCHANGED <<storage, cache, key, info, odd>> /\ resized' = resized \ {c}
    BY <1>0, <1>2 DEF LookupHit, RelookupHit, AcquireCancelled, QueryFail,
       StoreFail, marks
  <2>3. QED
    BY <1>0, <2>1, <2>2, WhatIsHeld, EndMaps
<1>3. CASE Query(c)
  <2>1. /\ pc[c] = "query" /\ pc' = [pc EXCEPT ![c] = "store"]
        /\ info' = [info EXCEPT ![c] = storage[key[c]]]
        /\ UNCHANGED <<storage, cache, key, resized, odd>>
    BY <1>3 DEF Query, Goto, marks
  <2>2. c \in active /\ held[c] = NoEntry
    BY <1>0, <2>1, WhatIsHeld
  <2>3. info'[c] = storage[key[c]] /\ \A q \in Actors \ {c} : info'[q] = info[q]
    BY <1>0, <2>1 DEF TypeOK
  <2>4. active' = active \cup {c} /\ held' = [held EXCEPT ![c] = storage[key[c]]]
    BY <1>0, <2>1, <2>3, MoveMaps
  <2>5. Abstract!Observe(c)
    BY <2>1, <2>2, <2>4 DEF Abstract!Observe
  <2>6. QED
    BY <2>5 DEF Abstract!Next
<1>4. CASE Store(c)
  <2>1. resized' = resized \ {c}
    BY <1>0, <1>4 DEF Store
  <2>2. QED
    BY <1>0, <1>4, <2>1, RecordMaps DEF Store, Goto
<1>5. QED
  BY <1>1, <1>2, <1>3, <1>4 DEF CheckStep

LEMMA UploadMaps ==
  ASSUME TypeOK, UploadsHaveSizes, NEW u \in Uploads, UploadStep(u)
  PROVE  Abstract!Next
<1>0. u \in Actors
  BY DEF Actors
<1>1. CASE PutFail(u) \/ SetFileExistsFail(u)
  <2>1. /\ pc' = [pc EXCEPT ![u] = "idle"] /\ pc[u] \in {"put", "announce"}
        /\ UNCHANGED <<storage, cache, key, info, odd>>
        /\ resized' = resized \ {u}
    BY <1>1 DEF PutFail, SetFileExistsFail, Goto, marks, UploadsHaveSizes
  <2>2. QED
    BY <1>0, <2>1, WhatIsHeld, EndMaps
<1>2. CASE SetFileExists(u)
  BY <1>0, <1>2, RecordMaps DEF SetFileExists, Goto
<1>3. CASE Put(u) \/ PutLost(u)
  <2>1. PICK label \in {"idle", "announce"} : pc' = [pc EXCEPT ![u] = label]
    BY <1>3 DEF Put, PutLost, Goto
  <2>2. /\ pc[u] = "put" /\ UNCHANGED <<cache, key, info, resized, odd>>
        /\ storage' = [storage EXCEPT ![key[u]] = info[u]]
    BY <1>3 DEF Put, PutLost, marks
  <2>3. u \in active /\ held[u] = NoEntry /\ info[u] \in Sizes
    BY <1>0, <2>2, WhatIsHeld DEF UploadsHaveSizes
  <2>4. \/ held' = [held EXCEPT ![u] = info[u]] /\ active' = active
        \/ held' = held /\ active' = active \ {u}
    <3>1. CASE label = "announce"
      <4>1. /\ active' = active \cup {u}
            /\ held' = [held EXCEPT ![u] = info'[u]]
        BY <1>0, <2>1, <2>2, <3>1, MoveMaps
      <4>2. active' = active /\ info'[u] = info[u]
        BY <2>2, <2>3, <4>1
      <4>3. QED
        BY <4>1, <4>2
    <3>2. CASE label = "idle"
      <4>1. active' = active \ {u} /\ held' = [held EXCEPT ![u] = NoEntry]
        BY <1>0, <2>1, <2>2, <3>2, MoveMaps
      <4>2. held' = held
        BY <2>3, <4>1 DEF held
      <4>3. QED
        BY <4>1, <4>2
    <3>3. QED
      BY <3>1, <3>2
  <2>5. Abstract!Put(u, info[u])
    BY <2>2, <2>3, <2>4 DEF Abstract!Put
  <2>6. QED
    BY <2>3, <2>5 DEF Abstract!Next
<1>4. QED
  BY <1>1, <1>2, <1>3 DEF UploadStep

LEMMA RewrittenMaps ==
  ASSUME TypeOK, NEW u \in Uploads, NEW s \in Sizes, Rewritten(u, s)
  PROVE  Abstract!Next
<1>1. /\ u \in Actors /\ pc[u] = "announce" /\ pc' = [pc EXCEPT ![u] = "announce"]
      /\ info'[u] = s /\ \A q \in Actors \ {u} : info'[q] = info[q]
      /\ s # info[u] /\ resized' = resized \cup {u}
      /\ UNCHANGED <<storage, cache, key, odd>>
  BY DEF Rewritten, Actors, TypeOK
<1>2. u \in active /\ held[u] # NoEntry /\ s # held[u]
  BY <1>1, WhatIsHeld
<1>3. active' = active \cup {u} /\ held' = [held EXCEPT ![u] = s]
  BY <1>1, MoveMaps
<1>4. Abstract!Resize(u, s)
  BY <1>1, <1>2, <1>3 DEF Abstract!Resize
<1>5. QED
  BY <1>4 DEF Abstract!Next

LEMMA ClearMaps ==
  ASSUME NEW K \in SUBSET Keys, Cleared(K), UNCHANGED <<storage, pc, key, info>>
  PROVE  Abstract!Next
<1>1. active' = active /\ held' = held
  BY DEF active, held
<1>2. Abstract!Forget(K)
  BY <1>1 DEF Abstract!Forget, Cleared
<1>3. QED
  BY <1>2 DEF Abstract!Next

LEMMA CrashMaps == Crash => Abstract!Next
<1> SUFFICES ASSUME Crash PROVE Abstract!Next
  OBVIOUS
<1>1. active' = {} /\ held' = [p \in Actors |-> NoEntry]
  BY DEF Crash, active, held
<1>2. Abstract!Restart
  BY <1>1 DEF Crash, Abstract!Restart, Abstract!Actors, Actors
<1>3. QED
  BY <1>2 DEF Abstract!Next

LEMMA InitMaps == Init => Abstract!Init
<1> SUFFICES ASSUME Init PROVE Abstract!Init
  OBVIOUS
<1>1. active = {} /\ held = [p \in Actors |-> NoEntry]
  BY DEF Init, active, held
<1>2. QED
  BY <1>1 DEF Init, Abstract!Init, Abstract!Actors, Abstract!Infos, Actors, Infos

LEMMA NextMaps ==
  ASSUME TypeOK, UploadsHaveSizes, [Next]_vars
  PROVE  [Abstract!Next]_(Abstract!vars)
<1>1. ASSUME NEW c \in Checks, CheckStep(c) PROVE [Abstract!Next]_(Abstract!vars)
  BY <1>1, CheckMaps
<1>2. ASSUME NEW c \in Checks, NEW k \in Keys, Begin(c, k) PROVE Abstract!Next
  BY <1>2, CallMaps DEF Begin, Goto, Actors
<1>3. ASSUME NEW u \in Uploads, UploadStep(u) PROVE Abstract!Next
  BY <1>3, UploadMaps
<1>4. ASSUME NEW u \in Uploads, NEW k \in Keys, NEW s \in Sizes, StartUpload(u, k, s)
      PROVE  Abstract!Next
  <2>1. u \in Actors /\ \A q \in Actors \ {u} : info'[q] = info[q]
    BY <1>4 DEF StartUpload, TypeOK, Actors
  <2>2. QED
    BY <1>4, <2>1, CallMaps DEF StartUpload, Goto
<1>5. ASSUME NEW u \in Uploads, NEW s \in Sizes, Rewritten(u, s) PROVE Abstract!Next
  BY <1>5, RewrittenMaps
<1>6. CASE \/ \E k \in Keys : ClearKey(k)
           \/ \E w \in Clears : DelKeys(w)
  <2>1. PICK K \in SUBSET Keys : Cleared(K) /\ UNCHANGED <<storage, pc, key, info>>
    BY <1>6 DEF ClearKey, DelKeys, TypeOK
  <2>2. QED
    BY <2>1, ClearMaps
<1>7. CASE \/ \E w \in Clears : ListKeys(w) \/ DelKeysFail(w)
           \/ UNCHANGED vars
  BY <1>7 DEF ListKeys, DelKeysFail, vars, state, marks, Abstract!vars, active, held
<1>8. CASE Crash
  BY <1>8, CrashMaps
<1>9. QED
  BY <1>1, <1>2, <1>3, <1>4, <1>5, <1>6, <1>7, <1>8 DEF Next

\* The cache implements LookasideCache, whatever its locks, waiters, errors,
\* cancelled requests and clears do: a call records at most one entry, and what it
\* records is what the object was at one moment of the call.  Only the entries in
\* odd may hold what no object had: the size os.Stat found after an upload whose
\* source was rewritten behind it (filesync.go:231-234).
THEOREM EntriesAreObserved == Spec => EntriesWereTrue
  BY InitMaps, NextMaps, TypeCorrect, UploadsPutSizes, PTL
     DEF Spec, EntriesWereTrue, Abstract!Spec
=============================================================================
