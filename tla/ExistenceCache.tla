---------------------------- MODULE ExistenceCache ----------------------------
(***************************************************************************)
(* The file-existence cache (pkg/cache/cache.go) and the three callers     *)
(* that share it: existence checks (HTTP /check), uploads that refresh an  *)
(* entry after they stored an object (uploadFileOnce), and cache clears    *)
(* (HTTP /clear-cache).                                                    *)
(*                                                                         *)
(* A check is a goroutine: it looks the key up in Redis, and on a miss     *)
(* tries to claim the in-process lock of that key (sync.Map), waits for    *)
(* the holder if there is one, looks again, takes a storage permit,        *)
(* queries the storage, stores the answer in Redis and unwinds its two     *)
(* deferred calls, Release and then Delete.  A waiter whose second lookup  *)
(* misses goes on WITHOUT the lock, and its deferred Delete removes the    *)
(* lock whoever holds it.                                                  *)
(*                                                                         *)
(* The model keeps every one of those steps apart, since other goroutines  *)
(* run between them.  What is stored about an object is its size, so the   *)
(* contents of an object are abstracted to a member of Sizes.              *)
(***************************************************************************)
EXTENDS Naturals, FiniteSets

CONSTANTS
    Checks,             \* goroutines that run CheckFileExists
    Uploads,            \* goroutines that run uploadFileOnce
    Clears,             \* goroutines that run ClearCache("")
    Keys,               \* target paths that pass validateTargetPath
    Sizes,              \* sizes an object may have
    Absent,             \* the answer "the object does not exist"
    NoEntry,            \* Redis has no entry for the key
    MaxPermits,         \* Cache.MaxConcurrentStorageChecks
    MaxDisturbances     \* bound on failed calls and cache clears

ASSUME CacheAssumption ==
    /\ IsFiniteSet(Checks)
    /\ Checks \cap Uploads = {}
    /\ Absent \notin Sizes
    /\ NoEntry \notin Sizes \cup {Absent}
    /\ MaxPermits \in Nat \ {0}
    /\ MaxDisturbances \in Nat

VARIABLES
    storage,        \* the storage backend: Keys -> Infos
    cache,          \* Redis: Keys -> Infos \cup {NoEntry}, entries never expire
    locks,          \* keys present in c.locks
    permits,        \* permits of c.storageSemaphore that are taken
    pc,             \* where each goroutine is
    key,            \* the target path each goroutine works on
    info,           \* the FileInfo each goroutine holds
    listed,         \* keys each full clear obtained from KEYS and will DEL
    raced,          \* ghost: keys some race left with a stale entry or writer
    shaken,         \* ghost: keys whose single flight was disturbed
    resized,        \* ghost: uploads whose source was rewritten before os.Stat
    odd,            \* ghost: keys whose entry is the size of such a source
    disturbances    \* number of failures and clears so far (bounded)

state == <<storage, cache, locks, permits, pc, key, info, listed>>
marks == <<resized, odd>>
vars  == <<state, raced, shaken, marks, disturbances>>

Infos  == Sizes \cup {Absent}
Actors == Checks \cup Uploads

\* A check holds a storage permit between Acquire and the deferred Release,
Holding == {"query", "store", "release"}
\* and owns the key between LoadOrStore and the deferred locks.Delete.
Owning  == {"acquire", "unlock"} \cup Holding
\* It is counted on the lock from the moment it found it taken or took it.
CheckPCs  == {"idle", "lookup", "claim", "spin", "relookup"} \cup Owning
UploadPCs == {"idle", "put", "announce"}

-----------------------------------------------------------------------------
(* Bookkeeping of the ghost variables.                                     *)

\* p is about to write into Redis a value storage no longer has.
HoldsStale(p, k) == /\ pc[p] \in {"store", "announce"}
                    /\ key[p] = k
                    /\ info[p] # storage[k]

StaleEntry(k) == cache[k] \notin {NoEntry, storage[k]}

\* The effect on raced of p writing v in the entry of k: a current value heals
\* the key unless another goroutine still holds a stale one.
Healed(p, k, v) ==
    IF /\ v \in {NoEntry, storage[k]}
       /\ \A q \in Actors \ {p} : ~HoldsStale(q, k)
    THEN raced \ {k}
    ELSE raced

Disturb == /\ disturbances < MaxDisturbances
           /\ disturbances' = disturbances + 1

-----------------------------------------------------------------------------
Init == /\ storage \in [Keys -> Infos]
        /\ cache = [k \in Keys |-> NoEntry]
        /\ locks = {}
        /\ permits = 0
        /\ pc = [p \in Actors |-> "idle"]
        /\ key \in {[p \in Actors |-> k] : k \in Keys}
        /\ info = [p \in Actors |-> Absent]
        /\ listed = [w \in Clears |-> {}]
        /\ raced = {}
        /\ shaken = {}
        /\ resized = {}
        /\ odd = {}
        /\ disturbances = 0

Goto(p, label) == pc' = [pc EXCEPT ![p] = label]

-----------------------------------------------------------------------------
(* CheckFileExists                                                         *)

\* The call; a disturbance of the key is over when no other check is on it.
Begin(c, k) ==
    /\ pc[c] = "idle"
    /\ Goto(c, "lookup")
    /\ key' = [key EXCEPT ![c] = k]
    /\ shaken' = IF \E d \in Checks : pc[d] # "idle" /\ key[d] = k
                 THEN shaken ELSE shaken \ {k}
    /\ UNCHANGED <<storage, cache, locks, permits, info, listed, raced, marks,
                   disturbances>>

\* First getCachedInfo: a hit is the answer, a miss goes for the lock.
LookupHit(c) ==
    /\ pc[c] = "lookup"
    /\ cache[key[c]] # NoEntry
    /\ Goto(c, "idle")
    /\ UNCHANGED <<storage, cache, locks, permits, key, info, listed, raced,
                   shaken, marks, disturbances>>

LookupMiss(c) ==
    /\ pc[c] = "lookup"
    /\ cache[key[c]] = NoEntry
    /\ Goto(c, "claim")
    /\ UNCHANGED <<storage, cache, locks, permits, key, info, listed, raced,
                   shaken, marks, disturbances>>

\* A failed GET is treated as a miss.
LookupFail(c) ==
    /\ pc[c] = "lookup"
    /\ Disturb
    /\ Goto(c, "claim")
    /\ UNCHANGED <<storage, cache, locks, permits, key, info, listed, raced,
                   shaken, marks>>

\* LoadOrStore takes the lock or finds it taken.
Claim(c) ==
    /\ pc[c] = "claim"
    /\ locks' = locks \cup {key[c]}
    /\ Goto(c, IF key[c] \in locks THEN "spin" ELSE "acquire")
    /\ UNCHANGED <<storage, cache, permits, key, info, listed, raced, shaken,
                   marks, disturbances>>

\* Mutant of Spin: a waiter does not wait for the holder.
SpinWithoutWaiting(c) ==
    /\ pc[c] = "spin"
    /\ Goto(c, "relookup")
    /\ UNCHANGED <<storage, cache, locks, permits, key, info, listed, raced,
                   shaken, marks, disturbances>>

\* The poll that ends the wait: the lock is gone, and the waiter does not take it.
Spin(c) ==
    /\ pc[c] = "spin"
    /\ key[c] \notin locks
    /\ Goto(c, "relookup")
    /\ UNCHANGED <<storage, cache, locks, permits, key, info, listed, raced,
                   shaken, marks, disturbances>>

RelookupHit(c) ==
    /\ pc[c] = "relookup"
    /\ cache[key[c]] # NoEntry
    /\ Goto(c, "idle")
    /\ UNCHANGED <<storage, cache, locks, permits, key, info, listed, raced,
                   shaken, marks, disturbances>>

RelookupMiss(c) ==
    /\ pc[c] = "relookup"
    /\ cache[key[c]] = NoEntry
    /\ Goto(c, "acquire")
    /\ UNCHANGED <<storage, cache, locks, permits, key, info, listed, raced,
                   shaken, marks, disturbances>>

RelookupFail(c) ==
    /\ pc[c] = "relookup"
    /\ Disturb
    /\ Goto(c, "acquire")
    /\ shaken' = shaken \cup {key[c]}
    /\ UNCHANGED <<storage, cache, locks, permits, key, info, listed, raced,
                   marks>>

\* Mutant of Acquire: the semaphore does not bound its holders.
AcquireUnbounded(c) ==
    /\ pc[c] = "acquire"
    /\ permits' = permits + 1
    /\ Goto(c, "query")
    /\ UNCHANGED <<storage, cache, locks, key, info, listed, raced, shaken,
                   marks, disturbances>>

Acquire(c) ==
    /\ pc[c] = "acquire"
    /\ permits < MaxPermits
    /\ permits' = permits + 1
    /\ Goto(c, "query")
    /\ UNCHANGED <<storage, cache, locks, key, info, listed, raced, shaken,
                   marks, disturbances>>

\* Mutant of AcquireCancelled: the Release is deferred before the Acquire.
CancelledReleases(c) ==
    /\ pc[c] = "acquire"
    /\ Disturb
    /\ Goto(c, "release")
    /\ shaken' = shaken \cup {key[c]}
    /\ UNCHANGED <<storage, cache, locks, permits, key, info, listed, raced,
                   marks>>

\* The request's context ends during Acquire: only the lock is unwound.
AcquireCancelled(c) ==
    /\ pc[c] = "acquire"
    /\ Disturb
    /\ Goto(c, "unlock")
    /\ shaken' = shaken \cup {key[c]}
    /\ UNCHANGED <<storage, cache, locks, permits, key, info, listed, raced,
                   marks>>

Query(c) ==
    /\ pc[c] = "query"
    /\ info' = [info EXCEPT ![c] = storage[key[c]]]
    /\ Goto(c, "store")
    /\ UNCHANGED <<storage, cache, locks, permits, key, listed, raced, shaken,
                   marks, disturbances>>

\* Mutant of QueryFail: the error return releases the permit, not the lock.
QueryFailKeepsLock(c) ==
    /\ pc[c] = "query"
    /\ Disturb
    /\ Goto(c, "idle")
    /\ permits' = permits - 1
    /\ shaken' = shaken \cup {key[c]}
    /\ UNCHANGED <<storage, cache, locks, key, info, listed, raced, marks>>

\* Mutant of QueryFail: the error of the storage is not looked at.
QueryFailStores(c) ==
    /\ pc[c] = "query"
    /\ Disturb
    /\ Goto(c, "store")
    /\ shaken' = shaken \cup {key[c]}
    /\ UNCHANGED <<storage, cache, locks, permits, key, info, listed, raced,
                   marks>>

QueryFail(c) ==
    /\ pc[c] = "query"
    /\ Disturb
    /\ Goto(c, "release")
    /\ shaken' = shaken \cup {key[c]}
    /\ UNCHANGED <<storage, cache, locks, permits, key, info, listed, raced,
                   marks>>

Store(c) ==
    /\ pc[c] = "store"
    /\ cache' = [cache EXCEPT ![key[c]] = info[c]]
    /\ raced' = Healed(c, key[c], info[c])
    /\ odd' = odd \ {key[c]}
    /\ Goto(c, "release")
    /\ UNCHANGED <<storage, locks, permits, key, info, listed, shaken, resized,
                   disturbances>>

\* A failed SET is logged and the check still answers.
StoreFail(c) ==
    /\ pc[c] = "store"
    /\ Disturb
    /\ Goto(c, "release")
    /\ shaken' = shaken \cup {key[c]}
    /\ UNCHANGED <<storage, cache, locks, permits, key, info, listed, raced,
                   marks>>

Release(c) ==
    /\ pc[c] = "release"
    /\ permits' = permits - 1
    /\ Goto(c, "unlock")
    /\ UNCHANGED <<storage, cache, locks, key, info, listed, raced, shaken,
                   marks, disturbances>>

\* The deferred Delete, run also by a waiter that never took the lock.
Unlock(c) ==
    /\ pc[c] = "unlock"
    /\ locks' = locks \ {key[c]}
    /\ Goto(c, "idle")
    /\ UNCHANGED <<storage, cache, permits, key, info, listed, raced, shaken,
                   marks, disturbances>>

-----------------------------------------------------------------------------
(* An upload: the object is stored, then SetFileExists announces it.       *)

StartUpload(u, k, s) ==
    /\ pc[u] = "idle"
    /\ Goto(u, "put")
    /\ key' = [key EXCEPT ![u] = k]
    /\ info' = [info EXCEPT ![u] = s]
    /\ UNCHANGED <<storage, cache, locks, permits, listed, raced, shaken,
                   marks, disturbances>>

\* The write overtakes every answer about this key still on its way to Redis.
Overtaken(u) ==
    \E p \in Actors \ {u} : /\ pc[p] \in {"store", "announce"}
                            /\ key[p] = key[u]
                            /\ info[p] # info[u]

\* Mutant of Put: the cache is not told of the upload.
PutUnannounced(u) ==
    /\ pc[u] = "put"
    /\ storage' = [storage EXCEPT ![key[u]] = info[u]]
    /\ raced' = IF Overtaken(u) THEN raced \cup {key[u]} ELSE raced
    /\ Goto(u, "idle")
    /\ UNCHANGED <<cache, locks, permits, key, info, listed, shaken, marks,
                   disturbances>>

Put(u) ==
    /\ pc[u] = "put"
    /\ storage' = [storage EXCEPT ![key[u]] = info[u]]
    /\ raced' = IF Overtaken(u) THEN raced \cup {key[u]} ELSE raced
    /\ Goto(u, "announce")
    /\ UNCHANGED <<cache, locks, permits, key, info, listed, shaken, marks,
                   disturbances>>

\* The object landed but the call returned an error: nothing is announced.
PutLost(u) ==
    /\ pc[u] = "put"
    /\ Disturb
    /\ storage' = [storage EXCEPT ![key[u]] = info[u]]
    /\ raced' = IF \/ Overtaken(u)
                   \/ cache[key[u]] \notin {NoEntry, info[u]}
                THEN raced \cup {key[u]} ELSE raced
    /\ Goto(u, "idle")
    /\ UNCHANGED <<cache, locks, permits, key, info, listed, shaken, marks>>

PutFail(u) ==
    /\ pc[u] = "put"
    /\ Disturb
    /\ Goto(u, "idle")
    /\ UNCHANGED <<storage, cache, locks, permits, key, info, listed, raced,
                   shaken, marks>>

\* The source file is rewritten before the os.Stat whose size is announced: the
\* size that counts is the one os.Stat finds.
Rewritten(u, s) ==
    /\ pc[u] = "announce"
    /\ u \notin resized /\ s # info[u]
    /\ Disturb
    /\ info' = [info EXCEPT ![u] = s]
    /\ raced' = raced \cup {key[u]}
    /\ resized' = resized \cup {u}
    /\ UNCHANGED <<storage, cache, locks, permits, pc, key, listed, shaken, odd>>

SetFileExists(u) ==
    /\ pc[u] = "announce"
    /\ cache' = [cache EXCEPT ![key[u]] = info[u]]
    /\ raced' = Healed(u, key[u], info[u])
    /\ odd' = IF u \in resized THEN odd \cup {key[u]} ELSE odd \ {key[u]}
    /\ resized' = resized \ {u}
    /\ Goto(u, "idle")
    /\ UNCHANGED <<storage, locks, permits, key, info, listed, shaken,
                   disturbances>>

\* os.Stat or the SET fails: the upload still succeeds, the entry stays.
SetFileExistsFail(u) ==
    /\ pc[u] = "announce"
    /\ Disturb
    /\ raced' = IF StaleEntry(key[u]) THEN raced \cup {key[u]} ELSE raced
    /\ resized' = resized \ {u}
    /\ Goto(u, "idle")
    /\ UNCHANGED <<storage, cache, locks, permits, key, info, listed, shaken, odd>>

-----------------------------------------------------------------------------
(* ClearCache: one DEL for a path; KEYS and then one DEL for everything.   *)

Cleared(K) ==
    /\ cache' = [k \in Keys |-> IF k \in K THEN NoEntry ELSE cache[k]]
    /\ raced' = {k \in raced : k \in K => \E p \in Actors : HoldsStale(p, k)}
    /\ shaken' = shaken \cup K
    /\ odd' = odd \ K
    /\ UNCHANGED resized

ClearKey(k) ==
    /\ Disturb
    /\ Cleared({k})
    /\ UNCHANGED <<storage, locks, permits, pc, key, info, listed>>

ListKeys(w) ==
    /\ listed[w] = {}
    /\ Disturb
    /\ listed' = [listed EXCEPT ![w] = {k \in Keys : cache[k] # NoEntry}]
    /\ UNCHANGED <<storage, cache, locks, permits, pc, key, info, raced,
                   shaken, marks>>

DelKeys(w) ==
    /\ listed[w] # {}
    /\ Cleared(listed[w])
    /\ listed' = [listed EXCEPT ![w] = {}]
    /\ UNCHANGED <<storage, locks, permits, pc, key, info, disturbances>>

\* The second call of a full clear fails: nothing is deleted.
DelKeysFail(w) ==
    /\ listed[w] # {}
    /\ Disturb
    /\ listed' = [listed EXCEPT ![w] = {}]
    /\ UNCHANGED <<storage, cache, locks, permits, pc, key, info, raced,
                   shaken, marks>>

-----------------------------------------------------------------------------
\* The daemon dies and restarts: Redis and the storage keep their data.
Crash ==
    /\ Disturb
    /\ locks' = {}
    /\ permits' = 0
    /\ pc' = [p \in Actors |-> "idle"]
    /\ listed' = [w \in Clears |-> {}]
    /\ raced' = {k \in Keys : StaleEntry(k)}
    /\ shaken' = {}
    /\ resized' = {}
    /\ UNCHANGED <<storage, cache, key, info, odd>>

CheckStep(c) ==
    \/ LookupHit(c) \/ LookupMiss(c) \/ LookupFail(c)
    \/ Claim(c) \/ Spin(c)
    \/ RelookupHit(c) \/ RelookupMiss(c) \/ RelookupFail(c)
    \/ Acquire(c) \/ AcquireCancelled(c)
    \/ Query(c) \/ QueryFail(c) \/ Store(c) \/ StoreFail(c)
    \/ Release(c) \/ Unlock(c)

UploadStep(u) == \/ Put(u) \/ PutLost(u) \/ PutFail(u)
                 \/ SetFileExists(u) \/ SetFileExistsFail(u)

Next ==
    \/ \E c \in Checks : CheckStep(c) \/ \E k \in Keys : Begin(c, k)
    \/ \E u \in Uploads : \/ UploadStep(u)
                          \/ \E k \in Keys, s \in Sizes : StartUpload(u, k, s)
                          \/ \E s \in Sizes : Rewritten(u, s)
    \/ \E k \in Keys : ClearKey(k)
    \/ \E w \in Clears : ListKeys(w) \/ DelKeys(w) \/ DelKeysFail(w)
    \/ Crash

Spec == Init /\ [][Next]_vars

\* Goroutines that can run do run; the semaphore serves its waiters in FIFO
\* order, so a waiter that keeps seeing free permits gets one.
Fairness == /\ \A c \in Checks : WF_vars(CheckStep(c)) /\ SF_vars(Acquire(c))
            /\ \A u \in Uploads : WF_vars(UploadStep(u))
            /\ \A w \in Clears : WF_vars(DelKeys(w))

FairSpec == Spec /\ Fairness
-----------------------------------------------------------------------------
(* Properties.                                                             *)

\* Every variable has its type; in particular the storage never serves more
\* than MaxConcurrentStorageChecks checks at once.
TypeOK == /\ storage \in [Keys -> Infos]
          /\ cache \in [Keys -> Infos \cup {NoEntry}]
          /\ locks \subseteq Keys
          /\ permits \in 0 .. MaxPermits
          /\ pc \in [Actors -> CheckPCs \cup UploadPCs]
          /\ \A c \in Checks : pc[c] \in CheckPCs
          /\ \A u \in Uploads : pc[u] \in UploadPCs
          /\ key \in [Actors -> Keys]
          /\ info \in [Actors -> Infos]
          /\ listed \in [Clears -> SUBSET Keys]
          /\ raced \subseteq Keys
          /\ shaken \subseteq Keys
          /\ resized \subseteq Uploads
          /\ odd \subseteq Keys
          /\ disturbances \in 0 .. MaxDisturbances

\* On every path through CheckFileExists, with its cancellations and errors,
\* a permit taken is given back exactly once: the count of the semaphore is
\* the number of checks between Acquire and Release.
PermitsExact == permits = Cardinality({c \in Checks : pc[c] \in Holding})

Owners(k) == {c \in Checks : pc[c] \in Owning /\ key[c] = k}

\* A key is locked only while some check of it is still going to run the
\* deferred Delete, although a waiter may delete the lock of another check:
\* the unbounded wait loop of a waiter never waits for nobody.
NoOrphanLock == \A k \in locks : Owners(k) # {}

\* What the lock does for concurrent checks of one key, unless a call failed or
\* the entry was cleared meanwhile: their queries do not overlap, and one that
\* had to wait finds the entry afterwards, so that it makes no query.  It is less
\* than DESIGN.md:293 and 419 say ("prevent duplicate requests"): a check that
\* missed before the entry was written, and comes to the lock after it was
\* deleted, takes it without a second look (cache.go:71) and queries again.
SingleFlight ==
    \A k \in Keys \ shaken :
        /\ \A c, d \in Owners(k) : c = d
        /\ \A c \in Checks : pc[c] = "relookup" /\ key[c] = k => cache[k] # NoEntry

\* An entry differs from the object only while the upload that changed the
\* object has yet to announce it, or after a race or a failure: a write that
\* overtook an answer in flight, two overlapping uploads, a lost announcement, a
\* crash before it, or a source rewritten before the os.Stat whose size is
\* announced.  A clear, or a later announcement, heals the entry.
CoherentUnlessRaced ==
    \A k \in Keys \ raced : StaleEntry(k) =>
        \E u \in Uploads : /\ pc[u] = "announce"
                           /\ key[u] = k
                           /\ info[u] = storage[k]

\* ExistenceCache implements a look-aside cache.  A check that only unwinds its
\* deferred calls has no more to record.
active == {p \in Actors : pc[p] \notin {"idle", "release", "unlock"}}
held   == [p \in Actors |->
             IF pc[p] \in {"store", "announce"} THEN info[p] ELSE NoEntry]

Abstract == INSTANCE LookasideCache

\* Whatever the locks, waiters, cancellations, errors and clears do: a call
\* writes at most one entry, of its own path, and nothing after an error; what it
\* writes is what the object was at one moment of that call, when storage answered
\* or took it.  The one exception are the entries in odd: an upload announces the
\* size that os.Stat finds afterwards (filesync.go:231-234), so that of a source
\* rewritten in between may be one no object ever had (DESIGN.md:301 knows of none
\* such).  An entry stays odd until another call writes it, or it is cleared.
EntriesWereTrue == Abstract!Spec

\* Every check returns, a waiter in the poll loop included, in spite of locks
\* deleted by others, failed queries, cancellations and clears.
CheckReturns == \A c \in Checks : (pc[c] # "idle") ~> (pc[c] = "idle")

\* What DESIGN.md says of uploads ("Automatic cache updates when files are
\* uploaded"): with nothing in flight, an entry tells what is stored.  The
\* code does not keep it, see the runs.
RestingCacheIsCurrent ==
    (\A p \in Actors : pc[p] = "idle") => \A k \in Keys : ~StaleEntry(k)
=============================================================================
