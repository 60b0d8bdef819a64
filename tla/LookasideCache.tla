---------------------------- MODULE LookasideCache ----------------------------
(***************************************************************************)
(* What the file-existence cache promises, without its locks, permits and  *)
(* waiting: a look-aside cache whose entries may be out of date but are    *)
(* never made up, except for a kind that is told apart.  A call records at *)
(* most one entry, that of its own path, and what it records is what the   *)
(* object was at one moment of the call: when a check looked at it, or     *)
(* when an upload put it.  An upload whose source was rewritten after it   *)
(* was put records the new size, and the entry is odd: the object may      *)
(* never have had it.  A call may end without recording anything, and      *)
(* entries may be forgotten.  A restart ends all calls.                    *)
(***************************************************************************)
CONSTANTS
    Checks,     \* goroutines that check for an object
    Uploads,    \* goroutines that put an object
    Keys,       \* target paths
    Sizes,      \* sizes of objects
    Absent,     \* the answer "there is no such object"
    NoEntry     \* there is no entry, or nothing to record

VARIABLES
    storage,    \* the objects
    cache,      \* the entries
    active,     \* calls that may still record something
    key,        \* the path of each call
    held,       \* what each call is going to record
    resized,    \* uploads that hold another size than they put
    odd         \* paths whose entry came from such an upload

vars == <<storage, cache, active, key, held, resized, odd>>

Actors == Checks \cup Uploads
Infos  == Sizes \cup {Absent}

Init == /\ storage \in [Keys -> Infos]
        /\ cache = [k \in Keys |-> NoEntry]
        /\ active = {}
        /\ key \in [Actors -> Keys]
        /\ held = [p \in Actors |-> NoEntry]
        /\ resized = {} /\ odd = {}

Call(p, k) ==
    /\ p \notin active
    /\ active' = active \cup {p}
    /\ key' = [key EXCEPT ![p] = k]
    /\ UNCHANGED <<storage, cache, held, resized, odd>>

\* A check looks at the object, once.
Observe(c) ==
    /\ c \in active
    /\ held[c] = NoEntry
    /\ held' = [held EXCEPT ![c] = storage[key[c]]]
    /\ UNCHANGED <<storage, cache, active, key, resized, odd>>

\* An upload puts the object, once, and learns of it or not.
Put(u, s) ==
    /\ u \in active
    /\ held[u] = NoEntry
    /\ storage' = [storage EXCEPT ![key[u]] = s]
    /\ \/ held' = [held EXCEPT ![u] = s] /\ active' = active
       \/ held' = held /\ active' = active \ {u}
    /\ UNCHANGED <<cache, key, resized, odd>>

\* An upload is going to record the size its source has got since.
Resize(u, s) ==
    /\ held[u] # NoEntry /\ s # held[u]
    /\ held' = [held EXCEPT ![u] = s]
    /\ resized' = resized \cup {u}
    /\ UNCHANGED <<storage, cache, active, key, odd>>

Record(p) ==
    /\ held[p] # NoEntry
    /\ cache' = [cache EXCEPT ![key[p]] = held[p]]
    /\ odd' = IF p \in resized THEN odd \cup {key[p]} ELSE odd \ {key[p]}
    /\ held' = [held EXCEPT ![p] = NoEntry]
    /\ active' = active \ {p}
    /\ resized' = resized \ {p}
    /\ UNCHANGED <<storage, key>>

\* The call finds an entry, fails, or cannot record what it holds.
End(p) ==
    /\ p \in active
    /\ held' = [held EXCEPT ![p] = NoEntry]
    /\ active' = active \ {p}
    /\ resized' = resized \ {p}
    /\ UNCHANGED <<storage, cache, key, odd>>

Forget(K) ==
    /\ cache' = [k \in Keys |-> IF k \in K THEN NoEntry ELSE cache[k]]
    /\ odd' = odd \ K
    /\ UNCHANGED <<storage, active, key, held, resized>>

Restart ==
    /\ active' = {}
    /\ held' = [p \in Actors |-> NoEntry]
    /\ resized' = {}
    /\ UNCHANGED <<storage, cache, key, odd>>

Next ==
    \/ \E p \in Actors : Record(p) \/ End(p) \/ \E k \in Keys : Call(p, k)
    \/ \E c \in Checks : Observe(c)
    \/ \E u \in Uploads, s \in Sizes : Put(u, s) \/ Resize(u, s)
    \/ \E K \in SUBSET Keys : Forget(K)
    \/ Restart

Spec == Init /\ [][Next]_vars
=============================================================================
