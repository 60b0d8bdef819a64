------------------------------ MODULE AtomicStore ------------------------------
(***************************************************************************)
(* What an upload promises: a call of UploadFile replaces the object by a  *)
(* content its source had during the call, in one step, or leaves it       *)
(* alone; it reports success only if it did.  It may report an error       *)
(* although it did.  A crash ends all calls.                               *)
(*                                                                         *)
(* What is uploaded is gathered first, by target and content.  A call      *)
(* whose source changes while it runs may gather a mixture of contents:    *)
(* that gathering is in doubt until it is begun anew or stored, and an     *)
(* object stored from it is broken until the next one is stored.           *)
(***************************************************************************)
CONSTANTS
    Uploaders,  \* goroutines that upload
    Files,      \* source files
    Keys,       \* target paths
    Contents,   \* contents of the sources
    Data,       \* what an object may hold: contents, and parts of several
    Absent      \* there is no such object

VARIABLES
    source,     \* the source files
    store,      \* the objects
    phase,      \* of each call: "idle", "busy" (not stored), "stored"
    job,        \* source and target of each call
    seen,       \* contents the source had during the call
    answer,     \* what the last call answered, "none" after a crash
    doubt,      \* targets and contents whose gathering may mix contents
    broken      \* targets last stored from such a gathering

vars == <<source, store, phase, job, seen, answer, doubt, broken>>

Init == /\ source \in [Files -> Contents]
        /\ store \in [Keys -> Contents \cup {Absent}]
        /\ phase = [u \in Uploaders |-> "idle"]
        /\ job \in [Uploaders -> [file : Files, key : Keys]]
        /\ seen = [u \in Uploaders |-> {}]
        /\ answer = [u \in Uploaders |-> "none"]
        /\ doubt = {} /\ broken = {}

Begin(u, f, k) ==
    /\ phase[u] = "idle"
    /\ phase' = [phase EXCEPT ![u] = "busy"]
    /\ job' = [job EXCEPT ![u] = [file |-> f, key |-> k]]
    /\ seen' = [seen EXCEPT ![u] = {source[f]}]
    /\ answer' = [answer EXCEPT ![u] = "none"]
    /\ UNCHANGED <<source, store, doubt, broken>>

\* A call may cast doubt on a content it saw only if it saw another one too.
Doubt(u, c) ==
    /\ phase[u] = "busy"
    /\ c \in seen[u] /\ \E d \in seen[u] : d # c
    /\ doubt' = doubt \cup {<<job[u].key, c>>}
    /\ UNCHANGED <<source, store, phase, job, seen, answer, broken>>

\* The gathering of a content begins anew.
Settle(u, c) ==
    /\ phase[u] = "busy"
    /\ c \in seen[u]
    /\ doubt' = doubt \ {<<job[u].key, c>>}
    /\ UNCHANGED <<source, store, phase, job, seen, answer, broken>>

\* The call stores what was gathered of content c: c itself, unless that is in
\* doubt.  The new object is store'[key]: Data may be infinite.
Store(u, c) ==
    LET key == job[u].key
    IN  /\ phase[u] = "busy"
        /\ c \in seen[u]
        /\ phase' = [phase EXCEPT ![u] = "stored"]
        /\ store' = [store EXCEPT ![key] = store'[key]]
        /\ IF <<key, c>> \in doubt
           THEN store'[key] \in Data /\ broken' = broken \cup {key}
           ELSE store'[key] = c /\ broken' = broken \ {key}
        /\ doubt' = doubt \ {<<key, c>>}
        /\ UNCHANGED <<source, job, seen, answer>>

Answer(u, a) ==
    /\ phase[u] # "idle"
    /\ a = "ok" => phase[u] = "stored"
    /\ phase' = [phase EXCEPT ![u] = "idle"]
    /\ answer' = [answer EXCEPT ![u] = a]
    /\ UNCHANGED <<source, store, job, seen, doubt, broken>>

\* The source changes: calls that upload it see two contents.
Replace(f, c) ==
    /\ source' = [source EXCEPT ![f] = c]
    /\ seen' = [u \in Uploaders |->
                   IF phase[u] # "idle" /\ job[u].file = f
                   THEN seen[u] \cup {c} ELSE seen[u]]
    /\ UNCHANGED <<store, phase, job, answer, doubt, broken>>

Crash ==
    /\ phase' = [u \in Uploaders |-> "idle"]
    /\ answer' = [u \in Uploaders |-> "none"]
    /\ UNCHANGED <<source, store, job, seen, doubt, broken>>

Next == \/ \E u \in Uploaders : \/ \E f \in Files, k \in Keys : Begin(u, f, k)
                                \/ \E c \in Contents :
                                      Doubt(u, c) \/ Settle(u, c) \/ Store(u, c)
                                \/ \E a \in {"ok", "error"} : Answer(u, a)
        \/ \E f \in Files, c \in Contents : Replace(f, c)
        \/ Crash

Spec == Init /\ [][Next]_vars
=============================================================================
