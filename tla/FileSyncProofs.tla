---------------------------- MODULE FileSyncProofs ----------------------------
(***************************************************************************)
(* Theorems about FileSync, for every set of tasks, runs, sources, targets *)
(* and payloads, and every number of retries, failures and rewrites.       *)
(***************************************************************************)
EXTENDS FileSync, TLAPS

USE FileSyncAssumption

-----------------------------------------------------------------------------
(* Types.                                                                  *)

LEMMA JobType ==
    ASSUME TypeOK, NEW t \in Tasks
    PROVE  /\ job[t].file \in Files /\ job[t].key \in Keys
           /\ job[t].delete \in BOOLEAN /\ job[t].overwrite \in BOOLEAN
  BY DEF TypeOK

LEMMA RunType ==
    ASSUME TypeOK, NEW r \in Runs
    PROVE  /\ task[r] \in Tasks /\ File(r) \in Files /\ Key(r) \in Keys
           /\ Job(r).delete \in BOOLEAN
<1>1. task[r] \in Tasks
  BY DEF TypeOK
<1>2. QED
  BY <1>1, JobType DEF File, Key, Job

LEMMA RetryType ==
    ASSUME TypeOK, NEW T, Retry(T)
    PROVE  /\ queue' \in [Tasks -> {"ready", "active", "done", "archived"}]
           /\ retried' \in [Tasks -> 0 .. MaxRetry]
           /\ \A t \in Tasks : queue'[t] = "done" => queue[t] = "done"
  BY DEF TypeOK, Retry

LEMMA EndType ==
    ASSUME TypeOK, NEW r \in Runs, End(r)
    PROVE  /\ pc' = [pc EXCEPT ![r] = "idle"]
           /\ live' \in [Runs -> BOOLEAN]
           /\ attempt' \in [Runs -> 0 .. LastAttempt]
           /\ held' \in [Runs -> Contents \cup {Gone}]
           /\ delivery' \in [Runs -> Nat]
           /\ stale' \subseteq Runs
           /\ job' = job /\ task' = task
<1>1. 0 \in 0 .. LastAttempt
  BY DEF LastAttempt
<1>2. QED
  BY <1>1 DEF End, Goto, TypeOK

LEMMA EndAllType ==
    ASSUME TypeOK, EndAll
    PROVE  /\ pc' = [r \in Runs |-> "idle"]
           /\ live' \in [Runs -> BOOLEAN]
           /\ attempt' \in [Runs -> 0 .. LastAttempt]
           /\ held' \in [Runs -> Contents \cup {Gone}]
           /\ delivery' \in [Runs -> Nat]
           /\ stale' \subseteq Runs
           /\ job' = job /\ task' = task
<1>1. 0 \in 0 .. LastAttempt
  BY DEF LastAttempt
<1>2. QED
  BY <1>1 DEF EndAll, TypeOK

\* Where the retry of a run's failure leaves the queue.
LEMMA GiveUpType ==
    ASSUME TypeOK, NEW r \in Runs, GiveUp(r)
    PROVE  /\ queue' \in [Tasks -> {"ready", "active", "done", "archived"}]
           /\ retried' \in [Tasks -> 0 .. MaxRetry]
           /\ \A t \in Tasks : queue'[t] = "done" => queue[t] = "done"
<1>1. PICK T : Retry(T)
  BY DEF GiveUp
<1>2. QED
  BY <1>1, RetryType

LEMMA TroubleType ==
    ASSUME TypeOK, NEW r \in Runs, Trouble(r)
    PROVE  faults' \in 0 .. MaxFaults /\ faults <= faults'
  BY DEF TypeOK, Trouble

LEMMA PutTroubleType ==
    ASSUME TypeOK, NEW r \in Runs, PutTrouble(r)
    PROVE  faults' \in 0 .. MaxFaults /\ faults <= faults'
<1>1. CASE UNCHANGED faults
  BY <1>1 DEF TypeOK
<1>2. QED
  BY <1>1, TroubleType DEF PutTrouble

\* The part of the state asynq and the program counters make up.
TasksOK == /\ job \in [Tasks -> Jobs]
           /\ queue \in [Tasks -> {"ready", "active", "done", "archived"}]
           /\ retried \in [Tasks -> 0 .. MaxRetry]
           /\ pc \in [Runs -> RunPCs]
           /\ live \in [Runs -> BOOLEAN]
           /\ faults \in 0 .. MaxFaults
           /\ shutdowns \in 0 .. faults

\* The variables of a run.
RunsOK == /\ task \in [Runs -> Tasks]
          /\ attempt \in [Runs -> 0 .. LastAttempt]
          /\ held \in [Runs -> Contents \cup {Gone}]
          /\ delivery \in [Runs -> Nat]
          /\ stale \subseteq Runs

\* The rest of it.
DataOK == /\ local \in [Files -> Contents \cup {Gone}]
          /\ remote \in [Keys -> Contents \cup {Absent}]
          /\ cache \in [Keys -> Nat \cup {Absent}]
          /\ owed \subseteq Tasks
          /\ delivered \in [Tasks -> Nat]
          /\ puts \in [Tasks -> [Deliveries -> Nat]]
          /\ source \in [Files -> Contents]
          /\ unread \subseteq Files
          /\ outdated \subseteq Keys /\ misled \subseteq Keys
          /\ rewrites \in [Files -> 0 .. MaxRewrites]

LEMMA TypeParts == TypeOK <=> TasksOK /\ RunsOK /\ DataOK
  BY DEF TypeOK, TasksOK, RunsOK, DataOK

LEMMA TypePartsNext == TasksOK' /\ RunsOK' /\ DataOK' => TypeOK'
  BY DEF TypeOK, TasksOK, RunsOK, DataOK

\* An object is only sent by a run that holds one.
HoldsContent == \A r \in Runs : pc[r] \in {"head", "put"} => held[r] \in Contents

LEMMA TypeInit == Init => TypeOK /\ HoldsContent
<1> SUFFICES ASSUME Init PROVE TypeOK /\ HoldsContent
  OBVIOUS
<1>1. TasksOK
  BY DEF Init, TasksOK, RunPCs
<1>2. RunsOK
  BY DEF Init, RunsOK, LastAttempt
<1>3. DataOK
  <2>1. puts \in [Tasks -> [Deliveries -> Nat]]
    BY DEF Init
  <2>2. QED
    BY <2>1 DEF Init, DataOK
<1>4. QED
  BY <1>1, <1>2, <1>3, TypeParts DEF Init, HoldsContent

LEMMA TasksOfRunStep ==
    ASSUME TypeOK, NEW r \in Runs, RunStep(r) \/ Expire(r)
    PROVE  TasksOK'
<1> USE DEF TasksOK, RunPCs, counts, ghosts
<1>0. TasksOK
  BY TypeParts
<1>1. ASSUME NEW label \in RunPCs, Move(r, label), shutdowns' = shutdowns,
             faults' \in 0 .. MaxFaults, faults <= faults'
      PROVE  TasksOK'
  BY <1>0, <1>1 DEF Move, Goto, tasks
<1>2. ASSUME GiveUp(r), shutdowns' = shutdowns, faults' \in 0 .. MaxFaults,
             faults <= faults'
      PROVE  TasksOK'
  <2>1. shutdowns' \in 0 .. faults'
    BY <1>0, <1>2
  <2>2. End(r)
    BY <1>2 DEF GiveUp
  <2>3. QED
    BY <1>0, <1>2, <2>1, <2>2, GiveUpType, EndType
<1>3. CASE Expire(r)
  <2>1. faults' \in 0 .. MaxFaults /\ faults <= faults'
    BY <1>3, TroubleType DEF Expire
  <2>2. /\ queue' \in [Tasks -> {"ready", "active", "done", "archived"}]
        /\ retried' \in [Tasks -> 0 .. MaxRetry]
    BY <1>3, RetryType DEF Expire
  <2>3. QED
    BY <1>0, <1>3, <2>1, <2>2 DEF Expire
<1>4. ASSUME NEW t \in Tasks, Take(r, t)
      PROVE  TasksOK'
  BY <1>0, <1>4 DEF Take, Goto
<1>5. CASE Return(r)
  <2>1. task[r] \in Tasks
    BY RunType
  <2>2. QED
    BY <1>0, <1>5, <2>1, EndType DEF Return
<1>6. CASE Stat(r) \/ Head(r) \/ Open(r) \/ Put(r) \/ Backoff(r) \/ Announce(r)
           \/ Delete(r) \/ Trigger(r)
  <2>1. faults' = faults /\ shutdowns' = shutdowns
    BY <1>6 DEF Stat, Head, Open, Put, Backoff, Announce, Delete, Trigger
  <2>2. GiveUp(r) \/ \E label \in RunPCs : Move(r, label)
    BY <1>6 DEF Stat, Head, Open, Put, Backoff, Announce, Delete, Trigger, GoOn
  <2>3. QED
    BY <1>0, <2>1, <2>2, <1>1, <1>2
<1>7. CASE HeadFails(r) \/ PutFails(r) \/ AnnounceFails(r) \/ DeleteFails(r)
           \/ TriggerFails(r)
  <2>1. faults' \in 0 .. MaxFaults /\ faults <= faults' /\ shutdowns' = shutdowns
    BY <1>7, TroubleType, PutTroubleType
       DEF HeadFails, PutFails, AnnounceFails, DeleteFails, TriggerFails
  <2>2. GiveUp(r) \/ \E label \in RunPCs : Move(r, label)
    BY <1>7 DEF HeadFails, PutFails, AnnounceFails, DeleteFails, TriggerFails,
                GoOn
  <2>3. QED
    BY <2>1, <2>2, <1>1, <1>2
<1>8. QED
  BY <1>3, <1>4, <1>5, <1>6, <1>7 DEF RunStep

LEMMA RunsOfRunStep ==
    ASSUME TypeOK, NEW r \in Runs, RunStep(r) \/ Expire(r)
    PROVE  RunsOK'
<1> USE DEF RunsOK
<1>0. RunsOK
  BY TypeParts
<1>1. ASSUME NEW label, GoOn(r, label)
      PROVE  RunsOK'
  BY <1>0, <1>1 DEF GoOn, Move
<1>2. ASSUME End(r)
      PROVE  RunsOK'
  BY <1>0, <1>2, EndType
<1>3. CASE Expire(r)
  BY <1>0, <1>3 DEF Expire
<1>4. ASSUME NEW t \in Tasks, Take(r, t)
      PROVE  RunsOK'
  BY <1>0, <1>4 DEF Take, TypeOK
<1>5. CASE Stat(r) \/ Open(r)
  <2>1. local[File(r)] \in Contents \cup {Gone}
    BY RunType DEF TypeOK
  <2>2. QED
    BY <1>0, <1>2, <1>5, <2>1 DEF Stat, Open, Move, GiveUp
<1>6. CASE PutFails(r)
  <2>1. ASSUME NEW e \in Errors, IsRetryableError(e), attempt[r] < RetryCount
        PROVE  attempt[r] + 1 \in 0 .. LastAttempt
    <3>1. LastAttempt = RetryCount /\ attempt[r] \in Nat
      BY <1>0, <2>1 DEF LastAttempt, Errors, IsRetryableError
    <3>2. QED
      BY <2>1, <3>1
  <2>2. \/ End(r)
        \/ /\ UNCHANGED <<task, delivery>>
           /\ held' = [held EXCEPT ![r] = Gone] /\ stale' \subseteq Runs
           /\ attempt[r] + 1 \in 0 .. LastAttempt
           /\ attempt' = [attempt EXCEPT ![r] = @ + 1]
    BY <1>0, <1>6, <2>1 DEF PutFails, Move, GiveUp
  <2>3. QED
    BY <1>0, <1>2, <2>2
<1>7. QED
  BY <1>1, <1>2, <1>3, <1>4, <1>5, <1>6 DEF RunStep, Head, HeadFails, Put,
     Backoff, Announce, AnnounceFails, Delete, DeleteFails, Trigger,
     TriggerFails, Return, GiveUp

LEMMA DataOfRunStep ==
    ASSUME TypeOK, HoldsContent, NEW r \in Runs, RunStep(r) \/ Expire(r)
    PROVE  DataOK'
<1> USE DEF DataOK, world, ghosts, counts, marks
<1>0. DataOK
  BY TypeParts
<1>1. task[r] \in Tasks /\ File(r) \in Files /\ Key(r) \in Keys
  BY RunType
<1>2. CASE Expire(r)
  BY <1>0, <1>2 DEF Expire
<1>3. ASSUME NEW t \in Tasks, Take(r, t)
      PROVE  DataOK'
  BY <1>0, <1>3 DEF Take
<1>4. CASE Return(r) \/ Stat(r)
  BY <1>0, <1>4 DEF Return, Stat
<1>5. CASE Open(r)
  <2>0. /\ puts \in [Tasks -> [Deliveries -> Nat]]
        /\ \/ puts' = puts
           \/ puts' = [puts EXCEPT ![task[r]][delivery[r]] = @ + 1]
    BY <1>0, <1>5 DEF Open
  <2>1. puts' \in [Tasks -> [Deliveries -> Nat]]
    BY <1>1, <2>0
  <2>2. QED
    BY <1>0, <1>5, <2>1 DEF Open
<1>6. CASE Head(r) \/ HeadFails(r) \/ Backoff(r) \/ AnnounceFails(r)
           \/ DeleteFails(r) \/ TriggerFails(r)
  BY <1>0, <1>6 DEF Head, HeadFails, Backoff, AnnounceFails, DeleteFails,
                    TriggerFails, Unannounced
<1>7. CASE Put(r) \/ PutFails(r)
  <2>1. held[r] \in Contents
    BY <1>7 DEF HoldsContent, Put, PutFails
  <2>2. UNCHANGED <<remote, outdated>> \/ Stores(r)
    BY <1>7 DEF Put, PutFails
  <2>3. remote' \in [Keys -> Contents \cup {Absent}] /\ outdated' \subseteq Keys
    BY <1>0, <1>1, <2>1, <2>2 DEF Stores
  <2>4. owed' \subseteq Tasks /\ misled' \subseteq Keys
    BY <1>0, <1>1, <1>7 DEF Put, PutFails, Unannounced
  <2>5. QED
    BY <1>0, <1>7, <2>3, <2>4 DEF Put, PutFails
<1>8. CASE Announce(r)
  <2>1. cache' \in [Keys -> Nat \cup {Absent}] /\ misled' \subseteq Keys
    BY <1>0, <1>1, <1>8 DEF Announce, Unannounced
  <2>2. QED
    BY <1>0, <1>8, <2>1 DEF Announce
<1>9. CASE Delete(r)
  BY <1>0, <1>1, <1>9 DEF Delete
<1>10. CASE Trigger(r)
  BY <1>0, <1>1, <1>10 DEF Trigger
<1>11. QED
  BY <1>2, <1>3, <1>4, <1>5, <1>6, <1>7, <1>8, <1>9, <1>10 DEF RunStep

LEMMA TypeNext == TypeOK /\ HoldsContent /\ [Next]_vars => TypeOK'
<1> SUFFICES ASSUME TypeOK, HoldsContent, [Next]_vars PROVE TypeOK'
  OBVIOUS
<1>0. TasksOK /\ RunsOK /\ DataOK
  BY TypeParts
<1>1. ASSUME NEW r \in Runs, RunStep(r) \/ Expire(r)
      PROVE  TypeOK'
  BY <1>1, TasksOfRunStep, RunsOfRunStep, DataOfRunStep, TypePartsNext
<1>2. ASSUME NEW f \in Files, NEW c \in Contents, Rewrite(f, c)
      PROVE  TypeOK'
  <2>1. TasksOK' /\ RunsOK'
    BY <1>0, <1>2 DEF Rewrite, TasksOK, RunsOK, tasks, counts
  <2>2. DataOK'
    BY <1>0, <1>2 DEF Rewrite, DataOK, counts
  <2>3. QED
    BY <2>1, <2>2, TypePartsNext
<1>3. CASE Crash
  <2>1. /\ queue' \in [Tasks -> {"ready", "active", "done", "archived"}]
        /\ retried' \in [Tasks -> 0 .. MaxRetry]
    BY <1>3, RetryType DEF Crash
  <2>2. TasksOK'
    BY <1>0, <1>3, <2>1, EndAllType DEF Crash, TasksOK, RunPCs, ghosts, counts
  <2>3. DataOK' /\ RunsOK'
    BY <1>0, <1>3, EndAllType DEF Crash, DataOK, RunsOK, world, ghosts, counts,
                                     Unannounced
  <2>4. QED
    BY <2>2, <2>3, TypePartsNext
<1>4. CASE Shutdown
  <2>1. TasksOK'
    BY <1>0, <1>4, EndAllType DEF Shutdown, TasksOK, RunPCs
  <2>2. DataOK' /\ RunsOK'
    BY <1>0, <1>4, EndAllType DEF Shutdown, DataOK, RunsOK, world, Unannounced
  <2>3. QED
    BY <2>1, <2>2, TypePartsNext
<1>5. CASE UNCHANGED vars
  BY <1>5 DEF vars, tasks, world, run, ghosts, marks, counts, TypeOK
<1>6. QED
  BY <1>1, <1>2, <1>3, <1>4, <1>5 DEF Next

-----------------------------------------------------------------------------
(* What a step does.                                                       *)

\* The other runs stay where they are; only the daemon's end stops them.
LEMMA RunMoves ==
    ASSUME TypeOK, [Next]_vars, NEW r \in Runs
    PROVE  \/ RunStep(r)
           \/ pc'[r] = "idle"
           \/ /\ pc'[r] = pc[r] /\ task'[r] = task[r] /\ held'[r] = held[r]
              /\ r \in stale => r \in stale'
<1> DEFINE Kept == /\ pc'[r] = pc[r] /\ task'[r] = task[r] /\ held'[r] = held[r]
                   /\ r \in stale => r \in stale'
<1>1. ASSUME NEW q \in Runs, q # r, RunStep(q)
      PROVE  Kept
  <2>1. CASE End(q)
    BY <1>1, <2>1 DEF End, Goto, TypeOK
  <2>2. ASSUME NEW t \in Tasks, Take(q, t)
        PROVE  Kept
    BY <1>1, <2>2 DEF Take, Goto, TypeOK
  <2>3. ASSUME NEW label, Move(q, label), \E h : held' = [held EXCEPT ![q] = h]
        PROVE  Kept
    BY <1>1, <2>3 DEF Move, Goto, TypeOK
  <2>4. CASE Stat(q) \/ Open(q) \/ PutFails(q)
    BY <2>1, <2>3, <2>4 DEF Stat, Open, PutFails, GiveUp
  <2>5. CASE Return(q) \/ HeadFails(q)
    BY <2>1, <2>5 DEF Return, HeadFails, GiveUp
  <2>6. CASE Head(q) \/ Put(q) \/ Backoff(q) \/ Announce(q) \/ AnnounceFails(q)
             \/ Delete(q) \/ DeleteFails(q) \/ Trigger(q) \/ TriggerFails(q)
    BY <2>1, <2>3, <2>6 DEF Head, Put, Backoff, Announce, AnnounceFails, Delete,
                            DeleteFails, Trigger, TriggerFails, GoOn, GiveUp
  <2>7. QED
    BY <1>1, <2>2, <2>4, <2>5, <2>6 DEF RunStep
<1>2. ASSUME NEW q \in Runs, Expire(q)
      PROVE  Kept
  BY <1>2 DEF Expire
<1>3. ASSUME NEW f \in Files, NEW c \in Contents, Rewrite(f, c)
      PROVE  Kept
  BY <1>3 DEF Rewrite
<1>4. CASE Crash \/ Shutdown
  BY <1>4 DEF Crash, Shutdown, EndAll
<1>5. CASE UNCHANGED vars
  BY <1>5 DEF vars, run
<1>6. QED
  BY <1>1, <1>2, <1>3, <1>4, <1>5 DEF Next

\* Where what a run stores is announced next, or counts as unannounced.
ToldOrMisled(r) == \/ pc'[r] = "announce" /\ task'[r] = task[r]
                   \/ cache[Key(r)] # Absent => Key(r) \in misled'

\* Who changes the payloads, the storage, the sources, the cache and the marks.
LEMMA Effects ==
    ASSUME TypeOK, [Next]_vars
    PROVE  /\ job' = job
           /\ \/ UNCHANGED <<remote, outdated>>
              \/ \E r \in Runs : /\ pc[r] = "put" /\ Stores(r) /\ cache' = cache
                                 /\ ToldOrMisled(r)
           /\ \/ UNCHANGED <<source, rewrites>> /\ stale' \subseteq stale
              \/ \E f \in Files, c \in Contents : Rewrite(f, c)
           /\ \/ UNCHANGED <<local, unread>>
              \/ \E r \in Runs : Delete(r)
              \/ \E f \in Files, c \in Contents : Rewrite(f, c)
           /\ \/ cache' = cache /\ misled \subseteq misled'
              \/ \E r \in Runs : Announce(r)
<1>1. ASSUME NEW r \in Runs, RunStep(r) \/ Expire(r)
      PROVE  /\ job' = job
             /\ UNCHANGED <<source, rewrites>> /\ stale' \subseteq stale
             /\ \/ UNCHANGED <<remote, outdated>>
                \/ pc[r] = "put" /\ Stores(r) /\ cache' = cache /\ ToldOrMisled(r)
             /\ UNCHANGED <<local, unread>> \/ Delete(r)
             /\ \/ cache' = cache /\ misled \subseteq misled'
                \/ Announce(r)
  <2> USE DEF world, ghosts, marks, tasks
  <2>1. CASE (\E t \in Tasks : Take(r, t)) \/ Expire(r) \/ Return(r)
    BY <2>1 DEF Take, Expire, Return, End
  <2>2. CASE Put(r)
    BY <2>2 DEF Put, GoOn, Move, Goto, ToldOrMisled, TypeOK
  <2>3. CASE PutFails(r)
    <3>1. /\ job' = job /\ UNCHANGED <<source, rewrites>> /\ stale' \subseteq stale
          /\ UNCHANGED <<local, unread, cache>> /\ pc[r] = "put"
      BY <2>3 DEF PutFails, Move, GiveUp, End
    <3>2. \/ UNCHANGED <<remote, outdated, misled>>
          \/ Stores(r) /\ Unannounced({r})
      BY <2>3 DEF PutFails
    <3>3. Key(r) \in Keys
      BY RunType
    <3>4. QED
      BY <3>1, <3>2, <3>3 DEF Unannounced, ToldOrMisled
  <2>4. CASE Stat(r) \/ Head(r) \/ HeadFails(r) \/ Open(r) \/ Backoff(r)
    BY <2>4 DEF Stat, Head, HeadFails, Open, Backoff, GoOn, Move, GiveUp, End
  <2>5. CASE Announce(r) \/ AnnounceFails(r) \/ Delete(r) \/ DeleteFails(r)
             \/ Trigger(r) \/ TriggerFails(r)
    BY <2>5 DEF Announce, AnnounceFails, Delete, DeleteFails, Trigger,
                TriggerFails, GoOn, Move, Unannounced
  <2>6. QED
    BY <1>1, <2>1, <2>2, <2>3, <2>4, <2>5 DEF RunStep
<1>2. ASSUME NEW f \in Files, NEW c \in Contents, Rewrite(f, c)
      PROVE  /\ job' = job /\ cache' = cache /\ misled' = misled
             /\ UNCHANGED <<remote, outdated>>
  BY <1>2 DEF Rewrite, tasks
<1>3. CASE Crash \/ Shutdown
  BY <1>3 DEF Crash, Shutdown, EndAll, world, ghosts, Unannounced
<1>4. CASE UNCHANGED vars
  BY <1>4 DEF vars, tasks, world, run, ghosts, marks
<1>5. QED
  BY <1>1, <1>2, <1>3, <1>4 DEF Next

-----------------------------------------------------------------------------
(* The inductive invariant.                                                *)

\* Nothing but this task's source writes its target, and no older version of it
\* was written there last.
Current(t) == Alone(t) /\ job[t].key \notin outdated

\* A source that is there is the last its producer wrote.
LocalIsSource == \A f \in Files : local[f] \in {Gone, source[f]}

\* Only a rewritten source makes a run stale, or its target outdated.
StaleIsRewritten ==
    /\ \A r \in stale : pc[r] \in Relying /\ rewrites[File(r)] # 0
    /\ \A k \in outdated : \E t \in Tasks : job[t].key = k /\ rewrites[job[t].file] # 0

\* What a run compares or uploads is its source, unless the run is stale.
HeldIsSource == \A r \in Runs \ stale :
    pc[r] \in {"head", "put"} => held[r] = source[File(r)]

\* A run that is past the upload or its skip, and not yet past the removal, left
\* its source in the storage.
PastIsStored == \A r \in Runs \ stale :
    pc[r] \in {"announce", "delete"} /\ Current(task[r]) => Stored(task[r])

\* Later it still is there, unless the source changed.
EndIsStored == \A r \in Runs :
    pc[r] \in {"trigger", "return"} /\ Apart(task[r]) => Stored(task[r])

\* NothingLost, in the terms of this module.
LostNothing ==
    \A f \in Files : local[f] = Gone =>
        \E t \in Tasks : /\ job[t].file = f /\ job[t].delete
                         /\ f \notin unread /\ Current(t) => Stored(t)

IInv == /\ TypeOK
        /\ HoldsContent
        /\ LocalIsSource
        /\ StaleIsRewritten
        /\ HeldIsSource
        /\ PastIsStored
        /\ EndIsStored
        /\ DoneIsStored
        /\ LostNothing
        /\ AnnouncedIsStored

LEMMA InitIInv == Init => IInv
<1> SUFFICES ASSUME Init PROVE IInv
  OBVIOUS
<1>1. TypeOK /\ HoldsContent
  BY TypeInit
<1>2. \A f \in Files : local[f] # Gone
  BY DEF Init
<1>3. \A t \in Tasks : job[t].key \in Keys
  BY <1>1, JobType
<1>4. LocalIsSource /\ StaleIsRewritten /\ HeldIsSource
  BY DEF Init, LocalIsSource, HeldIsSource, StaleIsRewritten
<1>5. PastIsStored /\ EndIsStored
  BY DEF Init, PastIsStored, EndIsStored
<1>6. DoneIsStored /\ LostNothing /\ AnnouncedIsStored
  BY <1>2, <1>3 DEF Init, DoneIsStored, LostNothing, AnnouncedIsStored
<1>7. QED
  BY <1>1, <1>4, <1>5, <1>6 DEF IInv

\* The source of a run that relies on it and is not stale is not replaced.
LEMMA SourceKept ==
    ASSUME TypeOK, [Next]_vars, NEW r \in Runs, pc[r] \in Relying, r \notin stale'
    PROVE  source'[File(r)] = source[File(r)]
<1>1. CASE UNCHANGED <<source, rewrites>>
  BY <1>1
<1>2. ASSUME NEW f \in Files, NEW c \in Contents, Rewrite(f, c)
      PROVE  source'[File(r)] = source[File(r)]
  <2>1. File(r) \in Files
    BY RunType
  <2>2. File(r) # f
    BY <1>2 DEF Rewrite
  <2>3. QED
    BY <1>2, <2>1, <2>2 DEF Rewrite, TypeOK
<1>3. QED
  BY <1>1, <1>2, Effects

\* A source that was ever rewritten stays so.
LEMMA RewritesKept ==
    ASSUME TypeOK, [Next]_vars, NEW f \in Files, rewrites[f] # 0
    PROVE  rewrites'[f] # 0
<1>1. ASSUME NEW g \in Files, NEW c \in Contents, Rewrite(g, c)
      PROVE  rewrites'[f] # 0
  BY <1>1 DEF Rewrite, TypeOK
<1>2. QED
  BY <1>1, Effects

\* A task whose source stays apart was apart before, with the same source.
LEMMA ApartKept ==
    ASSUME TypeOK, [Next]_vars, NEW t \in Tasks, Apart(t)'
    PROVE  Apart(t) /\ source'[job[t].file] = source[job[t].file]
<1>1. job' = job
  BY Effects
<1>2. CASE UNCHANGED <<source, rewrites>>
  BY <1>1, <1>2 DEF Apart, Alone
<1>3. ASSUME NEW f \in Files, NEW c \in Contents, Rewrite(f, c)
      PROVE  Apart(t) /\ source'[job[t].file] = source[job[t].file]
  <2>1. job[t].file \in Files /\ rewrites[f] \in Nat
    BY JobType DEF TypeOK
  <2>2. job[t].file # f
    BY <1>1, <1>3, <2>1 DEF Rewrite, Apart, TypeOK
  <2>3. QED
    BY <1>1, <1>3, <2>1, <2>2 DEF Rewrite, Apart, Alone, TypeOK
<1>4. QED
  BY <1>2, <1>3, Effects

LEMMA ApartIsCurrent ==
    ASSUME StaleIsRewritten, NEW t \in Tasks, Apart(t)
    PROVE  Current(t) /\ \A r \in stale : File(r) # job[t].file
  BY DEF StaleIsRewritten, Apart, Current, Alone

\* A run becomes stale by a rewrite of its source, and a target outdated by the
\* upload of a stale run.
LEMMA StaleNext ==
    ASSUME IInv, [Next]_vars
    PROVE  StaleIsRewritten'
<1>0. TypeOK /\ TypeOK' /\ job' = job
  BY TypeNext, Effects DEF IInv
<1>1. ASSUME NEW r \in stale'
      PROVE  pc'[r] \in Relying /\ rewrites'[File(r)'] # 0
  <2>0. r \in Runs /\ File(r) \in Files
    BY <1>0, <1>1, RunType DEF TypeOK
  <2>1. CASE r \in stale
    <3>1. pc[r] \in Relying /\ rewrites[File(r)] # 0
      BY <2>1 DEF IInv, StaleIsRewritten
    <3>2. rewrites'[File(r)] # 0
      BY <1>0, <2>0, <3>1, RewritesKept
    <3>3. CASE pc'[r] = pc[r] /\ task'[r] = task[r]
      BY <1>0, <3>1, <3>2, <3>3 DEF File, Job
    <3>4. CASE RunStep(r)
      <4>1. ~End(r) /\ pc[r] # "idle"
        BY <1>1, <3>1 DEF End, Relying
      <4>2. ~\E t \in Tasks : Take(r, t)
        BY <4>1 DEF Take
      <4>3. \E label \in Relying : Move(r, label)
        <5>1. ASSUME NEW label, label \notin Relying, Move(r, label)
              PROVE  FALSE
          BY <1>1, <5>1 DEF Move
        <5>2. \E label : Move(r, label)
          BY <3>4, <4>1, <4>2 DEF RunStep, Stat, Head, HeadFails, Open, Put,
             PutFails, Backoff, Announce, AnnounceFails, Delete, DeleteFails,
             Trigger, TriggerFails, Return, GoOn, GiveUp
        <5>3. QED
          BY <5>1, <5>2
      <4>4. pc'[r] \in Relying /\ task' = task
        BY <1>0, <2>0, <4>3 DEF Move, Goto, TypeOK
      <4>5. QED
        BY <1>0, <3>2, <4>4 DEF File, Job
    <3>5. CASE pc'[r] = "idle" /\ ~RunStep(r)
      <4>1. CASE Crash \/ Shutdown
        BY <1>1, <4>1 DEF Crash, Shutdown, EndAll
      <4>2. ASSUME NEW q \in Runs, q # r, RunStep(q)
            PROVE  FALSE
        <5>1. pc'[r] = pc[r]
          <6>1. CASE End(q)
            BY <1>0, <2>0, <4>2, <6>1 DEF End, Goto, TypeOK
          <6>2. CASE \E t \in Tasks : Take(q, t)
            BY <1>0, <2>0, <4>2, <6>2 DEF Take, Goto, TypeOK
          <6>3. CASE \E label : Move(q, label)
            BY <1>0, <2>0, <4>2, <6>3 DEF Move, Goto, TypeOK
          <6>4. QED
            BY <4>2, <6>1, <6>2, <6>3 DEF RunStep, Stat, Head, HeadFails, Open,
               Put, PutFails, Backoff, Announce, AnnounceFails, Delete,
               DeleteFails, Trigger, TriggerFails, Return, GoOn, GiveUp
        <5>2. QED
          BY <3>1, <3>5, <5>1 DEF Relying
      <4>3. ASSUME \/ \E q \in Runs : Expire(q)
                   \/ \E f \in Files, c \in Contents : Rewrite(f, c)
                   \/ UNCHANGED vars
            PROVE  FALSE
        <5>1. pc' = pc
          BY <4>3 DEF Expire, Rewrite, vars, run
        <5>2. QED
          BY <3>1, <3>5, <5>1 DEF Relying
      <4>4. QED
        BY <3>5, <4>1, <4>2, <4>3 DEF Next
    <3>6. QED
      BY <1>0, <2>0, <3>3, <3>4, <3>5, RunMoves
  <2>2. CASE r \notin stale
    <3>1. PICK f \in Files, c \in Contents : Rewrite(f, c)
      BY <1>0, <1>1, <2>2, Effects
    <3>2. /\ pc[r] \in Relying /\ File(r) = f /\ UNCHANGED <<pc, task>>
          /\ rewrites' = [rewrites EXCEPT ![f] = @ + 1]
      BY <1>1, <2>2, <3>1 DEF Rewrite
    <3>3. rewrites'[f] # 0
      BY <1>0, <3>2 DEF TypeOK
    <3>4. QED
      BY <1>0, <3>2, <3>3 DEF File, Job
  <2>3. QED
    BY <2>1, <2>2
<1>2. ASSUME NEW k \in outdated'
      PROVE  \E t \in Tasks : job[t].key = k /\ rewrites'[job[t].file] # 0
  <2>1. ASSUME NEW t \in Tasks, job[t].key = k, rewrites[job[t].file] # 0
        PROVE  rewrites'[job[t].file] # 0
    BY <1>0, <2>1, JobType, RewritesKept
  <2>2. CASE k \in outdated
    BY <2>1, <2>2 DEF IInv, StaleIsRewritten
  <2>3. CASE k \notin outdated
    <3>1. PICK r \in Runs : Stores(r)
      BY <1>0, <1>2, <2>3, Effects
    <3>2. r \in stale /\ k = Key(r) /\ task[r] \in Tasks
      BY <1>0, <1>2, <2>3, <3>1, RunType DEF Stores
    <3>3. rewrites[File(r)] # 0
      BY <3>2 DEF IInv, StaleIsRewritten
    <3>4. QED
      BY <2>1, <3>2, <3>3 DEF File, Key, Job
  <2>4. QED
    BY <2>2, <2>3
<1>3. QED
  BY <1>0, <1>1, <1>2 DEF StaleIsRewritten

\* Of a current task, what was stored stays stored; a target that is cured just
\* got the source.
LEMMA StoredNext ==
    ASSUME IInv, [Next]_vars, NEW t \in Tasks, Current(t)', Current(t) => Stored(t),
           source'[job[t].file] = source[job[t].file]
    PROVE  Stored(t)'
<1>1. job' = job /\ TypeOK /\ job[t].key \in Keys
  BY Effects, JobType DEF IInv
<1>2. CASE UNCHANGED <<remote, outdated>>
  BY <1>1, <1>2 DEF Stored, Current, Alone
<1>3. ASSUME NEW r \in Runs, pc[r] = "put", Stores(r)
      PROVE  Stored(t)'
  <2>1. CASE job[t].key = Key(r)
    <3>1. task[r] \in Tasks /\ r \notin stale
      BY <1>1, <1>3, <2>1, RunType DEF Stores, Current
    <3>2. File(r) = job[t].file
      BY <1>1, <2>1, <3>1 DEF Current, Alone, File, Key, Job
    <3>3. held[r] = source[job[t].file] /\ held[r] \in Contents
      BY <1>3, <3>1, <3>2 DEF IInv, HeldIsSource, HoldsContent
    <3>4. remote'[job[t].key] = source[job[t].file]
      BY <1>1, <1>3, <2>1, <3>3 DEF Stores, TypeOK
    <3>5. QED
      BY <1>1, <3>3, <3>4 DEF Stored
  <2>2. CASE job[t].key # Key(r)
    <3>1. remote'[job[t].key] = remote[job[t].key]
      BY <1>1, <1>3, <2>2 DEF Stores, TypeOK
    <3>2. Current(t)
      BY <1>1, <1>3, <2>2 DEF Stores, Current, Alone
    <3>3. QED
      BY <1>1, <3>1, <3>2 DEF Stored
  <2>3. QED
    BY <2>1, <2>2
<1>4. QED
  BY <1>1, <1>2, <1>3, Effects

\* The same for a source that never changed.
LEMMA ApartStoredKept ==
    ASSUME IInv, [Next]_vars, NEW t \in Tasks, Apart(t)', Stored(t)
    PROVE  Stored(t)'
<1>1. Current(t)'
  <2>1. job' = job
    BY Effects DEF IInv
  <2>2. \A k \in outdated' : \E u \in Tasks :
            job[u].key = k /\ rewrites'[job[u].file] # 0
    BY <2>1, StaleNext DEF StaleIsRewritten
  <2>3. QED
    BY <2>1, <2>2 DEF Apart, Current, Alone
<1>2. source'[job[t].file] = source[job[t].file]
  BY ApartKept DEF IInv
<1>3. QED
  BY <1>1, <1>2, StoredNext

LEMMA LocalNext ==
    ASSUME IInv, [Next]_vars
    PROVE  LocalIsSource'
<1> SUFFICES ASSUME NEW g \in Files
             PROVE  local'[g] \in {Gone, source'[g]}
  BY DEF LocalIsSource
<1>0. local[g] \in {Gone, source[g]} /\ TypeOK
  BY DEF IInv, LocalIsSource
<1>1. ASSUME NEW f \in Files, NEW c \in Contents, Rewrite(f, c)
      PROVE  local'[g] \in {Gone, source'[g]}
  BY <1>0, <1>1 DEF Rewrite, TypeOK
<1>2. CASE UNCHANGED <<source, rewrites>>
  <2>1. CASE local' = local
    BY <1>0, <1>2, <2>1
  <2>2. ASSUME NEW r \in Runs, Delete(r)
        PROVE  local'[g] \in {Gone, source'[g]}
    BY <1>0, <1>2, <2>2 DEF Delete, TypeOK
  <2>3. QED
    BY <1>0, <1>1, <2>1, <2>2, Effects
<1>3. QED
  BY <1>0, <1>1, <1>2, Effects

\* A run about to compare or to upload has just read its source.
LEMMA HeldNext ==
    ASSUME IInv, [Next]_vars
    PROVE  HoldsContent' /\ HeldIsSource'
<1>0. TypeOK
  BY DEF IInv
<1>1. TypeOK' /\ job' = job
  BY <1>0, TypeNext, Effects DEF IInv
<1> SUFFICES ASSUME NEW r \in Runs, pc'[r] \in {"head", "put"}
             PROVE  /\ held'[r] \in Contents
                    /\ r \notin stale' => held'[r] = source'[File(r)']
  BY DEF HoldsContent, HeldIsSource
<1>2. CASE /\ pc'[r] = pc[r] /\ task'[r] = task[r] /\ held'[r] = held[r]
           /\ r \in stale => r \in stale'
  <2>1. held[r] \in Contents
    BY <1>2 DEF IInv, HoldsContent
  <2>2. File(r)' = File(r) /\ File(r) \in Files
    BY <1>0, <1>1, <1>2, RunType DEF File, Job
  <2>3. r \notin stale' => held[r] = source[File(r)]
    BY <1>2 DEF IInv, HeldIsSource
  <2>4. pc[r] \in Relying
    BY <1>2 DEF Relying
  <2>5. QED
    BY <1>0, <1>2, <2>1, <2>2, <2>3, <2>4, SourceKept
<1>3. CASE RunStep(r)
  <2>1. Stat(r) \/ Open(r)
    <3>1. pc[r] \in RunPCs /\ pc \in [Runs -> RunPCs]
      BY <1>0 DEF TypeOK
    <3>2. CASE End(r)
      BY <3>1, <3>2 DEF End, Goto
    <3>3. CASE \E t \in Tasks : Take(r, t)
      BY <3>1, <3>3 DEF Take, Goto
    <3>4. ASSUME NEW label \in RunPCs \ {"head", "put"}, Move(r, label)
          PROVE  FALSE
      BY <3>1, <3>4 DEF Move, Goto
    <3>5. QED
      BY <1>3, <3>2, <3>3, <3>4 DEF RunStep, Head, HeadFails, Put, PutFails,
         Backoff, Announce, AnnounceFails, Delete, DeleteFails, Trigger,
         TriggerFails, Return, GoOn, GiveUp, RunPCs
  <2>2. CASE End(r)
    BY <1>0, <2>2 DEF End, Goto, TypeOK
  <2>3. CASE ~End(r)
    <3>1. /\ local[File(r)] # Gone /\ held'[r] = local[File(r)]
          /\ UNCHANGED <<source, task>>
      BY <1>0, <2>1, <2>3 DEF Stat, Open, Move, GiveUp, TypeOK, ghosts
    <3>2. File(r)' = File(r) /\ File(r) \in Files
      BY <1>0, <1>1, <3>1, RunType DEF File, Job
    <3>3. local[File(r)] = source[File(r)] /\ source[File(r)] \in Contents
      BY <1>0, <3>1, <3>2 DEF IInv, LocalIsSource, TypeOK
    <3>4. QED
      BY <3>1, <3>2, <3>3
  <2>4. QED
    BY <2>2, <2>3
<1>4. CASE pc'[r] = "idle"
  BY <1>4
<1>5. QED
  BY <1>0, <1>2, <1>3, <1>4, RunMoves

\* Where the step of a run that is past the upload comes from.
LEMMA PastComes ==
    ASSUME TypeOK, NEW r \in Runs, RunStep(r),
           pc'[r] \in {"announce", "delete", "trigger", "return"}
    PROVE  /\ task'[r] = task[r]
           /\ UNCHANGED <<source, rewrites>>
           /\ pc'[r] \in {"announce", "delete"} => stale' = stale
           /\ \/ pc[r] = "put" /\ Stores(r) /\ pc'[r] = "announce"
              \/ pc[r] = "head" /\ SameSize(r) /\ pc'[r] = "delete"
              \/ pc[r] = "announce" /\ pc'[r] = "delete"
              \/ pc[r] = "delete" /\ pc'[r] = "trigger"
              \/ pc[r] = "trigger" /\ pc'[r] = "return"
<1> USE DEF TypeOK, Goto, ghosts, Relying
<1>1. ~End(r) /\ \A t \in Tasks : ~Take(r, t)
  BY DEF End, Take
<1>2. ~Stat(r) /\ ~Open(r) /\ ~Backoff(r) /\ ~HeadFails(r) /\ ~Return(r)
  BY <1>1 DEF Stat, Open, Backoff, HeadFails, Return, GiveUp, GoOn, Move
<1>3. CASE Put(r) \/ PutFails(r)
  BY <1>1, <1>3 DEF Put, PutFails, GoOn, Move, GiveUp
<1>4. CASE Head(r)
  BY <1>4 DEF Head, GoOn, Move
<1>5. CASE Announce(r) \/ AnnounceFails(r) \/ Delete(r) \/ DeleteFails(r)
           \/ Trigger(r) \/ TriggerFails(r)
  BY <1>5 DEF Announce, AnnounceFails, Delete, DeleteFails, Trigger,
              TriggerFails, GoOn, Move
<1>6. QED
  BY <1>1, <1>2, <1>3, <1>4, <1>5 DEF RunStep

\* A run gets past the upload by storing its source or by finding its size.
LEMMA PastNext ==
    ASSUME IInv, [Next]_vars
    PROVE  PastIsStored'
<1>0. TypeOK
  BY DEF IInv
<1>1. TypeOK' /\ job' = job
  BY <1>0, TypeNext, Effects DEF IInv
<1> SUFFICES ASSUME NEW r \in Runs, r \notin stale', pc'[r] \in {"announce", "delete"},
                    Current(task[r])'
             PROVE  Stored(task[r])'
  BY DEF PastIsStored
<1>2. PICK t \in Tasks : t = task[r]
  BY <1>0 DEF TypeOK
<1>3. ASSUME task'[r] = task[r], Current(t) => Stored(t),
             source'[job[t].file] = source[job[t].file]
      PROVE  Stored(task[r])'
  <2>1. Current(t)'
    BY <1>2, <1>3 DEF Current, Alone
  <2>2. Stored(t)'
    BY <1>3, <2>1, StoredNext
  <2>3. QED
    BY <1>2, <1>3, <2>2 DEF Stored
<1>4. CASE RunStep(r)
  <2>1. /\ task'[r] = task[r] /\ UNCHANGED source /\ r \notin stale
        /\ \/ pc[r] = "put" /\ Stores(r)
           \/ pc[r] = "head" /\ SameSize(r)
           \/ pc[r] = "announce"
    BY <1>0, <1>4, PastComes
  <2>2. CASE pc[r] = "put" /\ Stores(r)
    <3>1. held[r] = source[File(r)] /\ held[r] \in Contents /\ Key(r) \in Keys
      BY <1>0, <2>1, <2>2, RunType DEF IInv, HeldIsSource, HoldsContent
    <3>2. remote'[Key(r)] = source[File(r)]
      BY <1>0, <2>2, <3>1 DEF Stores, TypeOK
    <3>3. QED
      BY <1>1, <2>1, <3>1, <3>2 DEF Stored, File, Key, Job
  <2>3. CASE pc[r] = "head" /\ SameSize(r)
    <3>1. held[r] = source[File(r)]
      BY <2>1, <2>3 DEF IInv, HeldIsSource
    <3>2. Stored(t)
      BY <1>2, <2>3, <3>1 DEF SameSize, Stored, File, Key, Job
    <3>3. QED
      BY <1>3, <2>1, <3>2
  <2>4. CASE pc[r] = "announce"
    <3>1. Current(t) => Stored(t)
      BY <1>2, <2>1, <2>4 DEF IInv, PastIsStored
    <3>2. QED
      BY <1>3, <2>1, <3>1
  <2>5. QED
    BY <2>1, <2>2, <2>3, <2>4
<1>5. CASE /\ pc'[r] = pc[r] /\ task'[r] = task[r]
           /\ r \in stale => r \in stale'
  <2>1. Current(t) => Stored(t)
    BY <1>2, <1>5 DEF IInv, PastIsStored
  <2>2. source'[job[t].file] = source[job[t].file]
    BY <1>0, <1>2, <1>5, SourceKept DEF Relying, File, Job
  <2>3. QED
    BY <1>3, <1>5, <2>1, <2>2
<1>6. CASE pc'[r] = "idle"
  BY <1>6
<1>7. QED
  BY <1>0, <1>4, <1>5, <1>6, RunMoves

\* A run that is past the removal as well.
LEMMA EndNext ==
    ASSUME IInv, [Next]_vars
    PROVE  EndIsStored'
<1>0. TypeOK
  BY DEF IInv
<1>1. TypeOK' /\ job' = job
  BY <1>0, TypeNext, Effects DEF IInv
<1> SUFFICES ASSUME NEW r \in Runs, pc'[r] \in {"trigger", "return"}, Apart(task[r])'
             PROVE  Stored(task[r])'
  BY DEF EndIsStored
<1>2. PICK t \in Tasks : t = task[r]
  BY <1>0 DEF TypeOK
<1>3. ASSUME task'[r] = task[r], Apart(t) => Stored(t)
      PROVE  Stored(task[r])'
  <2>1. Apart(t)'
    BY <1>2, <1>3 DEF Apart, Alone
  <2>2. Stored(t)'
    BY <1>0, <1>3, <2>1, ApartKept, ApartStoredKept
  <2>3. QED
    BY <1>2, <1>3, <2>2 DEF Stored
<1>4. CASE RunStep(r)
  <2>1. /\ task'[r] = task[r]
        /\ pc[r] \in {"delete", "trigger"}
    BY <1>0, <1>4, PastComes
  <2>2. ASSUME Apart(t)
        PROVE  Stored(t)
    <3>1. Current(t) /\ r \notin stale
      BY <1>2, <2>2, ApartIsCurrent DEF IInv, File, Job
    <3>2. QED
      BY <1>2, <2>1, <2>2, <3>1 DEF IInv, PastIsStored, EndIsStored
  <2>3. QED
    BY <1>3, <2>1, <2>2
<1>5. CASE pc'[r] = pc[r] /\ task'[r] = task[r]
  BY <1>2, <1>3, <1>5 DEF IInv, EndIsStored
<1>6. CASE pc'[r] = "idle"
  BY <1>6
<1>7. QED
  BY <1>0, <1>4, <1>5, <1>6, RunMoves

LEMMA DoneNext ==
    ASSUME IInv, [Next]_vars
    PROVE  DoneIsStored'
<1>0. TypeOK
  BY DEF IInv
<1> SUFFICES ASSUME NEW t \in Tasks, queue'[t] = "done", Apart(t)'
             PROVE  Stored(t)'
  BY DEF DoneIsStored
<1>1. Apart(t)
  BY <1>0, ApartKept
<1>2. CASE queue[t] = "done"
  BY <1>1, <1>2, ApartStoredKept DEF IInv, DoneIsStored
<1>3. CASE queue[t] # "done"
  <2>1. \E r \in Runs : Return(r) /\ task[r] = t
    <3>1. ASSUME NEW T, Retry(T)
          PROVE  FALSE
      BY <1>0, <1>3, <3>1, RetryType
    <3>2. ~Crash /\ ~Shutdown /\ \A r \in Runs : ~Expire(r) /\ ~GiveUp(r)
      BY <1>0, <1>3, <3>1 DEF Crash, Shutdown, Expire, GiveUp, TypeOK
    <3>3. queue' # queue
      BY <1>3
    <3>4. ~UNCHANGED vars /\ \A f \in Files, c \in Contents : ~Rewrite(f, c)
      BY <3>3 DEF vars, tasks, Rewrite
    <3>5. PICK r \in Runs : RunStep(r)
      BY <3>2, <3>4 DEF Next
    <3>6. ASSUME NEW u \in Tasks, Take(r, u)
          PROVE  FALSE
      BY <1>0, <1>3, <3>6 DEF Take, TypeOK
    <3>7. ~\E label \in RunPCs : Move(r, label)
      BY <3>3 DEF Move, tasks
    <3>8. Return(r)
      BY <3>2, <3>5, <3>6, <3>7 DEF RunStep, Stat, Head, HeadFails, Open, Put,
           PutFails, Backoff, Announce, AnnounceFails, Delete, DeleteFails,
           Trigger, TriggerFails, GoOn, RunPCs
    <3>9. task[r] = t
      BY <1>0, <1>3, <3>8 DEF Return, TypeOK
    <3>10. QED
      BY <3>8, <3>9
  <2>2. PICK r \in Runs : Return(r) /\ task[r] = t
    BY <2>1
  <2>3. Stored(t)
    BY <1>1, <2>2 DEF IInv, EndIsStored, Return
  <2>4. QED
    BY <2>3, ApartStoredKept
<1>4. QED
  BY <1>2, <1>3

LEMMA LostNext ==
    ASSUME IInv, [Next]_vars
    PROVE  LostNothing'
<1>0. TypeOK /\ job' = job
  BY Effects DEF IInv
<1> SUFFICES ASSUME NEW f \in Files, local'[f] = Gone
             PROVE  \E t \in Tasks : /\ job[t].file = f /\ job[t].delete
                                     /\ f \notin unread' /\ Current(t)' => Stored(t)'
  BY <1>0 DEF LostNothing
<1>1. ASSUME NEW c \in Contents, Rewrite(f, c)
      PROVE  FALSE
  BY <1>0, <1>1 DEF Rewrite, TypeOK
<1>2. source'[f] = source[f] /\ (f \in unread => f \in unread')
  <2>1. ASSUME NEW g \in Files, g # f, NEW c \in Contents, Rewrite(g, c)
        PROVE  source'[f] = source[f] /\ (f \in unread => f \in unread')
    BY <1>0, <2>1 DEF Rewrite, TypeOK
  <2>2. ASSUME NEW r \in Runs, Delete(r)
        PROVE  source' = source /\ unread \subseteq unread'
    BY <2>2 DEF Delete, ghosts
  <2>3. QED
    BY <1>0, <1>1, <2>1, <2>2, Effects
<1>3. ASSUME NEW t \in Tasks, job[t].file = f,
             f \notin unread' /\ Current(t) => Stored(t)
      PROVE  f \notin unread' /\ Current(t)' => Stored(t)'
  BY <1>2, <1>3, StoredNext
<1>4. CASE local[f] = Gone
  <2>1. PICK t \in Tasks : /\ job[t].file = f /\ job[t].delete
                           /\ f \notin unread /\ Current(t) => Stored(t)
    BY <1>4 DEF IInv, LostNothing
  <2>2. QED
    BY <1>2, <1>3, <2>1
<1>5. CASE local[f] # Gone
  <2>1. ASSUME NEW g \in Files, NEW c \in Contents, Rewrite(g, c)
        PROVE  FALSE
    BY <1>0, <1>1, <1>5, <2>1 DEF Rewrite, TypeOK
  <2>2. PICK r \in Runs : Delete(r)
    BY <1>0, <1>5, <2>1, Effects
  <2>3. /\ task[r] \in Tasks /\ File(r) = f /\ Job(r).delete
        /\ pc[r] = "delete" /\ (r \in stale => f \in unread')
    BY <1>0, <1>5, <2>2, RunType DEF Delete, TypeOK
  <2>4. PICK t \in Tasks : t = task[r]
    BY <2>3
  <2>5. f \notin unread' /\ Current(t) => Stored(t)
    BY <2>3, <2>4 DEF IInv, PastIsStored
  <2>6. QED
    BY <1>3, <2>3, <2>4, <2>5 DEF File, Job
<1>6. QED
  BY <1>4, <1>5

\* A run that is about to announce stays so, or announces, or leaves the target
\* unannounced.
LEMMA AnnouncerLeaves ==
    ASSUME TypeOK, [Next]_vars, NEW r \in Runs, pc[r] = "announce"
    PROVE  \/ pc'[r] = "announce" /\ task'[r] = task[r]
           \/ Announce(r)
           \/ cache[Key(r)] # Absent => Key(r) \in misled'
<1>0. Key(r) \in Keys
  BY RunType
<1>1. ASSUME RunStep(r)
      PROVE  Announce(r) \/ AnnounceFails(r)
  BY <1>1 DEF RunStep, Take, Stat, Head, HeadFails, Open, Put, PutFails, Backoff,
     Delete, DeleteFails, Trigger, TriggerFails, Return
<1>2. CASE AnnounceFails(r)
  BY <1>0, <1>2 DEF AnnounceFails, Unannounced
<1>3. CASE Crash \/ Shutdown
  BY <1>0, <1>3 DEF Crash, Shutdown, Unannounced
<1>4. ASSUME ~RunStep(r), ~Crash, ~Shutdown
      PROVE  pc'[r] = "announce" /\ task'[r] = task[r]
  <2>1. ASSUME NEW q \in Runs, q # r, RunStep(q)
        PROVE  pc'[r] = pc[r] /\ task'[r] = task[r]
    <3>1. CASE End(q)
      BY <2>1, <3>1 DEF End, Goto, TypeOK
    <3>2. CASE \E t \in Tasks : Take(q, t)
      BY <2>1, <3>2 DEF Take, Goto, TypeOK
    <3>3. CASE \E label : Move(q, label)
      BY <2>1, <3>3 DEF Move, Goto, TypeOK
    <3>4. QED
      BY <2>1, <3>1, <3>2, <3>3 DEF RunStep, Stat, Head, HeadFails, Open, Put,
         PutFails, Backoff, Announce, AnnounceFails, Delete, DeleteFails, Trigger,
         TriggerFails, Return, GoOn, GiveUp
  <2>2. ASSUME \/ \E q \in Runs : Expire(q)
               \/ \E f \in Files, c \in Contents : Rewrite(f, c)
               \/ UNCHANGED vars
        PROVE  pc' = pc /\ task' = task
    BY <2>2 DEF Expire, Rewrite, vars, run
  <2>3. QED
    BY <1>4, <2>1, <2>2 DEF Next
<1>5. QED
  BY <1>1, <1>2, <1>3, <1>4

\* An entry is written by a run whose source is stored, or counts as misled.
LEMMA AnnouncedNext ==
    ASSUME IInv, [Next]_vars
    PROVE  AnnouncedIsStored'
<1>0. TypeOK /\ job' = job
  BY Effects DEF IInv
<1> SUFFICES ASSUME NEW t \in Tasks, cache'[job[t].key] # Absent, Alone(t),
                    job[t].key \notin misled' \cup outdated',
                    \A r \in Runs : pc'[r] = "announce" => Key(r)' # job[t].key
             PROVE  /\ remote'[job[t].key] # Absent
                    /\ cache'[job[t].key] = SizeOf[remote'[job[t].key]]
  BY <1>0 DEF AnnouncedIsStored, Alone
<1> DEFINE k == job[t].key
<1>1. k \in Keys
  BY <1>0, JobType
<1>2. ASSUME NEW r \in Runs, task'[r] = task[r]
      PROVE  Key(r)' = Key(r)
  BY <1>0, <1>2 DEF Key, Job
<1>3. ASSUME NEW r \in Runs, Announce(r), Key(r) = k
      PROVE  /\ remote'[k] # Absent
             /\ cache'[k] = SizeOf[remote'[k]]
  <2>1. pc[r] = "announce" /\ UNCHANGED <<remote, outdated>>
    BY <1>3 DEF Announce
  <2>2. /\ local[File(r)] # Gone /\ cache'[k] = SizeOf[local[File(r)]]
        /\ r \notin stale
    BY <1>0, <1>1, <1>3 DEF Announce, Unannounced, TypeOK
  <2>3. PICK u \in Tasks : u = task[r]
    BY <1>0, RunType
  <2>4. Current(u)
    BY <1>3, <2>1, <2>3 DEF Current, Alone, Key, Job
  <2>5. Stored(u)
    BY <2>1, <2>2, <2>3, <2>4 DEF IInv, PastIsStored
  <2>6. local[File(r)] = source[File(r)]
    BY <1>0, <2>2, RunType DEF IInv, LocalIsSource
  <2>7. QED
    BY <1>3, <2>1, <2>2, <2>3, <2>5, <2>6 DEF Stored, File, Key, Job
<1>4. CASE \A r \in Runs : Announce(r) => Key(r) # k
  <2>1. cache'[k] = cache[k] /\ k \notin misled
    <3>1. ASSUME NEW r \in Runs, Announce(r)
          PROVE  cache'[k] = cache[k] /\ k \notin misled
      BY <1>0, <1>1, <1>4, <3>1 DEF Announce, Unannounced, TypeOK
    <3>2. QED
      BY <1>0, <3>1, Effects
  <2>2. remote'[k] = remote[k] /\ k \notin outdated
    <3>1. ASSUME NEW r \in Runs, Stores(r), ToldOrMisled(r)
          PROVE  remote'[k] = remote[k] /\ k \notin outdated
      <4>1. Key(r) # k
        BY <1>2, <2>1, <3>1 DEF ToldOrMisled
      <4>2. QED
        BY <1>0, <1>1, <3>1, <4>1 DEF Stores, TypeOK
    <3>2. QED
      BY <1>0, <3>1, Effects
  <2>3. \A r \in Runs : pc[r] = "announce" => Key(r) # k
    BY <1>0, <1>2, <1>4, <2>1, AnnouncerLeaves
  <2>4. QED
    BY <2>1, <2>2, <2>3 DEF IInv, AnnouncedIsStored
<1>5. QED
  BY <1>3, <1>4

LEMMA NextIInv == IInv /\ [Next]_vars => IInv'
<1> SUFFICES ASSUME IInv, [Next]_vars PROVE IInv'
  OBVIOUS
<1>1. TypeOK'
  BY TypeNext DEF IInv
<1>2. /\ HoldsContent' /\ LocalIsSource' /\ StaleIsRewritten'
      /\ HeldIsSource' /\ PastIsStored' /\ EndIsStored'
  BY HeldNext, LocalNext, StaleNext, PastNext, EndNext
<1>3. DoneIsStored' /\ LostNothing' /\ AnnouncedIsStored'
  BY DoneNext, LostNext, AnnouncedNext
<1>4. QED
  BY <1>1, <1>2, <1>3 DEF IInv

LEMMA InvariantHolds == Spec => []IInv
  BY InitIInv, NextIInv, PTL DEF Spec

-----------------------------------------------------------------------------
(* Uploads, counted by delivery.                                           *)

\* A run at work has a delivery of its task.
RunsAreDelivered == \A r \in Runs :
    pc[r] # "idle" => delivery[r] \in 1 .. delivered[task[r]]

\* And has it alone.
DeliveriesDiffer == \A r, q \in Runs :
    r # q /\ pc[r] # "idle" /\ pc[q] # "idle" /\ task[r] = task[q]
        => delivery[r] # delivery[q]

\* A task comes back to the queue by a retry or a shutdown.
DeliveriesCounted == \A t \in Tasks :
    delivered[t] + (IF queue[t] = "ready" THEN 1 ELSE 0)
        <= retried[t] + shutdowns + 1

\* A delivery uploads once in each turn of the loop, which ends.
PutsCounted ==
    /\ \A t \in Tasks, n \in Deliveries :
          puts[t][n] <= IF n <= delivered[t] THEN LastAttempt + 1 ELSE 0
    /\ \A r \in Runs : pc[r] # "idle" =>
          puts[task[r]][delivery[r]] <=
              IF pc[r] \in {"stat", "head", "open", "backoff"}
                THEN attempt[r] ELSE attempt[r] + 1

CInv == RunsAreDelivered /\ DeliveriesDiffer /\ DeliveriesCounted /\ PutsCounted

LEMMA InitCInv == Init => CInv
<1> SUFFICES ASSUME Init PROVE CInv
  OBVIOUS
<1>1. RunsAreDelivered /\ DeliveriesDiffer /\ DeliveriesCounted
  BY DEF Init, RunsAreDelivered, DeliveriesDiffer, DeliveriesCounted
<1>2. PutsCounted
  BY DEF Init, PutsCounted, LastAttempt
<1>3. QED
  BY <1>1, <1>2 DEF CInv

\* The number of the next delivery, and that of a run, is one of Deliveries.
LEMMA DeliveriesFit ==
    ASSUME TypeOK, CInv
    PROVE  /\ \A t \in Tasks : queue[t] = "ready" => delivered[t] + 1 \in Deliveries
           /\ \A r \in Runs : pc[r] # "idle" => delivery[r] \in Deliveries
<1>1. shutdowns \in 0 .. MaxFaults
  BY DEF TypeOK
<1>2. ASSUME NEW t \in Tasks, queue[t] = "ready"
      PROVE  delivered[t] + 1 \in Deliveries
  <2>1. delivered[t] \in Nat /\ retried[t] \in 0 .. MaxRetry
    BY DEF TypeOK
  <2>2. delivered[t] + 1 <= retried[t] + shutdowns + 1
    BY <1>2 DEF CInv, DeliveriesCounted
  <2>3. QED
    BY <1>1, <2>1, <2>2 DEF Deliveries
<1>3. ASSUME NEW r \in Runs, pc[r] # "idle"
      PROVE  delivery[r] \in Deliveries
  <2>1. PICK t \in Tasks : t = task[r]
    BY DEF TypeOK
  <2>2. delivered[t] \in Nat /\ retried[t] \in 0 .. MaxRetry /\ delivery[r] \in Nat
    BY DEF TypeOK
  <2>3. delivered[t] <= retried[t] + shutdowns + 1
    BY <1>1, <2>2 DEF CInv, DeliveriesCounted
  <2>4. delivery[r] \in 1 .. delivered[t]
    BY <1>3, <2>1 DEF CInv, RunsAreDelivered
  <2>5. QED
    BY <1>1, <2>2, <2>3, <2>4 DEF Deliveries
<1>4. QED
  BY <1>2, <1>3

\* A retry makes a task ready at the price of one of its retries.
LEMMA RetryCounts ==
    ASSUME TypeOK, DeliveriesCounted, NEW T, Retry(T), delivered' = delivered,
           shutdowns' = shutdowns
    PROVE  DeliveriesCounted'
<1> SUFFICES ASSUME NEW t \in Tasks
             PROVE  delivered[t] + (IF queue'[t] = "ready" THEN 1 ELSE 0)
                        <= retried'[t] + shutdowns + 1
  BY DEF DeliveriesCounted
<1>1. /\ delivered[t] \in Nat /\ retried[t] \in Nat /\ shutdowns \in Nat
      /\ retried[t] <= MaxRetry
  BY DEF TypeOK
<1>2. delivered[t] + (IF queue[t] = "ready" THEN 1 ELSE 0)
        <= retried[t] + shutdowns + 1
  BY DEF DeliveriesCounted
<1>3. CASE t \notin T
  BY <1>2, <1>3 DEF Retry
<1>4. CASE t \in T /\ retried[t] < MaxRetry
  <2>1. queue'[t] = "ready" /\ retried'[t] = retried[t] + 1
    BY <1>4 DEF Retry
  <2>2. QED
    BY <1>1, <1>2, <2>1
<1>5. CASE t \in T /\ ~(retried[t] < MaxRetry)
  <2>1. queue'[t] = "archived" /\ retried'[t] = retried[t]
    BY <1>5 DEF Retry
  <2>2. QED
    BY <1>1, <1>2, <2>1
<1>6. QED
  BY <1>3, <1>4, <1>5

\* Steps that neither deliver nor upload: every run stays where its count is the
\* same, or ends, or makes one more turn after an upload.
LEMMA QuietStep ==
    ASSUME TypeOK, CInv, UNCHANGED <<delivered, puts>>,
           \A r \in Runs :
              pc'[r] # "idle" =>
                /\ pc[r] # "idle" /\ task'[r] = task[r] /\ delivery'[r] = delivery[r]
                /\ \/ /\ attempt'[r] = attempt[r]
                      /\ pc[r] \in {"stat", "head", "open", "backoff"} \/ pc'[r] \notin
                            {"stat", "head", "open", "backoff"}
                   \/ attempt'[r] = attempt[r] + 1
    PROVE  RunsAreDelivered' /\ DeliveriesDiffer' /\ PutsCounted'
<1>1. RunsAreDelivered'
  BY DEF CInv, RunsAreDelivered
<1>2. DeliveriesDiffer'
  BY DEF CInv, DeliveriesDiffer
<1>3. ASSUME NEW r \in Runs, pc'[r] # "idle"
      PROVE  puts'[task'[r]][delivery'[r]] <=
               IF pc'[r] \in {"stat", "head", "open", "backoff"}
                 THEN attempt'[r] ELSE attempt'[r] + 1
  <2>1. delivery[r] \in Deliveries
    BY <1>3, DeliveriesFit
  <2>2. attempt[r] \in Nat /\ puts[task[r]][delivery[r]] \in Nat
    BY <2>1 DEF TypeOK
  <2>3. puts[task[r]][delivery[r]] <=
               IF pc[r] \in {"stat", "head", "open", "backoff"}
                 THEN attempt[r] ELSE attempt[r] + 1
    BY <1>3 DEF CInv, PutsCounted
  <2>4. QED
    BY <1>3, <2>2, <2>3
<1>4. PutsCounted'
  BY <1>3 DEF CInv, PutsCounted
<1>5. QED
  BY <1>1, <1>2, <1>4

LEMMA TakeCounts ==
    ASSUME TypeOK, CInv, NEW r \in Runs, NEW t \in Tasks, Take(r, t)
    PROVE  CInv'
<1> DEFINE n == delivered[t] + 1
<1>1. /\ n \in Deliveries /\ delivered[t] \in Nat /\ queue[t] = "ready"
      /\ pc[r] = "idle" /\ retried[t] \in Nat /\ shutdowns \in Nat
  BY DeliveriesFit DEF Take, TypeOK
<1>2. /\ delivered' = [delivered EXCEPT ![t] = n]
      /\ task' = [task EXCEPT ![r] = t]
      /\ delivery' = [delivery EXCEPT ![r] = n]
      /\ UNCHANGED <<attempt, puts, retried, shutdowns>>
      /\ queue' = [queue EXCEPT ![t] = "active"]
      /\ \E label \in {"open", "stat"} : pc' = [pc EXCEPT ![r] = label]
  BY DEF Take, Goto
<1>3. /\ task'[r] = t /\ delivery'[r] = n /\ pc'[r] \in {"open", "stat"}
      /\ delivered'[t] = n
      /\ \A q \in Runs \ {r} : /\ task'[q] = task[q] /\ delivery'[q] = delivery[q]
                               /\ pc'[q] = pc[q]
      /\ \A u \in Tasks \ {t} : delivered'[u] = delivered[u]
      /\ \A u \in Tasks : delivered[u] \in Nat /\ delivered'[u] \in Nat
      /\ \A u \in Tasks : delivered[u] <= delivered'[u]
  BY <1>1, <1>2 DEF TypeOK
<1>4. RunsAreDelivered'
  <2>1. ASSUME NEW q \in Runs, pc'[q] # "idle", q # r
        PROVE  delivery'[q] \in 1 .. delivered'[task'[q]]
    <3>1. task[q] \in Tasks /\ delivery[q] \in 1 .. delivered[task[q]]
      BY <1>3, <2>1 DEF CInv, RunsAreDelivered, TypeOK
    <3>2. QED
      BY <1>3, <2>1, <3>1
  <2>2. delivery'[r] \in 1 .. delivered'[task'[r]]
    BY <1>1, <1>3
  <2>3. QED
    BY <2>1, <2>2 DEF RunsAreDelivered
<1>5. DeliveriesDiffer'
  <2>1. ASSUME NEW q \in Runs, pc[q] # "idle", q # r, task[q] = t
        PROVE  delivery[q] # n
    BY <1>1, <2>1 DEF CInv, RunsAreDelivered
  <2>2. ASSUME NEW p \in Runs, NEW q \in Runs, p # q, pc'[p] # "idle",
               pc'[q] # "idle", task'[p] = task'[q]
        PROVE  delivery'[p] # delivery'[q]
    BY <1>3, <2>1, <2>2 DEF CInv, DeliveriesDiffer
  <2>3. QED
    BY <2>2 DEF DeliveriesDiffer
<1>6. DeliveriesCounted'
  <2>1. n <= retried[t] + shutdowns + 1
    BY <1>1 DEF CInv, DeliveriesCounted
  <2>2. ASSUME NEW u \in Tasks
        PROVE  delivered'[u] + (IF queue'[u] = "ready" THEN 1 ELSE 0)
                  <= retried'[u] + shutdowns' + 1
    <3>1. CASE u = t
      BY <1>1, <1>2, <1>3, <2>1, <3>1 DEF TypeOK
    <3>2. CASE u # t
      BY <1>2, <1>3, <3>2 DEF CInv, DeliveriesCounted, TypeOK
    <3>3. QED
      BY <3>1, <3>2
  <2>3. QED
    BY <2>2 DEF DeliveriesCounted
<1>7. PutsCounted'
  <2>1. puts[t][n] = 0
    <3>1. puts[t][n] \in Nat /\ ~(n <= delivered[t])
      BY <1>1 DEF TypeOK
    <3>2. puts[t][n] <= 0
      BY <1>1, <3>1 DEF CInv, PutsCounted
    <3>3. QED
      BY <3>1, <3>2
  <2>2. ASSUME NEW u \in Tasks, NEW m \in Deliveries
        PROVE  puts'[u][m] <= IF m <= delivered'[u] THEN LastAttempt + 1 ELSE 0
    <3>1. puts[u][m] <= IF m <= delivered[u] THEN LastAttempt + 1 ELSE 0
      BY DEF CInv, PutsCounted
    <3>2. puts[u][m] \in Nat
      BY DEF TypeOK
    <3>3. LastAttempt \in Nat /\ m \in Nat
      BY DEF LastAttempt, Deliveries
    <3>4. delivered[u] \in Nat /\ delivered'[u] \in Nat
            /\ delivered[u] <= delivered'[u] /\ puts' = puts
      BY <1>2, <1>3
    <3>5. QED
      BY <3>1, <3>2, <3>3, <3>4
  <2>3. ASSUME NEW q \in Runs, pc'[q] # "idle"
        PROVE  puts'[task'[q]][delivery'[q]] <=
                 IF pc'[q] \in {"stat", "head", "open", "backoff"}
                   THEN attempt'[q] ELSE attempt'[q] + 1
    <3>1. CASE q = r
      <4>1. attempt[r] \in 0 .. LastAttempt
        BY DEF TypeOK
      <4>2. QED
        BY <1>2, <1>3, <2>1, <3>1, <4>1
    <3>2. CASE q # r
      BY <1>2, <1>3, <2>3, <3>2 DEF CInv, PutsCounted
    <3>3. QED
      BY <3>1, <3>2
  <2>4. QED
    BY <2>2, <2>3 DEF PutsCounted
<1>8. QED
  BY <1>4, <1>5, <1>6, <1>7 DEF CInv

LEMMA OpenCounts ==
    ASSUME TypeOK, CInv, NEW r \in Runs, pc[r] = "open", Move(r, "put"),
           attempt' = attempt, UNCHANGED <<delivered, shutdowns>>,
           puts' = [puts EXCEPT ![task[r]][delivery[r]] = @ + 1]
    PROVE  CInv'
<1> DEFINE t == task[r]
           n == delivery[r]
<1>1. /\ t \in Tasks /\ n \in Deliveries /\ attempt[r] \in Nat
      /\ attempt[r] <= LastAttempt /\ puts[t][n] \in Nat /\ LastAttempt \in Nat
  <2>1. t \in Tasks /\ n \in Deliveries /\ attempt[r] \in 0 .. LastAttempt
    BY DeliveriesFit DEF TypeOK
  <2>2. QED
    BY <2>1 DEF TypeOK, LastAttempt
<1>2. puts[t][n] <= attempt[r]
  BY DEF CInv, PutsCounted
<1>3. /\ UNCHANGED <<queue, retried, task, delivery>>
      /\ pc' = [pc EXCEPT ![r] = "put"]
  BY DEF Move, Goto, tasks
<1>4. RunsAreDelivered' /\ DeliveriesDiffer' /\ DeliveriesCounted'
  BY <1>3 DEF CInv, RunsAreDelivered, DeliveriesDiffer, DeliveriesCounted, TypeOK
<1>5. \A u \in Tasks, m \in Deliveries :
         puts'[u][m] = IF u = t /\ m = n THEN puts[t][n] + 1 ELSE puts[u][m]
  BY <1>1 DEF TypeOK
<1>6. n <= delivered[t]
  BY DEF CInv, RunsAreDelivered
<1>7. ASSUME NEW u \in Tasks, NEW m \in Deliveries
      PROVE  puts'[u][m] <= IF m <= delivered[u] THEN LastAttempt + 1 ELSE 0
  <2>1. CASE u = t /\ m = n
    BY <1>1, <1>2, <1>5, <1>6, <2>1
  <2>2. CASE ~(u = t /\ m = n)
    BY <1>5, <2>2 DEF CInv, PutsCounted
  <2>3. QED
    BY <2>1, <2>2
<1>8. ASSUME NEW q \in Runs, pc'[q] # "idle"
      PROVE  puts'[task[q]][delivery[q]] <=
               IF pc'[q] \in {"stat", "head", "open", "backoff"}
                 THEN attempt[q] ELSE attempt[q] + 1
  <2>1. CASE q = r
    <3>1. pc'[r] = "put"
      BY <1>3 DEF TypeOK
    <3>2. puts'[t][n] <= attempt[r] + 1
      BY <1>1, <1>2, <1>5
    <3>3. QED
      BY <2>1, <3>1, <3>2
  <2>2. CASE q # r
    <3>1. pc'[q] = pc[q]
      BY <1>3, <2>2 DEF TypeOK
    <3>2. task[q] \in Tasks /\ delivery[q] \in Deliveries
      BY <1>8, <3>1, DeliveriesFit DEF TypeOK
    <3>3. ~(task[q] = t /\ delivery[q] = n)
      BY <1>8, <2>2, <3>1 DEF CInv, DeliveriesDiffer
    <3>4. puts'[task[q]][delivery[q]] = puts[task[q]][delivery[q]]
      BY <1>5, <3>2, <3>3
    <3>5. QED
      BY <1>8, <3>1, <3>4 DEF CInv, PutsCounted
  <2>3. QED
    BY <2>1, <2>2
<1>9. PutsCounted'
  BY <1>3, <1>7, <1>8 DEF PutsCounted
<1>10. QED
  BY <1>4, <1>9 DEF CInv

\* Runs that end, and runs that move without a new turn.
LEMMA EndIsQuiet ==
    ASSUME TypeOK, NEW r \in Runs, End(r)
    PROVE  \A q \in Runs : pc'[q] # "idle" =>
              /\ pc[q] # "idle" /\ task'[q] = task[q] /\ delivery'[q] = delivery[q]
              /\ attempt'[q] = attempt[q] /\ pc'[q] = pc[q]
  BY DEF End, Goto, TypeOK

LEMMA MoveCounts ==
    ASSUME TypeOK, CInv, NEW r \in Runs, NEW label, Move(r, label), pc[r] # "idle",
           UNCHANGED counts,
           \/ attempt' = [attempt EXCEPT ![r] = @ + 1]
           \/ attempt' = attempt /\ ( \/ pc[r] \in {"stat", "head", "open", "backoff"}
                                      \/ label \notin {"stat", "head", "open", "backoff"})
    PROVE  CInv'
<1>1. /\ UNCHANGED <<queue, retried, task, delivery, delivered, puts, shutdowns>>
      /\ pc' = [pc EXCEPT ![r] = label]
  BY DEF Move, Goto, tasks, counts
<1>2. \A q \in Runs :
          /\ pc[q] # "idle" \/ pc'[q] = "idle"
          /\ \/ /\ attempt'[q] = attempt[q]
                /\ pc[q] \in {"stat", "head", "open", "backoff"} \/ pc'[q] \notin
                            {"stat", "head", "open", "backoff"}
             \/ attempt'[q] = attempt[q] + 1
  BY <1>1 DEF TypeOK
<1>3. RunsAreDelivered' /\ DeliveriesDiffer' /\ PutsCounted'
  BY <1>1, <1>2, QuietStep
<1>4. DeliveriesCounted'
  BY <1>1 DEF CInv, DeliveriesCounted
<1>5. QED
  BY <1>3, <1>4 DEF CInv

LEMMA GiveUpCounts ==
    ASSUME TypeOK, CInv, NEW r \in Runs, GiveUp(r), UNCHANGED counts
    PROVE  CInv'
<1>1. PICK T : End(r) /\ Retry(T)
  BY DEF GiveUp
<1>2. DeliveriesCounted'
  BY <1>1, RetryCounts DEF CInv, counts
<1>3. RunsAreDelivered' /\ DeliveriesDiffer' /\ PutsCounted'
  BY <1>1, EndIsQuiet, QuietStep DEF counts
<1>4. QED
  BY <1>2, <1>3 DEF CInv

LEMMA RunCounts ==
    ASSUME TypeOK, CInv, NEW r \in Runs, RunStep(r)
    PROVE  CInv'
<1> USE DEF ghosts
<1>1. ASSUME NEW t \in Tasks, Take(r, t)
      PROVE  CInv'
  BY <1>1, TakeCounts
<1>2. CASE Stat(r)
  <2>1. UNCHANGED counts /\ pc[r] = "stat"
    BY <1>2 DEF Stat
  <2>2. \/ GiveUp(r)
        \/ Move(r, "head") /\ attempt' = attempt
    BY <1>2 DEF Stat
  <2>3. QED
    BY <2>1, <2>2, GiveUpCounts, MoveCounts
<1>3. CASE Head(r)
  <2>1. /\ UNCHANGED counts /\ pc[r] = "head" /\ attempt' = attempt
        /\ \E label : Move(r, label)
    BY <1>3 DEF Head, GoOn
  <2>2. QED
    BY <2>1, MoveCounts
<1>4. CASE Open(r)
  <2>1. CASE GiveUp(r) /\ UNCHANGED puts
    <3>1. UNCHANGED counts
      BY <1>4, <2>1 DEF Open, counts
    <3>2. QED
      BY <2>1, <3>1, GiveUpCounts
  <2>2. CASE ~(GiveUp(r) /\ UNCHANGED puts)
    <3>1. /\ pc[r] = "open" /\ Move(r, "put") /\ attempt' = attempt
          /\ UNCHANGED <<delivered, shutdowns>>
          /\ puts' = [puts EXCEPT ![task[r]][delivery[r]] = @ + 1]
      BY <1>4, <2>2 DEF Open
    <3>2. QED
      BY <3>1, OpenCounts
  <2>3. QED
    BY <2>1, <2>2
<1>5. CASE HeadFails(r) \/ PutFails(r) \/ Backoff(r)
  <2>1. UNCHANGED counts /\ pc[r] \in {"head", "put", "backoff"}
    BY <1>5 DEF HeadFails, PutFails, Backoff
  <2>2. \/ GiveUp(r)
        \/ /\ Move(r, "backoff") /\ pc[r] = "put"
           /\ attempt' = [attempt EXCEPT ![r] = @ + 1]
        \/ Move(r, "open") /\ pc[r] = "backoff" /\ attempt' = attempt
    BY <1>5 DEF HeadFails, PutFails, Backoff, GoOn
  <2>3. QED
    BY <2>1, <2>2, GiveUpCounts, MoveCounts
<1>6. CASE Put(r) \/ Announce(r) \/ AnnounceFails(r) \/ Delete(r) \/ DeleteFails(r)
           \/ Trigger(r) \/ TriggerFails(r)
  <2>1. /\ UNCHANGED counts /\ pc[r] # "idle" /\ attempt' = attempt
        /\ \E label \in {"announce", "delete", "trigger", "return"} : Move(r, label)
    BY <1>6 DEF Put, Announce, AnnounceFails, Delete, DeleteFails, Trigger,
                TriggerFails, GoOn
  <2>2. QED
    BY <2>1, MoveCounts
<1>7. CASE Return(r)
  <2>1. End(r) /\ UNCHANGED <<retried, counts>>
    BY <1>7 DEF Return
  <2>2. RunsAreDelivered' /\ DeliveriesDiffer' /\ PutsCounted'
    BY <2>1, EndIsQuiet, QuietStep DEF counts
  <2>3. DeliveriesCounted'
    <3>1. SUFFICES ASSUME NEW t \in Tasks
                   PROVE  delivered[t] + (IF queue'[t] = "ready" THEN 1 ELSE 0)
                             <= retried[t] + shutdowns + 1
      BY <2>1 DEF DeliveriesCounted, counts
    <3>2. queue'[t] = "ready" => queue[t] = "ready"
      BY <1>7 DEF Return, TypeOK
    <3>3. delivered[t] \in Nat /\ retried[t] \in Nat /\ shutdowns \in Nat
      BY DEF TypeOK
    <3>4. delivered[t] + (IF queue[t] = "ready" THEN 1 ELSE 0)
             <= retried[t] + shutdowns + 1
      BY DEF CInv, DeliveriesCounted
    <3>5. QED
      BY <3>2, <3>3, <3>4
  <2>4. QED
    BY <2>2, <2>3 DEF CInv
<1>8. QED
  BY <1>1, <1>2, <1>3, <1>4, <1>5, <1>6, <1>7 DEF RunStep

LEMMA NextCInv == TypeOK /\ CInv /\ [Next]_vars => CInv'
<1> SUFFICES ASSUME TypeOK, CInv, [Next]_vars PROVE CInv'
  OBVIOUS
<1>1. ASSUME NEW r \in Runs, Expire(r)
      PROVE  CInv'
  <2>1. UNCHANGED <<pc, task, delivery, attempt, delivered, puts, shutdowns>>
    BY <1>1 DEF Expire, ghosts, counts
  <2>2. DeliveriesCounted'
    BY <1>1, <2>1, RetryCounts DEF Expire, CInv
  <2>3. QED
    BY <2>1, <2>2 DEF CInv, RunsAreDelivered, DeliveriesDiffer, PutsCounted
<1>2. CASE Crash
  <2>1. /\ \A r \in Runs : pc'[r] = "idle"
        /\ UNCHANGED <<delivered, puts, shutdowns>>
    BY <1>2 DEF Crash, EndAll, ghosts, counts
  <2>2. DeliveriesCounted'
    BY <1>2, <2>1, RetryCounts DEF Crash, CInv
  <2>3. QED
    BY <2>1, <2>2, QuietStep DEF CInv
<1>3. CASE Shutdown
  <2>1. /\ \A r \in Runs : pc'[r] = "idle"
        /\ UNCHANGED <<delivered, puts, retried>>
        /\ shutdowns' = shutdowns + 1
    BY <1>3 DEF Shutdown, EndAll
  <2>2. DeliveriesCounted'
    <3>1. SUFFICES ASSUME NEW t \in Tasks
                   PROVE  delivered[t] + (IF queue'[t] = "ready" THEN 1 ELSE 0)
                             <= retried[t] + shutdowns + 2
      BY <2>1 DEF DeliveriesCounted, TypeOK
    <3>2. delivered[t] \in Nat /\ retried[t] \in Nat /\ shutdowns \in Nat
      BY DEF TypeOK
    <3>3. delivered[t] + (IF queue[t] = "ready" THEN 1 ELSE 0)
             <= retried[t] + shutdowns + 1
      BY DEF CInv, DeliveriesCounted
    <3>4. QED
      BY <3>2, <3>3
  <2>3. QED
    BY <2>1, <2>2, QuietStep DEF CInv
<1>4. ASSUME UNCHANGED <<tasks, pc, task, attempt, delivery, counts>>
      PROVE  CInv'
  BY <1>4 DEF tasks, counts, CInv, RunsAreDelivered, DeliveriesDiffer,
              DeliveriesCounted, PutsCounted
<1>5. ASSUME NEW f \in Files, NEW c \in Contents, Rewrite(f, c)
      PROVE  CInv'
  BY <1>4, <1>5 DEF Rewrite
<1>6. CASE UNCHANGED vars
  BY <1>4, <1>6 DEF vars, run, ghosts
<1>7. QED
  BY <1>1, <1>2, <1>3, <1>5, <1>6, RunCounts DEF Next

-----------------------------------------------------------------------------
(* The theorems.                                                           *)

\* Every reachable state has its type; in particular uploadFile's loop counter
\* stays within RetryCount and asynq's within MaxRetry.
THEOREM TypeCorrect == Spec => []TypeOK
<1>1. IInv => TypeOK
  BY DEF IInv
<1>2. QED
  BY <1>1, InvariantHolds, PTL

\* A task that HandleSingleFile completed has an object of the size of its
\* source on its target, whatever failed, crashed, timed out or ran twice, if that
\* source was never rewritten and alone has that target.
THEOREM CompletedTasksAreStored == Spec => []DoneIsStored
<1>1. IInv => DoneIsStored
  BY DEF IInv
<1>2. QED
  BY <1>1, InvariantHolds, PTL

\* deleteFile leaves a source that is gone with an object of its last size on the
\* target it has alone, unless it removed a version that the run had not read, or
\* a run uploaded to that target, last of all, a version replaced since it read it.
THEOREM RemovedSourcesAreStored == Spec => []NothingLost
<1>1. IInv => NothingLost
  BY DEF IInv, NothingLost, LostNothing, Current
<1>2. QED
  BY <1>1, InvariantHolds, PTL

\* The size uploadFileOnce told the existence cache is that of the object, also
\* for a source that is rewritten, except while an announcement is pending, after
\* one was lost, and after a run whose source was rewritten under it announced or
\* uploaded, until a run that is not overtaken does so again.
THEOREM AnnouncementsAreTrue == Spec => []AnnouncedIsStored
<1>1. IInv => AnnouncedIsStored
  BY DEF IInv
<1>2. QED
  BY <1>1, InvariantHolds, PTL

\* The retries of uploadFile and of asynq multiply, and no more: a delivery of a
\* task uploads at most LastAttempt + 1 times, and a task is delivered once for
\* each retry and each shutdown, and once more.
THEOREM UploadsAreBounded == Spec => []UploadsBounded
<1>1. Spec => []CInv
  <2>1. IInv => TypeOK
    BY DEF IInv
  <2>2. QED
    BY <2>1, InitCInv, NextCInv, InvariantHolds, PTL DEF Spec
<1>2. IInv /\ CInv => UploadsBounded
  <2> SUFFICES ASSUME IInv, CInv, NEW t \in Tasks
               PROVE  /\ delivered[t] <= retried[t] + shutdowns + 1
                      /\ \A n \in Deliveries :
                            puts[t][n] <= IF n <= delivered[t] THEN LastAttempt + 1
                                          ELSE 0
    BY DEF UploadsBounded
  <2>1. delivered[t] \in Nat /\ retried[t] \in Nat /\ shutdowns \in Nat
    BY DEF IInv, TypeOK
  <2>2. delivered[t] + (IF queue[t] = "ready" THEN 1 ELSE 0)
           <= retried[t] + shutdowns + 1
    BY DEF CInv, DeliveriesCounted
  <2>3. QED
    BY <2>1, <2>2 DEF CInv, PutsCounted
<1>3. QED
  BY <1>1, <1>2, InvariantHolds, PTL
===============================================================================
