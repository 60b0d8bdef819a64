-------------------------- MODULE SshDebounceProofs --------------------------
(***************************************************************************)
(* Theorems about SshDebounce, for every number of workers and executors,  *)
(* every debounce period and every number of failures.                     *)
(***************************************************************************)
EXTENDS SshDebounce, FiniteSetTheorems, TLAPS

USE DebounceAssumption

LEMMA MinOfType ==
    ASSUME NEW a \in 0 .. D, NEW b \in 0 .. D
    PROVE  /\ MinOf(a, b) \in 0 .. D
           /\ MinOf(a, b) <= a /\ MinOf(a, b) <= b
           /\ MinOf(a, b) \in {a, b}
  BY DEF MinOf

LEMMA OlderType ==
    ASSUME NEW a \in 0 .. D
    PROVE  /\ Older(a) \in 0 .. D
           /\ a <= Older(a) /\ (Older(a) = D \/ Older(a) = a + 1)
  BY DEF Older, MinOf

LEMMA FaultType ==
    ASSUME TypeOK, Fault
    PROVE  faults' \in 0 .. MaxFaults
  BY DEF TypeOK, Fault

LEMMA ScheduleType ==
    ASSUME TypeOK, NEW d \in 0 .. D, Schedule(d)
    PROVE  /\ waiting' \in [0 .. D -> Nat]
           /\ waiting'[d] > 0
           /\ \A i \in 0 .. D : waiting'[i] >= waiting[i]
  BY DEF TypeOK, Schedule

\* The executors whose tasks a crash gives back.
LEMMA BusyCount ==
    ASSUME TypeOK
    PROVE  /\ Cardinality({e \in Executors : pc[e] # "idle"}) \in Nat
           /\ (\E e \in Executors : pc[e] # "idle")
                => Cardinality({e \in Executors : pc[e] # "idle"}) > 0
<1> DEFINE Busy == {e \in Executors : pc[e] # "idle"}
<1>1. IsFiniteSet(Busy)
  BY FS_Subset
<1>2. Cardinality(Busy) \in Nat
  BY <1>1, FS_CardinalityType
<1>3. Cardinality(Busy) = 0 <=> Busy = {}
  BY <1>1, FS_EmptySet
<1>4. QED
  BY <1>2, <1>3

LEMMA TypeInit == Init => TypeOK
<1> SUFFICES ASSUME Init PROVE TypeOK
  OBVIOUS
<1>1. FlagsOK
  BY DEF Init, FlagsOK
<1>2. pending => ttl > 0
  BY DEF Init
<1>3. QED
  BY <1>1, <1>2 DEF Init, TypeOK, Procs, WorkerPCs, ExecutorPCs

LEMMA TypeWorker ==
    ASSUME TypeOK, NEW w \in Workers, Trigger(w) \/ WorkerStep(w)
    PROVE  TypeOK'
<1>1. w \in Procs /\ w \notin Executors /\ lag[w] \in 0 .. D
  BY DEF Procs, TypeOK
<1>2. MinOf(quiet, lag[w]) \in 0 .. D
  BY <1>1, MinOfType DEF TypeOK
<1>3. /\ \E label \in WorkerPCs : pc' = [pc EXCEPT ![w] = label]
      /\ UNCHANGED failed
  BY DEF Trigger, WorkerStep, GetState, Save, Enqueue, TriggerFails,
         SaveReplyLost, Returned, Goto, WorkerPCs
<1>4. /\ pc' \in [Procs -> WorkerPCs \cup ExecutorPCs]
      /\ \A v \in Workers : pc'[v] \in WorkerPCs
      /\ \A e \in Executors : pc'[e] \in ExecutorPCs
      /\ failed' \subseteq Executors
  BY <1>1, <1>3 DEF TypeOK
<1>5. FlagsOK'
  <2> USE DEF FlagsOK
  <2>1. CASE Trigger(w) \/ GetState(w)
    BY <2>1 DEF Trigger, GetState, record, ghosts, TypeOK
  <2>2. CASE Save(w)
    <3>1. pending' \in BOOLEAN /\ clobbered' \in BOOLEAN
      BY <2>2 DEF Save, SaveState, Rewrites, TypeOK
    <3>2. CASE w \in seen
      <4>1. owed' \in BOOLEAN /\ covered' \in BOOLEAN /\ orphaned' \in BOOLEAN
        BY <2>2, <3>2, Zenon DEF Save, Returned
      <4>2. QED
        BY <3>1, <4>1
    <3>3. CASE w \notin seen
      BY <2>2, <3>1, <3>3 DEF Save, TypeOK
    <3>4. QED
      BY <3>2, <3>3
  <2>3. CASE Enqueue(w)
    <3>1. owed' \in BOOLEAN /\ covered' \in BOOLEAN
      BY <2>3, Zenon DEF Enqueue, Returned
    <3>2. QED
      BY <2>3, <3>1 DEF Enqueue, record, TypeOK
  <2>4. CASE TriggerFails(w)
    <3>1. orphaned' \in BOOLEAN
      BY <2>4, Zenon DEF TriggerFails
    <3>2. QED
      BY <2>4, <3>1 DEF TriggerFails, record, TypeOK
  <2>5. CASE SaveReplyLost(w)
    <3>1. orphaned' \in BOOLEAN
      BY <2>5, Zenon DEF SaveReplyLost
    <3>2. pending' \in BOOLEAN /\ clobbered' \in BOOLEAN
      BY <2>5 DEF SaveReplyLost, SaveState, Rewrites, TypeOK
    <3>3. QED
      BY <2>5, <3>1, <3>2 DEF SaveReplyLost, TypeOK
  <2>6. QED
    BY <2>1, <2>2, <2>3, <2>4, <2>5 DEF WorkerStep
<1>6. /\ faults' = faults \/ Fault
      /\ waiting' = waiting \/ Schedule(D)
      /\ lag' = lag \/ lag' = [lag EXCEPT ![w] = 0]
      /\ seen' \in {seen, seen \cup {w}, seen \ {w}}
      /\ owing' \in {owing, owing \cup {w}, owing \ {w}}
  BY DEF Trigger, WorkerStep, GetState, Save, Enqueue, TriggerFails,
         SaveReplyLost, Returned, ghosts
<1>7. /\ faults' \in 0 .. MaxFaults /\ owing' \subseteq Workers
      /\ lag' \in [Procs -> 0 .. D] /\ seen' \subseteq Workers
      /\ waiting' \in [0 .. D -> Nat]
  <2>1. waiting' \in [0 .. D -> Nat]
    <3>1. waiting \in [0 .. D -> Nat] /\ D \in 0 .. D
      BY DEF TypeOK
    <3>2. QED
      BY <1>6, <3>1, ScheduleType
  <2>2. faults' \in 0 .. MaxFaults
    <3>1. faults \in 0 .. MaxFaults
      BY DEF TypeOK
    <3>2. QED
      BY <1>6, <3>1, FaultType
  <2>3. QED
    BY <1>6, <2>1, <2>2 DEF TypeOK
<1>8. \/ UNCHANGED <<pending, age, ttl, quiet>>
      \/ /\ age' = lag[w] /\ ttl' = 2 * D
         /\ quiet' = MinOf(quiet, lag[w])
  BY DEF Trigger, WorkerStep, GetState, Save, Enqueue, TriggerFails,
         SaveReplyLost, SaveState, record, ghosts
<1>9. /\ age' \in 0 .. D /\ ttl' \in 0 .. 2 * D /\ (pending' => ttl' > 0)
      /\ quiet' \in 0 .. D
  BY <1>1, <1>2, <1>8 DEF TypeOK
<1>10. QED
  BY <1>4, <1>5, <1>7, <1>9 DEF TypeOK

LEMMA TypeExecutor ==
    ASSUME TypeOK, NEW e \in Executors, ExecutorStep(e)
    PROVE  TypeOK'
<1>1. e \in Procs /\ e \notin Workers /\ lag[e] \in 0 .. D
  BY DEF Procs, TypeOK
<1>2. /\ \E label \in ExecutorPCs : pc' = [pc EXCEPT ![e] = label]
      /\ UNCHANGED <<seen, quiet>>
  BY DEF ExecutorStep, Take, Decide, Reschedule, Start, Succeed, CommandFails,
         MarkGet, MarkSet, Ack, TaskFails, MarkReplyLost, GiveBack, Goto,
         ExecutorPCs, Marking, Unstarted, ghosts
<1>3. /\ pc' \in [Procs -> WorkerPCs \cup ExecutorPCs]
      /\ \A w \in Workers : pc'[w] \in WorkerPCs
      /\ \A d \in Executors : pc'[d] \in ExecutorPCs
  BY <1>1, <1>2 DEF TypeOK
<1>4. /\ waiting' \in [0 .. D -> Nat] /\ failed' \subseteq Executors
      /\ faults' \in 0 .. MaxFaults
  <2>1. /\ faults' = faults \/ Fault
        /\ failed' \in {failed, failed \cup {e}, failed \ {e}}
        /\ \/ waiting' = waiting \/ Schedule(0) \/ Schedule(D)
           \/ Take(e)
    BY DEF ExecutorStep, Decide, Reschedule, Start, Succeed, CommandFails,
           MarkGet, MarkSet, Ack, TaskFails, MarkReplyLost, GiveBack, Take
  <2>2. Take(e) => waiting' \in [0 .. D -> Nat]
    BY DEF Take, TypeOK
  <2>3. QED
    <3>1. /\ waiting \in [0 .. D -> Nat] /\ 0 \in 0 .. D /\ D \in 0 .. D
          /\ faults \in 0 .. MaxFaults /\ failed \subseteq Executors
      BY DEF TypeOK
    <3>2. waiting' \in [0 .. D -> Nat]
      BY <2>1, <2>2, <3>1, ScheduleType
    <3>3. faults' \in 0 .. MaxFaults
      BY <2>1, <3>1, FaultType
    <3>4. QED
      BY <2>1, <3>1, <3>2, <3>3
<1>5. lag' \in [Procs -> 0 .. D] /\ owing' \subseteq Workers
  BY DEF ExecutorStep, Take, Decide, Reschedule, Start, Succeed, CommandFails,
         MarkGet, MarkSet, Ack, TaskFails, MarkReplyLost, ghosts, TypeOK
<1>6. \/ UNCHANGED <<pending, age, ttl, orphaned, clobbered>>
      \/ /\ pending' = FALSE /\ age' = lag[e] /\ ttl' = 2 * D
         /\ orphaned' = FALSE
         /\ clobbered' = (clobbered \/ lag[e] > age)
  BY DEF ExecutorStep, Take, Decide, Reschedule, Start, Succeed, CommandFails,
         MarkGet, MarkSet, Ack, TaskFails, MarkReplyLost, record, ghosts,
         SaveState
<1>7. \/ UNCHANGED <<owed, covered>>
      \/ owed' = FALSE /\ covered' = FALSE
  BY DEF ExecutorStep, Take, Decide, Reschedule, Start, Succeed, CommandFails,
         MarkGet, MarkSet, Ack, TaskFails, MarkReplyLost, ghosts
<1>8. FlagsOK'
  <2>1. clobbered' \in BOOLEAN
    BY <1>6, Zenon DEF TypeOK, FlagsOK
  <2>2. QED
    BY <1>6, <1>7, <2>1 DEF TypeOK, FlagsOK
<1>9. /\ age' \in 0 .. D /\ ttl' \in 0 .. 2 * D /\ (pending' => ttl' > 0)
  BY <1>1, <1>6 DEF TypeOK
<1>10. QED
  BY <1>2, <1>3, <1>4, <1>5, <1>8, <1>9 DEF TypeOK, ghosts

LEMMA TypeStep == TypeOK /\ [Next]_vars => TypeOK'
<1> SUFFICES ASSUME TypeOK, [Next]_vars PROVE TypeOK'
  OBVIOUS
<1>1. ASSUME NEW w \in Workers, Trigger(w) \/ WorkerStep(w) PROVE TypeOK'
  BY <1>1, TypeWorker
<1>2. ASSUME NEW e \in Executors, ExecutorStep(e) PROVE TypeOK'
  BY <1>2, TypeExecutor
<1>3. CASE Tick
  <2>1. FlagsOK'
    <3>1. pending' \in BOOLEAN /\ orphaned' \in BOOLEAN
      BY <1>3, Zenon DEF Tick
    <3>2. QED
      BY <1>3, <3>1 DEF Tick, TypeOK, FlagsOK
  <2>2. ttl' \in 0 .. 2 * D /\ (pending' => ttl' > 0)
    <3>1. ttl \in 0 .. 2 * D /\ ttl' = IF ttl = 0 THEN 0 ELSE ttl - 1
      BY <1>3 DEF Tick, TypeOK
    <3>2. pending' => ttl > 1
      BY <1>3, Zenon DEF Tick
    <3>3. QED
      BY <3>1, <3>2
  <2>3. age' \in 0 .. D /\ quiet' \in 0 .. D /\ lag' \in [Procs -> 0 .. D]
    BY <1>3, OlderType DEF Tick, TypeOK
  <2>4. waiting' \in [0 .. D -> Nat]
    BY <1>3 DEF Tick, TypeOK
  <2>5. QED
    BY <1>3, <2>1, <2>2, <2>3, <2>4 DEF Tick, TypeOK
<1>4. CASE Crash
  <2>1. waiting' \in [0 .. D -> Nat]
    BY <1>4, BusyCount DEF Crash, TypeOK
  <2>2. pc' \in [Procs -> {"idle"}]
    BY <1>4 DEF Crash
  <2>3. FlagsOK'
    <3>1. orphaned' \in BOOLEAN
      BY <1>4, Zenon DEF Crash
    <3>2. QED
      BY <1>4, <3>1 DEF Crash, TypeOK, FlagsOK, record
  <2>4. UNCHANGED <<pending, age, ttl>> /\ faults' \in 0 .. MaxFaults
    BY <1>4 DEF Crash, Fault, record, TypeOK
  <2>5. QED
    BY <1>4, <2>1, <2>2, <2>3, <2>4
       DEF Crash, TypeOK, Procs, WorkerPCs, ExecutorPCs
<1>5. CASE UNCHANGED vars
  BY <1>5 DEF vars, record, local, ghosts, TypeOK, FlagsOK
<1>6. QED
  BY <1>1, <1>2, <1>3, <1>4, <1>5 DEF Next

\* The types.
THEOREM TypeCorrect == Spec => []TypeOK
  BY TypeInit, TypeStep, PTL DEF Spec

-----------------------------------------------------------------------------
(* Tasks are not lost: only the start of a command, and only the clearing  *)
(* of the flag, end the two conditions below.                              *)

\* A step of a worker changes no executor and removes no task.
LEMMA WorkerFrame ==
    ASSUME TypeOK, NEW w \in Workers, Trigger(w) \/ WorkerStep(w)
    PROVE  /\ \A e \in Executors : pc'[e] = pc[e]
           /\ \A v \in Workers \ {w} : pc'[v] = pc[v]
           /\ TaskWaits => TaskWaits'
           /\ HasUnstarted => HasUnstarted'
           /\ HasMarking => HasMarking'
<1>1. \E label : pc' = [pc EXCEPT ![w] = label]
  BY DEF Trigger, WorkerStep, GetState, Save, Enqueue, TriggerFails,
         SaveReplyLost, Returned, Goto
<1>2. /\ \A e \in Executors : pc'[e] = pc[e]
      /\ \A v \in Workers \ {w} : pc'[v] = pc[v]
  BY <1>1 DEF TypeOK, Procs
<1>3. waiting' = waiting \/ Schedule(D)
  BY DEF Trigger, WorkerStep, GetState, Save, Enqueue, TriggerFails,
         SaveReplyLost
<1>4. TaskWaits => TaskWaits'
  <2>1. D \in 0 .. D
    OBVIOUS
  <2>2. QED
    BY <1>3, <2>1, ScheduleType DEF TaskWaits
<1>5. QED
  BY <1>2, <1>4 DEF HasUnstarted, HasMarking

\* A step of an executor keeps every other executor, and its own task waits,
\* is in its hands, or has passed the point that matters.
LEMMA ExecutorFrame ==
    ASSUME TypeOK, NEW e \in Executors, ExecutorStep(e)
    PROVE  /\ \A p \in Procs \ {e} : pc'[p] = pc[p]
           /\ TaskWaits => TaskWaits' \/ pc'[e] = "decide"
           /\ pc[e] \in Unstarted =>
                 pc'[e] \in Unstarted \/ TaskWaits' \/ Start(e)
           /\ pc[e] \in Marking =>
                 pc'[e] \in Marking \/ TaskWaits' \/ pending' = FALSE
<1>0. e \in Procs /\ 0 \in 0 .. D /\ D \in 0 .. D
  BY DEF Procs
<1>1. \A p \in Procs \ {e} : pc'[p] = pc[p]
  BY <1>0
     DEF ExecutorStep, Take, Decide, Reschedule, Start, Succeed, CommandFails,
         MarkGet, MarkSet, Ack, TaskFails, MarkReplyLost, GiveBack, Goto, TypeOK
<1>2. ASSUME NEW d \in 0 .. D, Schedule(d) PROVE TaskWaits'
  BY <1>2, ScheduleType DEF TaskWaits
<1>3. CASE Take(e)
  BY <1>0, <1>1, <1>3 DEF Take, Goto, TypeOK, Unstarted, Marking
<1>4. CASE Decide(e) \/ Start(e) \/ Succeed(e) \/ CommandFails(e) \/ MarkGet(e)
  <2>1. waiting' = waiting
    BY <1>4 DEF Decide, Start, Succeed, CommandFails, MarkGet
  <2>2. pc'[e] \in Marking
    BY <1>0, <1>4
       DEF Decide, Start, Succeed, CommandFails, MarkGet, Goto, TypeOK,
           Unstarted, Marking
  <2>3. pc[e] \in Unstarted => pc'[e] \in Unstarted \/ Start(e)
    BY <1>0, <1>4
       DEF Decide, Succeed, CommandFails, MarkGet, Goto, TypeOK, Unstarted
  <2>4. QED
    BY <1>1, <2>1, <2>2, <2>3 DEF TaskWaits
<1>5. CASE Reschedule(e) \/ TaskFails(e) \/ MarkReplyLost(e)
  <2>1. TaskWaits'
    BY <1>0, <1>2, <1>5 DEF Reschedule, TaskFails, MarkReplyLost, GiveBack
  <2>2. QED
    BY <1>1, <2>1
<1>6. CASE MarkSet(e)
  <2>1. pending' = FALSE /\ pc[e] \notin Unstarted
    BY <1>6 DEF MarkSet, SaveState, Unstarted
  <2>2. waiting' = waiting \/ Schedule(0)
    BY <1>6 DEF MarkSet, GiveBack
  <2>3. QED
    BY <1>0, <1>1, <1>2, <2>1, <2>2 DEF TaskWaits
<1>7. CASE Ack(e)
  BY <1>1, <1>7 DEF Ack, TaskWaits, Unstarted, Marking
<1>8. QED
  BY <1>3, <1>4, <1>5, <1>6, <1>7 DEF ExecutorStep

\* Time and crashes keep the tasks too.
LEMMA OtherFrame ==
    ASSUME TypeOK, Tick \/ Crash \/ UNCHANGED vars
    PROVE  /\ HasUnstarted => HasUnstarted'
           /\ HasMarking => HasMarking'
<1>1. CASE Tick
  <2>1. TaskWaits => TaskWaits'
    <3> SUFFICES ASSUME NEW d \in 0 .. D, waiting[d] > 0 PROVE TaskWaits'
      BY DEF TaskWaits
    <3>1. waiting[0] \in Nat /\ waiting[1] \in Nat
      BY DEF TypeOK
    <3>2. CASE d = 0 \/ d = 1
      <4>1. waiting'[0] > 0 /\ 0 \in 0 .. D
        BY <1>1, <3>1, <3>2 DEF Tick
      <4>2. QED
        BY <4>1 DEF TaskWaits
    <3>3. CASE d > 1
      <4>1. d - 1 \in 0 .. D /\ d - 1 # 0 /\ d - 1 # D /\ (d - 1) + 1 = d
        BY <3>3
      <4>2. waiting'[d - 1] = waiting[d]
        BY <1>1, <4>1 DEF Tick
      <4>3. QED
        BY <4>1, <4>2 DEF TaskWaits
    <3>4. QED
      BY <3>2, <3>3
  <2>2. pc' = pc
    BY <1>1 DEF Tick
  <2>3. QED
    BY <2>1, <2>2 DEF HasUnstarted, HasMarking
<1>2. CASE Crash
  <2>1. ASSUME TaskWaits \/ \E e \in Executors : pc[e] # "idle"
        PROVE  TaskWaits'
    <3> DEFINE n == Cardinality({e \in Executors : pc[e] # "idle"})
    <3>1. /\ n \in Nat
          /\ (\E e \in Executors : pc[e] # "idle") => n > 0
      BY BusyCount
    <3>2. waiting' = [waiting EXCEPT ![0] = @ + n]
      BY <1>2 DEF Crash
    <3> HIDE DEF n
    <3>3. waiting \in [0 .. D -> Nat] /\ 0 \in 0 .. D
      BY DEF TypeOK
    <3>4. CASE \E e \in Executors : pc[e] # "idle"
      <4>1. waiting'[0] > 0
        BY <3>1, <3>2, <3>3, <3>4
      <4>2. QED
        BY <3>3, <4>1 DEF TaskWaits
    <3>5. CASE TaskWaits
      BY <3>1, <3>2, <3>3, <3>5 DEF TaskWaits
    <3>6. QED
      BY <2>1, <3>4, <3>5
  <2>2. QED
    BY <2>1 DEF HasUnstarted, HasMarking, Unstarted, Marking
<1>3. CASE UNCHANGED vars
  BY <1>3 DEF vars, local, HasUnstarted, HasMarking, TaskWaits
<1>4. QED
  BY <1>1, <1>2, <1>3

LEMMA CoveredStep == TypeOK /\ CoveredHasTask /\ [Next]_vars => CoveredHasTask'
<1> SUFFICES ASSUME TypeOK, CoveredHasTask, [Next]_vars, covered'
             PROVE  HasUnstarted'
  BY DEF CoveredHasTask
<1>1. ASSUME NEW w \in Workers, Trigger(w) \/ WorkerStep(w)
      PROVE  HasUnstarted'
  <2>1. CASE covered
    BY <1>1, <2>1, WorkerFrame DEF CoveredHasTask
  <2>2. CASE Enqueue(w)
    <3>1. Schedule(D) /\ D \in 0 .. D
      BY <2>2 DEF Enqueue
    <3>2. QED
      BY <3>1, ScheduleType DEF HasUnstarted, TaskWaits
  <2>3. CASE ~covered /\ ~Enqueue(w)
    <3>1. Save(w)
      BY <1>1, <2>3
         DEF WorkerStep, Trigger, GetState, TriggerFails, SaveReplyLost, ghosts
    <3>2. HasUnstarted
      BY <2>3, <3>1 DEF Save, Returned
    <3>3. QED
      BY <1>1, <3>2, WorkerFrame
  <2>4. QED
    BY <2>1, <2>2, <2>3
<1>2. ASSUME NEW e \in Executors, ExecutorStep(e) PROVE HasUnstarted'
  <2>1. covered /\ ~Start(e)
    BY <1>2 DEF ExecutorStep, Take, Decide, Reschedule, Start, Succeed,
            CommandFails, MarkGet, MarkSet, Ack, TaskFails, MarkReplyLost,
            ghosts
  <2>2. HasUnstarted
    BY <2>1 DEF CoveredHasTask
  <2>3. QED
    BY <1>2, <2>1, <2>2, ExecutorFrame DEF HasUnstarted, Unstarted, Procs
<1>3. CASE Tick \/ Crash \/ UNCHANGED vars
  <2>1. covered' = covered
    BY <1>3 DEF Tick, Crash, vars, ghosts
  <2>2. QED
    BY <1>3, <2>1, OtherFrame DEF CoveredHasTask
<1>4. QED
  BY <1>1, <1>2, <1>3 DEF Next

\* A trigger that returned with a task to count on is never left without one.
THEOREM CoveredTriggersKeepATask == Spec => []CoveredHasTask
<1>1. Init => CoveredHasTask
  BY DEF Init, CoveredHasTask
<1>2. QED
  BY <1>1, CoveredStep, TypeCorrect, PTL DEF Spec

-----------------------------------------------------------------------------
(* The pending flag.                                                       *)

LEMMA FlagStep == TypeOK /\ FlagHasTask /\ [Next]_vars => FlagHasTask'
<1> DEFINE Promise == \E w \in Workers : pc[w] = "enqueue"
<1> SUFFICES ASSUME TypeOK, FlagHasTask, [Next]_vars, pending', ~orphaned'
             PROVE  HasMarking' \/ Promise'
  BY DEF FlagHasTask
<1>1. ASSUME NEW w \in Workers, Trigger(w) \/ WorkerStep(w)
      PROVE  HasMarking' \/ Promise'
  <2>1. w \in Procs
    BY DEF Procs
  <2>2. CASE Enqueue(w)
    <3>1. Schedule(D) /\ D \in 0 .. D
      BY <2>2 DEF Enqueue
    <3>2. QED
      BY <3>1, ScheduleType DEF HasMarking, TaskWaits
  <2>3. CASE Save(w) /\ w \notin seen
    <3>1. pc'[w] = "enqueue"
      BY <2>1, <2>3 DEF Save, Goto, TypeOK
    <3>2. QED
      BY <3>1
  <2>4. CASE ~Enqueue(w) /\ ~(Save(w) /\ w \notin seen)
    <3>1. pending /\ ~orphaned /\ pc[w] # "enqueue"
      <4>1. CASE Trigger(w) \/ GetState(w)
        <5>1. UNCHANGED <<pending, orphaned>> /\ pc[w] # "enqueue"
          BY <4>1 DEF Trigger, GetState, record, ghosts
        <5>2. QED
          BY <5>1
      <4>2. CASE Save(w) /\ w \in seen
        <5>1. pending /\ ~orphaned
          BY <4>2, Zenon DEF Save
        <5>2. pc[w] # "enqueue"
          BY <4>2 DEF Save
        <5>3. QED
          BY <5>1, <5>2
      <4>3. CASE TriggerFails(w)
        <5>1. ~orphaned /\ pc[w] # "enqueue"
          BY <4>3, Zenon DEF TriggerFails
        <5>2. QED
          BY <4>3, <5>1 DEF TriggerFails, record
      <4>4. CASE SaveReplyLost(w)
        <5>1. pending /\ ~orphaned
          BY <4>4, Zenon DEF SaveReplyLost
        <5>2. pc[w] # "enqueue"
          BY <4>4 DEF SaveReplyLost
        <5>3. QED
          BY <5>1, <5>2
      <4>5. QED
        BY <1>1, <2>4, <4>1, <4>2, <4>3, <4>4 DEF WorkerStep
    <3>2. HasMarking \/ \E v \in Workers \ {w} : pc[v] = "enqueue"
      BY <3>1 DEF FlagHasTask
    <3>3. QED
      BY <1>1, <3>2, WorkerFrame
  <2>5. QED
    BY <2>2, <2>3, <2>4
<1>2. ASSUME NEW e \in Executors, ExecutorStep(e)
      PROVE  HasMarking' \/ Promise'
  <2>1. /\ UNCHANGED <<pending, orphaned>>
        /\ pending' # FALSE
    <3>1. UNCHANGED <<pending, orphaned>> \/ pending' = FALSE
      BY <1>2 DEF ExecutorStep, Take, Decide, Reschedule, Start, Succeed,
              CommandFails, MarkGet, MarkSet, Ack, TaskFails, MarkReplyLost,
              SaveState, record, ghosts
    <3>2. pending' # FALSE
      OBVIOUS
    <3>3. QED
      BY <3>1, <3>2
  <2>2. CASE Promise
    <3>1. PICK w \in Workers : pc[w] = "enqueue"
      BY <2>2
    <3>2. pc'[w] = "enqueue"
      BY <1>2, <3>1, ExecutorFrame DEF Procs
    <3>3. QED
      BY <3>2
  <2>3. CASE HasMarking
    BY <1>2, <2>3, ExecutorFrame DEF HasMarking, Marking, Unstarted, Procs
  <2>4. QED
    BY <2>1, <2>2, <2>3 DEF FlagHasTask
<1>3. CASE Tick \/ UNCHANGED vars
  <2>1. pending /\ ~orphaned
    <3>1. CASE Tick
      BY <3>1, Zenon DEF Tick
    <3>2. CASE UNCHANGED vars
      BY <3>2 DEF vars, record, ghosts
    <3>3. QED
      BY <1>3, <3>1, <3>2
  <2>2. HasMarking \/ Promise
    BY <2>1 DEF FlagHasTask
  <2>3. pc' = pc
    BY <1>3 DEF Tick, vars, local
  <2>4. QED
    BY <1>3, <2>2, <2>3, OtherFrame
<1>4. CASE Crash
  <2>1. ~orphaned /\ ~Promise
    BY <1>4, Zenon DEF Crash
  <2>2. pending
    BY <1>4 DEF Crash, record
  <2>3. QED
    BY <1>4, <2>1, <2>2, OtherFrame DEF FlagHasTask
<1>5. QED
  BY <1>1, <1>2, <1>3, <1>4 DEF Next

\* The flag lies about an existing task only after one of the named failures.
THEOREM FlagTellsOfATask == Spec => []FlagHasTask
<1>1. Init => FlagHasTask
  BY DEF Init, FlagHasTask
<1>2. QED
  BY <1>1, FlagStep, TypeCorrect, PTL DEF Spec

-----------------------------------------------------------------------------
(* Quiet periods.  The recorded age never understates the time since the    *)
(* last request; it tells that time exactly unless an older time was        *)
(* written last; and a record cannot expire before its request is D old.    *)

AgeInv == /\ quiet <= age
          /\ ~clobbered => age = quiet
          /\ \A e \in Executors : pc[e] = "markset" => quiet <= lag[e]
          /\ age = D \/ (ttl > 0 /\ age + ttl >= 2 * D)

LEMMA AgeSave ==
    ASSUME TypeOK, AgeInv, NEW w \in Workers, Save(w) \/ SaveReplyLost(w)
    PROVE  AgeInv'
<1>1. lag[w] \in 0 .. D /\ quiet \in 0 .. D /\ age \in 0 .. D
  BY DEF TypeOK, Procs
<1>2. /\ age' = lag[w] /\ ttl' = 2 * D /\ quiet' = MinOf(quiet, lag[w])
      /\ Rewrites(lag[w]) /\ lag' = lag
  BY DEF Save, SaveReplyLost, SaveState
<1>3. quiet' <= quiet /\ quiet' <= lag[w] /\ quiet' \in {quiet, lag[w]}
  BY <1>1, <1>2, MinOfType
<1>4. ~clobbered' => lag[w] <= age /\ (~clobbered \/ quiet' >= lag[w])
  <2>1. clobbered' = IF lag[w] > age THEN TRUE
                     ELSE clobbered /\ quiet' < lag[w]
    BY <1>2 DEF Rewrites
  <2>2. CASE lag[w] > age
    BY <2>1, <2>2
  <2>3. CASE ~(lag[w] > age)
    <3>1. ~clobbered' => ~clobbered \/ ~(quiet' < lag[w])
      BY <2>1, <2>3, Zenon
    <3>2. QED
      BY <1>1, <1>3, <2>3, <3>1
  <2>4. QED
    BY <2>2, <2>3
<1>5. ~clobbered' => age' = quiet'
  BY <1>1, <1>2, <1>3, <1>4 DEF AgeInv
<1>6. ASSUME NEW e \in Executors, pc'[e] = "markset" PROVE quiet' <= lag'[e]
  <2>1. pc[e] = "markset" /\ lag[e] \in 0 .. D
    BY <1>6, WorkerFrame DEF WorkerStep, TypeOK, Procs
  <2>2. quiet <= lag[e]
    BY <2>1 DEF AgeInv
  <2>3. QED
    BY <1>1, <1>2, <1>3, <2>1, <2>2
<1>7. ttl' > 0 /\ age' + ttl' >= 2 * D
  BY <1>1, <1>2
<1>8. QED
  BY <1>2, <1>3, <1>5, <1>6, <1>7 DEF AgeInv

LEMMA AgeExecutor ==
    ASSUME TypeOK, AgeInv, NEW e \in Executors, ExecutorStep(e)
    PROVE  AgeInv'
<1>1. /\ e \in Procs /\ lag[e] \in 0 .. D /\ quiet \in 0 .. D /\ age \in 0 .. D
      /\ quiet' = quiet
  BY DEF TypeOK, Procs, ExecutorStep, Take, Decide, Reschedule, Start, Succeed,
         CommandFails, MarkGet, MarkSet, Ack, TaskFails, MarkReplyLost, ghosts
<1>2. CASE MarkSet(e) \/ MarkReplyLost(e)
  <2>1. /\ age' = lag[e] /\ ttl' = 2 * D /\ lag' = lag
        /\ clobbered' = (clobbered \/ lag[e] > age)
        /\ pc[e] = "markset" /\ pc'[e] # "markset"
    BY <1>1, <1>2
       DEF MarkSet, MarkReplyLost, SaveState, GiveBack, Goto, TypeOK
  <2>2. ~clobbered' => ~clobbered /\ ~(lag[e] > age)
    BY <2>1, Zenon
  <2>3. quiet <= lag[e] /\ (~clobbered' => lag[e] = quiet)
    BY <1>1, <2>1, <2>2 DEF AgeInv
  <2>4. \A d \in Executors : pc'[d] = "markset" => pc[d] = "markset"
    BY <2>1, ExecutorFrame DEF Procs
  <2>5. age' + ttl' >= 2 * D /\ ttl' > 0
    BY <1>1, <2>1
  <2>6. QED
    BY <1>1, <2>1, <2>3, <2>4, <2>5 DEF AgeInv
<1>3. CASE MarkGet(e)
  <2>1. /\ UNCHANGED <<age, ttl, clobbered>>
        /\ lag' = [lag EXCEPT ![e] = age]
    BY <1>3 DEF MarkGet, record, ghosts
  <2>2. \A d \in Executors : pc'[d] = "markset" => d = e \/ pc[d] = "markset"
    BY ExecutorFrame DEF Procs
  <2>3. \A d \in Executors : pc'[d] = "markset" => quiet <= lag'[d]
    BY <1>1, <2>1, <2>2 DEF AgeInv, TypeOK, Procs
  <2>4. QED
    BY <1>1, <2>1, <2>3 DEF AgeInv
<1>4. CASE ~MarkSet(e) /\ ~MarkReplyLost(e) /\ ~MarkGet(e)
  <2>1. UNCHANGED <<age, ttl, clobbered, lag>> /\ pc'[e] # "markset"
    BY <1>1, <1>4
       DEF ExecutorStep, Take, Decide, Reschedule, Start, Succeed,
           CommandFails, Ack, TaskFails, GiveBack, Goto, record, ghosts, TypeOK
  <2>2. \A d \in Executors : pc'[d] = "markset" => pc[d] = "markset"
    BY <2>1, ExecutorFrame DEF Procs
  <2>3. QED
    BY <1>1, <2>1, <2>2 DEF AgeInv
<1>5. QED
  BY <1>2, <1>3, <1>4

LEMMA AgeTick ==
    ASSUME TypeOK, AgeInv, Tick
    PROVE  AgeInv'
<1>1. /\ quiet \in 0 .. D /\ age \in 0 .. D /\ ttl \in 0 .. 2 * D
      /\ quiet' = Older(quiet) /\ clobbered' = clobbered /\ pc' = pc
      /\ age' = IF ttl > 1 THEN Older(age) ELSE D
      /\ ttl' = IF ttl = 0 THEN 0 ELSE ttl - 1
  BY DEF TypeOK, Tick
<1>2. quiet' <= age'
  <2>1. Older(quiet) <= Older(age) /\ Older(quiet) <= D
    BY <1>1 DEF AgeInv, Older, MinOf
  <2>2. QED
    BY <1>1, <2>1
<1>3. ttl <= 1 => age = D
  BY <1>1 DEF AgeInv
<1>4. ASSUME ~clobbered' PROVE age' = quiet'
  <2>1. age = quiet
    BY <1>1, <1>4 DEF AgeInv
  <2>2. age = D => Older(age) = D
    BY <1>1 DEF Older, MinOf
  <2>3. QED
    BY <1>1, <1>3, <2>1, <2>2
<1>5. ASSUME NEW e \in Executors, pc'[e] = "markset" PROVE quiet' <= lag'[e]
  <2>1. e \in Procs /\ lag[e] \in 0 .. D /\ pc[e] = "markset"
    BY <1>1, <1>5 DEF TypeOK, Procs
  <2>2. lag'[e] = Older(lag[e]) /\ quiet <= lag[e]
    BY <2>1 DEF Tick, AgeInv
  <2>3. QED
    BY <1>1, <2>1, <2>2 DEF Older, MinOf
<1>6. age' = D \/ (ttl' > 0 /\ age' + ttl' >= 2 * D)
  <2>1. CASE ttl <= 1
    BY <1>1, <2>1
  <2>2. CASE ttl > 1
    <3>1. Older(age) = D \/ Older(age) = age + 1
      BY <1>1, OlderType
    <3>2. age = D => Older(age) = D
      BY <1>1 DEF Older, MinOf
    <3>3. QED
      BY <1>1, <2>2, <3>1, <3>2 DEF AgeInv
  <2>3. QED
    BY <1>1, <2>1, <2>2
<1>7. QED
  BY <1>2, <1>4, <1>5, <1>6 DEF AgeInv

LEMMA AgeStep == TypeOK /\ AgeInv /\ [Next]_vars => AgeInv'
<1> SUFFICES ASSUME TypeOK, AgeInv, [Next]_vars PROVE AgeInv'
  OBVIOUS
<1>1. ASSUME NEW w \in Workers, Trigger(w) \/ WorkerStep(w) PROVE AgeInv'
  <2>1. CASE Save(w) \/ SaveReplyLost(w)
    BY <2>1, AgeSave
  <2>2. CASE ~Save(w) /\ ~SaveReplyLost(w)
    <3>1. /\ UNCHANGED <<age, ttl, quiet, clobbered>>
          /\ lag' = lag \/ lag' = [lag EXCEPT ![w] = 0]
      BY <1>1, <2>2
         DEF WorkerStep, Trigger, GetState, Enqueue, TriggerFails, record,
             ghosts
    <3>2. \A e \in Executors : pc'[e] = pc[e] /\ lag'[e] = lag[e]
      BY <1>1, <3>1, WorkerFrame DEF TypeOK, Procs
    <3>3. QED
      BY <3>1, <3>2 DEF AgeInv
  <2>3. QED
    BY <2>1, <2>2
<1>2. ASSUME NEW e \in Executors, ExecutorStep(e) PROVE AgeInv'
  BY <1>2, AgeExecutor
<1>3. CASE Tick
  BY <1>3, AgeTick
<1>4. CASE Crash
  BY <1>4 DEF Crash, AgeInv, record, Procs
<1>5. CASE UNCHANGED vars
  BY <1>5 DEF vars, record, local, ghosts, AgeInv
<1>6. QED
  BY <1>1, <1>2, <1>3, <1>4, <1>5 DEF Next

\* The command is decided on only after D quiet ticks, unless two writers of
\* the record overlapped.
THEOREM CommandsWaitForQuiet == Spec => DecidesWhenQuiet
<1>1. Init => AgeInv
  BY DEF Init, AgeInv, Procs
<1>2. TypeOK /\ AgeInv /\ [Next]_vars =>
        [\A e \in Executors : pc[e] = "decide" /\ pc'[e] = "start"
                                => quiet = D \/ clobbered]_vars
  <2> SUFFICES ASSUME TypeOK, AgeInv, Next, NEW e \in Executors,
                      pc[e] = "decide", pc'[e] = "start", ~clobbered
               PROVE  quiet = D
    OBVIOUS
  <2>1. ASSUME NEW w \in Workers, Trigger(w) \/ WorkerStep(w) PROVE FALSE
    BY <2>1, WorkerFrame
  <2>2. ~Tick /\ ~Crash
    BY DEF Tick, Crash, Procs
  <2>3. PICK d \in Executors : ExecutorStep(d)
    BY <2>1, <2>2 DEF Next
  <2>4. d = e
    BY <2>3, ExecutorFrame DEF Procs
  <2>5. Decide(e)
    <3>1. e \in Procs /\ pc \in [Procs -> WorkerPCs \cup ExecutorPCs]
      BY DEF Procs, TypeOK
    <3>2. ~TaskFails(e)
      BY <3>1 DEF TaskFails, GiveBack, Goto
    <3>3. QED
      BY <2>3, <2>4, <3>2
         DEF ExecutorStep, Take, Reschedule, Start, Succeed, CommandFails,
             MarkGet, MarkSet, Ack, MarkReplyLost
  <2>6. age >= D
    BY <2>5 DEF Decide, Goto, TypeOK, Procs
  <2>7. QED
    BY <2>6 DEF AgeInv, TypeOK
<1>3. QED
  BY <1>1, <1>2, AgeStep, TypeCorrect, PTL DEF Spec, DecidesWhenQuiet
=============================================================================
