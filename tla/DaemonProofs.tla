----------------------------- MODULE DaemonProofs -----------------------------
(***************************************************************************)
(* What Daemon promises, for all requests, files, bodies and numbers of    *)
(* signals and crashes: the types, one handler for a task, that what was   *)
(* accepted keeps its tasks whatever happens to the process, and which     *)
(* directories stay empty.                                                 *)
(***************************************************************************)
EXTENDS Daemon, PublisherProofs

\* The tasks of processes that are gone are running ones to asynq.
DeadRun == \A id \in dead : id \in DOMAIN tasks /\ tasks[id].state \in {"sync", "clean"}

\* A handler whose task was given back belongs to a server that was stopped.
LooseStopped == DOMAIN loose # {} => server \in {"own", "daemon", "closed"}

ProcessType ==
    /\ main \in {"down", "up", "close", "http", "stop"}
    /\ server \in {"new", "started", "ready", "told", "own", "daemon", "closed"}
    /\ done \in BOOLEAN /\ expired \in BOOLEAN
    /\ signals \in 0 .. MaxSignals

LooseType == DOMAIN loose \subseteq Ids /\ \A id \in DOMAIN loose : loose[id] \in Task

\* When tasks were given back, all were, and no other was taken since.
LooseAlone == DOMAIN loose # {} => Active = {}

PInv == ProcessType /\ LooseType /\ DeadRun /\ LooseStopped /\ LooseAlone

EInv == OInv /\ PInv

-----------------------------------------------------------------------------
(* Steps of Publisher.                                                     *)

\* They keep what Publisher promises, and so do those that leave it alone.
LEMMA OwedInside ==
    ASSUME OInv,
           \/ \E r \in Requests : Serve(r) \/ \E b \in Bodies : Accept(r, b)
           \/ \E id \in Ids : Work(id) \/ Forget(id)
           \/ \E f \in Files : Write(f)
           \/ Close
           \/ UNCHANGED vars
    PROVE  OInv'
  <1>1. [Next]_vars
    BY DEF Serve, Accept, Work, Next, TaskStep
  <1>. QED BY <1>1, OwedKept

\* A task that no worker of this process runs stays so, or is taken from the queue.
LEMMA DeadInside ==
    ASSUME PInv, UNCHANGED <<process, dead, loose, signals>>,
           \A i \in dead : i \in DOMAIN tasks' /\ tasks'[i] = tasks[i],
           DOMAIN loose # {} => Active' \subseteq Active
    PROVE  PInv'
  <1>1. ProcessType' /\ LooseType' /\ LooseStopped'
    BY DEF PInv, ProcessType, LooseType, LooseStopped, process
  <1>2. DeadRun'
    BY DEF PInv, DeadRun
  <1>3. LooseAlone'
    BY DEF PInv, LooseAlone
  <1>. QED BY <1>1, <1>2, <1>3 DEF PInv

\* Requests.
LEMMA InsideRequest ==
    ASSUME EInv, NEW r \in Requests, Serve(r) \/ \E b \in Bodies : Accept(r, b)
    PROVE  PInv'
  <1>1. UNCHANGED tasks \/ \E f \in Files : Store(r, f)
    BY DEF Serve, Accept, RequestStep, Receive, Resolve, Scan, Inspect, Enqueue, Conflict,
        EnqueueFails, WalkFails
  <1>2. UNCHANGED <<process, dead, loose, signals>>
    BY DEF Serve, Accept, Elsewhere
  <1>3. \A id \in DOMAIN tasks : id \in DOMAIN tasks' /\ tasks'[id] = tasks[id]
    BY <1>1, StoreKeeps
  <1>4. \A id \in DOMAIN tasks' : id \in DOMAIN tasks \/ tasks'[id].state = "pending"
    <2>1. ASSUME NEW f \in Files, Store(r, f), NEW id \in DOMAIN tasks', id \notin DOMAIN tasks
          PROVE  tasks'[id].state = "pending"
      BY <2>1 DEF Store, Known
    <2>. QED BY <1>1, <2>1
  <1>5. \A i \in dead : i \in DOMAIN tasks
    BY DEF EInv, PInv, DeadRun
  <1>6. Active' \subseteq Active
    BY <1>2, <1>3, <1>4 DEF Active
  <1>. QED BY <1>2, <1>3, <1>5, <1>6, DeadInside DEF EInv

\* Handlers.
LEMMA InsideTask ==
    ASSUME EInv, NEW id \in Ids, Work(id) \/ (Forget(id) /\ Elsewhere)
    PROVE  PInv'
  <1>. USE DEF EInv
  <1>1. UNCHANGED <<process, dead, loose, signals>>
    BY DEF Work, Elsewhere
  <1>2. \A i \in DOMAIN tasks : i # id => i \in DOMAIN tasks' /\ tasks'[i] = tasks[i]
    BY DEF Work, Take, Sync, Remove, CleanUp, Done, Retry, Archive, Forget
  <1>3. DOMAIN tasks' \subseteq DOMAIN tasks
    BY DEF Work, Take, Sync, Remove, CleanUp, Done, Retry, Archive, Forget
  <1>4. id \notin dead
    BY DEF PInv, DeadRun, Work, Take, Forget, Active
  <1>5. \A i \in dead : i \in DOMAIN tasks' /\ tasks'[i] = tasks[i]
    BY <1>2, <1>4 DEF PInv, DeadRun
  <1>6. ASSUME DOMAIN loose # {}, NEW i \in Active'
        PROVE  i \in Active
    <2>1. i \in DOMAIN tasks' /\ tasks'[i].state \in {"sync", "clean"} /\ i \notin dead
      BY <1>1, <1>6 DEF Active
    <2>2. CASE i # id
      BY <1>2, <1>3, <2>1, <2>2 DEF Active
    <2>3. CASE i = id /\ id \in Active
      BY <2>3
    <2>4. CASE Serving /\ Take(id)
      BY <1>6, <2>4 DEF Serving, PInv, LooseStopped
    <2>5. CASE i = id /\ Forget(id)
      BY <2>1, <2>5 DEF Forget
    <2>. QED BY <2>2, <2>3, <2>4, <2>5 DEF Work
  <1>. QED BY <1>1, <1>5, <1>6, DeadInside

-----------------------------------------------------------------------------
(* Steps of the process.                                                   *)

\* Steps that change neither tasks nor handlers.
LEMMA ProcessSteps ==
    ASSUME EInv, Boot \/ Signal \/ Start \/ Drained \/ CloseHandler \/ StopHTTP
                 \/ StopServer \/ Expire
    PROVE  EInv'
  <1>. USE DEF EInv
  <1>1. UNCHANGED <<tasks, dead, loose>>
    BY DEF Boot, Signal, Start, Drained, CloseHandler, Close, StopHTTP, StopServer, Expire,
        vars
  <1>2. PInv'
    <2>1. ProcessType'
      <3>. USE DEF PInv, ProcessType
      <3>1. CASE Boot
        BY <3>1 DEF Boot
      <3>2. CASE Signal
        <4>1. signals + 1 \in 0 .. MaxSignals
          BY <3>2, DaemonAssumption DEF Signal
        <4>. QED BY <3>2, <4>1 DEF Signal
      <3>3. CASE Start
        BY <3>3 DEF Start
      <3>4. CASE Drained
        BY <3>4 DEF Drained
      <3>5. CASE CloseHandler
        BY <3>5 DEF CloseHandler
      <3>6. CASE StopHTTP
        BY <3>6 DEF StopHTTP
      <3>7. CASE StopServer
        BY <3>7 DEF StopServer
      <3>8. CASE Expire
        BY <3>8 DEF Expire
      <3>. QED BY <3>1, <3>2, <3>3, <3>4, <3>5, <3>6, <3>7, <3>8
    <2>2. LooseStopped'
      BY <1>1 DEF PInv, ProcessType, LooseStopped, Boot, Signal, Start, Drained, CloseHandler,
          StopHTTP, StopServer, Expire, Serving
    <2>. QED BY <1>1, <2>1, <2>2 DEF PInv, LooseType, DeadRun, LooseAlone, Active
  <1>3. ASSUME UNCHANGED vars \/ Close PROVE OInv'
    BY <1>3, OwedInside
  <1>4. ASSUME Boot PROVE OInv'
    <2>1. UNCHANGED <<source, tasks, request, faults>> /\ client' = "open"
      BY <1>4 DEF Boot
    <2>2. TInv'
      BY <2>1 DEF OInv, TInv, TypeOK, AtItem, AtFirst, source, request
    <2>3. Versions'
      BY <2>1, VersionsFall DEF source, request
    <2>4. Owed'
      BY <2>1, OwedByTask, HasTaskStays DEF request
    <2>. QED BY <2>2, <2>3, <2>4 DEF OInv
  <1>5. OInv'
    BY <1>3, <1>4 DEF Signal, Start, Drained, CloseHandler, StopHTTP, StopServer, Expire
  <1>. QED BY <1>2, <1>5

\* The end of the process.
LEMMA GoneStep ==
    ASSUME EInv, Gone, faults' \in 0 .. MaxFaults
    PROVE  EInv'
  <1>. USE DEF EInv
  <1>1. /\ UNCHANGED <<disk, written, dirs, tasks, signals>> /\ client' = "closed"
        /\ dead' = dead \cup Active /\ main' = "down" /\ server' = "new"
        /\ done' = FALSE /\ expired' = FALSE /\ loose' = [id \in {} |-> {}]
        /\ left' = left \cup {d \in Looking \cap dirs : Empty(d)}
    BY DEF Gone
  <1>2. DOMAIN loose' = {}
    BY <1>1
  <1>3. PInv'
    <2>1. ProcessType'
      BY <1>1 DEF PInv, ProcessType
    <2>2. DeadRun'
      BY <1>1 DEF PInv, DeadRun, Active
    <2>. QED BY <1>2, <2>1, <2>2 DEF PInv, LooseType, LooseStopped, LooseAlone
  <1>. DEFINE cut == {r \in Requests : pc[r] \in Running}
  <1>4. /\ pc' = [r \in Requests |-> IF r \in cut THEN "error" ELSE pc[r]]
        /\ body' = [r \in Requests |-> IF r \in cut THEN <<>> ELSE body[r]]
        /\ at' = [r \in Requests |-> IF r \in cut THEN 1 ELSE at[r]]
        /\ todo' = [r \in Requests |-> IF r \in cut THEN {} ELSE todo[r]]
        /\ promise' = [r \in Requests |-> IF r \in cut THEN {} ELSE promise[r]]
    BY DEF Gone, Running
  <1>. HIDE DEF cut
  <1>5. TInv'
    <2>1. /\ pc' \in [Requests -> {"idle", "resolve", "scan", "stat", "enqueue", "ok",
                                   "error"}]
          /\ body' \in [Requests -> Bodies \cup {<<>>}]
          /\ at' \in [Requests -> Nat \ {0}]
          /\ todo' \in [Requests -> SUBSET (Files \cup Dirs)]
          /\ promise' \in [Requests -> SUBSET [file : Files, target : Targets,
                                               version : 1 .. MaxWrites]]
      BY <1>4 DEF OInv, TInv, TypeOK
    <2>2. AtItem' /\ AtFirst'
      BY <1>4 DEF cut, OInv, TInv, AtItem, AtFirst, Running
    <2>. QED BY <1>1, <2>1, <2>2 DEF OInv, TInv, TypeOK, source
  <1>6. \A q \in Requests : promise'[q] \subseteq promise[q]
    BY <1>4
  <1>7. Versions'
    BY <1>1, <1>6, VersionsFall DEF source
  <1>8. Owed'
    <2>. SUFFICES ASSUME NEW q \in Requests, NEW p \in promise'[q]
                  PROVE  HasTask(p)'
      BY DEF Owed
    <2>1. q \notin cut /\ p \in promise[q]
      BY <1>4
    <2>2. HasTask(p)
      BY <2>1 DEF cut, Running, OInv, Owed, Open
    <2>. QED BY <1>1, <2>2, HasTaskStays
  <1>. QED BY <1>3, <1>5, <1>7, <1>8 DEF OInv

\* A crash, or the exit.
LEMMA EndSteps ==
    ASSUME EInv, Kill \/ Exit
    PROVE  EInv'
  <1>1. faults' \in 0 .. MaxFaults
    BY PublisherAssumption DEF Kill, Exit, EInv, OInv, TInv, TypeOK
  <1>. QED BY <1>1, GoneStep DEF Kill, Exit

\* Tasks are given back to the queue.
LEMMA AbortStep ==
    ASSUME EInv, Abort
    PROVE  EInv'
  <1>. USE DEF EInv
  <1>. DEFINE back(id) == [tasks[id] EXCEPT !.state = "pending", !.read = 0, !.dir = <<>>]
  <1>1. /\ UNCHANGED <<source, client, request, faults, process, dead, signals>>
        /\ server \in {"own", "daemon"}
        /\ loose' = [id \in Active |-> tasks[id]]
        /\ tasks' = [id \in DOMAIN tasks |-> IF id \in Active THEN back(id) ELSE tasks[id]]
    BY DEF Abort
  <1>2. ASSUME NEW id \in DOMAIN tasks
        PROVE  back(id) \in Task /\ back(id).state = "pending"
               /\ back(id).file = tasks[id].file /\ back(id).target = tasks[id].target
    <2>1. tasks[id] \in Task
      BY TaskType DEF OInv
    <2>2. 0 \in 0 .. MaxWrites
      BY PublisherAssumption
    <2>. QED BY <2>1, <2>2 DEF Task
  <1>. HIDE DEF back
  <1>3. Active \subseteq DOMAIN tasks /\ Active \cap dead = {}
    BY DEF Active
  <1>4. TInv'
    <2>1. DOMAIN tasks' \subseteq Ids /\ \A id \in DOMAIN tasks' : tasks'[id] \in Task
      BY <1>1, <1>2 DEF OInv, TInv, TypeOK
    <2>. QED BY <1>1, <2>1 DEF OInv, TInv, TypeOK, AtItem, AtFirst, source, request
  <1>5. Versions'
    BY <1>1, VersionsFall DEF source, request
  <1>6. ASSUME NEW p, HasTask(p) PROVE HasTask(p)'
    <2>1. PICK i \in DOMAIN tasks : Serves(tasks[i], p)
      BY <1>6 DEF HasTask
    <2>2. Serves(tasks'[i], p)
      BY <1>1, <1>2, <2>1 DEF Serves
    <2>. QED BY <1>1, <2>1, <2>2 DEF HasTask, Serves
  <1>7. Owed'
    BY <1>1, <1>6, OwedByTask DEF request
  <1>8. PInv'
    <2>1. ProcessType' /\ LooseStopped'
      BY <1>1 DEF PInv, ProcessType, LooseStopped, process
    <2>2. LooseType'
      BY <1>1, <1>3 DEF LooseType, OInv, TInv, TypeOK
    <2>3. DeadRun'
      BY <1>1, <1>3 DEF PInv, DeadRun
    <2>4. Active' = {}
      BY <1>1, <1>2 DEF Active
    <2>. QED BY <2>1, <2>2, <2>3, <2>4 DEF PInv, LooseAlone
  <1>. QED BY <1>4, <1>5, <1>7, <1>8 DEF OInv

\* A task is recovered.
LEMMA RecoverStep ==
    ASSUME EInv, NEW id \in Ids, Recover(id)
    PROVE  EInv'
  <1>. USE DEF EInv
  <1>1. /\ id \in dead /\ id \in DOMAIN tasks /\ tasks[id].state \in {"sync", "clean"}
        /\ dead' = dead \ {id}
        /\ UNCHANGED <<source, client, pc, body, at, todo, faults, process, loose,
                       signals>>
    BY DEF Recover, PInv, DeadRun
  <1>2. tasks[id] \in Task /\ 0 \in 0 .. MaxWrites
    BY <1>1, TaskType, PublisherAssumption DEF OInv
  <1>3. ASSUME NEW t \in Task, tasks' = [tasks EXCEPT ![id] = t],
               t.state \in {"pending", "archived"}, PromiseType,
               \A q \in Requests : \A p \in promise'[q] :
                    p \in promise[q] /\ (Serves(tasks[id], p) => Serves(t, p))
        PROVE  EInv'
    <2>1. TInv'
      BY <1>1, <1>3, UpdateType DEF OInv, TInv, TypeOK, AtItem, AtFirst, TasksType,
          PromiseType, source
    <2>2. Versions'
      BY <1>1, <1>3, VersionsFall DEF source
    <2>3. Owed'
      BY <1>1, <1>3, HasTaskUpdated, OwedByTask
    <2>4. DOMAIN tasks' = DOMAIN tasks /\ tasks'[id] = t
          /\ \A i \in DOMAIN tasks : i # id => tasks'[i] = tasks[i]
      BY <1>1, <1>3
    <2>5. PInv'
      <3>1. ProcessType' /\ LooseType' /\ LooseStopped'
        BY <1>1 DEF PInv, ProcessType, LooseType, LooseStopped, process
      <3>2. DeadRun'
        BY <1>1, <2>4 DEF PInv, DeadRun
      <3>3. Active' \subseteq Active
        BY <1>1, <1>3, <2>4 DEF Active
      <3>. QED BY <1>1, <3>1, <3>2, <3>3 DEF PInv, LooseAlone
    <2>. QED BY <2>1, <2>2, <2>3, <2>5 DEF OInv
  <1>4. CASE /\ tasks[id].retried < MaxRetry
             /\ tasks' = [tasks EXCEPT ![id].state = "pending", ![id].retried = @ + 1,
                                       ![id].read = 0, ![id].dir = <<>>]
             /\ UNCHANGED promise
    <2>. DEFINE t == [tasks[id] EXCEPT !.state = "pending",
                         !.retried = tasks[id].retried + 1, !.read = 0, !.dir = <<>>]
    <2>1. tasks[id].retried + 1 \in 0 .. MaxRetry
      BY <1>1, <1>4, TaskType, PublisherAssumption DEF OInv
    <2>2. t \in Task /\ t.state = "pending" /\ t.file = tasks[id].file
          /\ t.target = tasks[id].target
      BY <1>2, <2>1 DEF Task
    <2>3. tasks' = [tasks EXCEPT ![id] = t]
      BY <1>4
    <2>. HIDE DEF t
    <2>4. \A p : Serves(tasks[id], p) => Serves(t, p)
      BY <2>2 DEF Serves
    <2>5. PromiseType
      BY <1>4 DEF OInv, TInv, TypeOK, PromiseType
    <2>. QED BY <1>3, <1>4, <2>2, <2>3, <2>4, <2>5
  <1>5. CASE /\ tasks' = [tasks EXCEPT ![id].state = "archived", ![id].dir = <<>>]
             /\ Kept(id)
    <2>. DEFINE t == [tasks[id] EXCEPT !.state = "archived", !.dir = <<>>]
    <2>1. t \in Task /\ t.state = "archived"
      BY <1>2 DEF Task
    <2>2. tasks' = [tasks EXCEPT ![id] = t]
      BY <1>5
    <2>. HIDE DEF t
    <2>. QED BY <1>1, <1>3, <1>5, <2>1, <2>2, KeptEnds, KeptType DEF OInv
  <1>. QED BY <1>4, <1>5 DEF Recover

\* A handler whose task was given back goes on.
LEMMA LooseStep ==
    ASSUME EInv, NEW id \in Ids, Loose(id)
    PROVE  EInv'
  <1>. USE DEF EInv
  <1>1. /\ id \in DOMAIN loose
        /\ UNCHANGED <<written, client, tasks, request, process, dead, signals>>
    BY DEF Loose
  <1>2. loose[id] \in Task
    BY <1>1 DEF PInv, LooseType
  <1>3. ASSUME disk' \in [Files -> 0 .. MaxWrites], dirs' \subseteq dirs,
               left' \subseteq left \cup dirs, faults' \in 0 .. MaxFaults,
               \A f \in Files : disk'[f] = disk[f] \/ disk'[f] = 0,
               DOMAIN loose' \subseteq DOMAIN loose,
               \A i \in DOMAIN loose' : loose'[i] \in Task
        PROVE  EInv'
    <2>1. TInv'
      BY <1>1, <1>3 DEF OInv, TInv, TypeOK, AtItem, AtFirst, request
    <2>2. Versions'
      BY <1>1, <1>3, VersionsFall DEF request
    <2>3. Owed'
      BY <1>1, OwedByTask, HasTaskStays DEF request
    <2>4. PInv'
      BY <1>1, <1>3 DEF PInv, ProcessType, LooseType, LooseStopped, DeadRun,
          LooseAlone, Active, process
    <2>. QED BY <2>1, <2>2, <2>3, <2>4 DEF OInv
  <1>4. /\ disk \in [Files -> 0 .. MaxWrites] /\ 0 \in 0 .. MaxWrites
        /\ faults \in 0 .. MaxFaults
    BY PublisherAssumption DEF OInv, TInv, TypeOK
  <1>5. ASSUME NEW d \in Dirs \cup {<<>>},
               loose' = [loose EXCEPT ![id] = [loose[id] EXCEPT !.state = "clean", !.dir = d]]
        PROVE  DOMAIN loose' \subseteq DOMAIN loose /\ \A i \in DOMAIN loose' : loose'[i] \in Task
    <2>1. [loose[id] EXCEPT !.state = "clean", !.dir = d] \in Task
      BY <1>2 DEF Task
    <2>. QED BY <1>1, <1>5, <2>1 DEF PInv, LooseType
  <1>6. CASE /\ disk' = [disk EXCEPT ![loose[id].file] = 0]
             /\ loose' = [loose EXCEPT ![id].state = "clean", ![id].dir = Dir(loose[id].file)]
             /\ UNCHANGED <<dirs, left, faults>>
    <2>1. Dir(loose[id].file) \in Dirs \cup {<<>>}
      BY <1>2, DirType DEF Task
    <2>2. loose' = [loose EXCEPT ![id] = [loose[id] EXCEPT !.state = "clean",
                                              !.dir = Dir(loose[id].file)]]
      BY <1>6
    <2>3. disk' \in [Files -> 0 .. MaxWrites] /\ \A f \in Files : disk'[f] = disk[f] \/ disk'[f] = 0
      BY <1>4, <1>6
    <2>. QED BY <1>3, <1>4, <1>5, <1>6, <2>1, <2>2, <2>3
  <1>7. CASE /\ loose[id].state = "clean" /\ loose[id].dir \in dirs
             /\ dirs' = dirs \ {loose[id].dir}
             /\ loose' = [loose EXCEPT ![id].dir = Dir(loose[id].dir)]
             /\ UNCHANGED <<disk, left, faults>>
    <2>1. Dir(loose[id].dir) \in Dirs \cup {<<>>}
      BY <1>7, DirType DEF OInv, TInv, TypeOK
    <2>2. [loose[id] EXCEPT !.dir = Dir(loose[id].dir)] \in Task
      BY <1>2, <2>1 DEF Task
    <2>3. loose' = [loose EXCEPT ![id] = [loose[id] EXCEPT !.dir = Dir(loose[id].dir)]]
      BY <1>7
    <2>4. DOMAIN loose' \subseteq DOMAIN loose /\ \A i \in DOMAIN loose' : loose'[i] \in Task
      BY <1>1, <2>2, <2>3 DEF PInv, LooseType
    <2>. QED BY <1>3, <1>4, <1>7, <2>4
  <1>8. CASE /\ loose' = [i \in DOMAIN loose \ {id} |-> loose[i]]
             /\ UNCHANGED <<disk, dirs>>
             /\ \/ UNCHANGED <<left, faults>>
                \/ /\ loose[id].dir \in dirs /\ left' = left \cup {loose[id].dir}
                   /\ faults < MaxFaults /\ faults' = faults + 1
    <2>1. DOMAIN loose' \subseteq DOMAIN loose /\ \A i \in DOMAIN loose' : loose'[i] \in Task
      BY <1>8 DEF PInv, LooseType
    <2>2. left' \subseteq left \cup dirs /\ faults' \in 0 .. MaxFaults
      BY <1>4, <1>8, PublisherAssumption
    <2>. QED BY <1>3, <1>4, <1>8, <2>1, <2>2
  <1>. QED BY <1>6, <1>7, <1>8 DEF Loose

-----------------------------------------------------------------------------
(* Theorems.                                                               *)

\* It holds at the start.
LEMMA InitEInv == DInit => EInv
  <1>. SUFFICES ASSUME DInit PROVE EInv
    OBVIOUS
  <1>1. OInv
    BY InitOwed DEF DInit
  <1>2. DOMAIN loose = {} /\ DOMAIN tasks = {}
    BY DEF DInit, Init
  <1>3. ProcessType
    <2>1. done = FALSE /\ expired = FALSE /\ main = "up" /\ server = "new" /\ signals = 0
      BY DEF DInit
    <2>2. 0 \in 0 .. MaxSignals
      BY DaemonAssumption
    <2>. QED BY <2>1, <2>2 DEF ProcessType
  <1>4. LooseType /\ LooseStopped /\ LooseAlone
    BY <1>2 DEF DInit, LooseType, LooseStopped, LooseAlone
  <1>5. DeadRun
    BY DEF DInit, DeadRun
  <1>. QED BY <1>1, <1>3, <1>4, <1>5 DEF EInv, PInv

\* Every step keeps it.
LEMMA StepEInv == EInv /\ [DNext]_dvars => EInv'
  <1>. SUFFICES ASSUME EInv, [DNext]_dvars PROVE EInv'
    OBVIOUS
  <1>1. CASE Boot \/ Signal \/ Start \/ Drained \/ CloseHandler \/ StopHTTP \/ StopServer
             \/ Expire
    BY <1>1, ProcessSteps
  <1>2. CASE Kill \/ Exit
    BY <1>2, EndSteps
  <1>3. CASE Abort
    BY <1>3, AbortStep
  <1>4. ASSUME NEW r \in Requests, Serve(r) \/ \E b \in Bodies : Accept(r, b) PROVE EInv'
    BY <1>4, InsideRequest, OwedInside DEF EInv
  <1>5. ASSUME NEW id \in Ids, Work(id) \/ (Forget(id) /\ Elsewhere) PROVE EInv'
    BY <1>5, InsideTask, OwedInside DEF EInv
  <1>6. ASSUME NEW id \in Ids, Recover(id) \/ Loose(id) PROVE EInv'
    BY <1>6, RecoverStep, LooseStep
  <1>7. ASSUME UNCHANGED <<tasks, process, dead, loose, signals>>
        PROVE  PInv'
    BY <1>7 DEF EInv, PInv, ProcessType, LooseType, DeadRun, LooseStopped,
        LooseAlone, Active, process
  <1>8. ASSUME NEW f \in Files, Write(f), Elsewhere PROVE EInv'
    BY <1>7, <1>8, OwedInside DEF EInv, Write, Elsewhere
  <1>9. CASE UNCHANGED dvars
    BY <1>7, <1>9, OwedInside DEF EInv, dvars, vars
  <1>. QED BY <1>1, <1>2, <1>3, <1>4, <1>5, <1>6, <1>8, <1>9 DEF DNext, Shutdown

\* The invariant of the process and of what was promised.
THEOREM DaemonInvariant == DSpec => []EInv
  BY InitEInv, StepEInv, PTL DEF DSpec

\* Every variable keeps its type, in the process too.
THEOREM DaemonTypeCorrect == DSpec => []DTypeOK
  <1>1. EInv => DTypeOK
    BY DEF EInv, OInv, TInv, PInv, ProcessType, LooseType, DeadRun, DTypeOK
  <1>. QED BY <1>1, DaemonInvariant, PTL

\* No task has two handlers, for any number of signals, shutdowns and crashes.
THEOREM OneHandlerHolds == DSpec => []OneHandler
  <1>1. EInv => OneHandler
    BY DEF EInv, PInv, LooseAlone, OneHandler
  <1>. QED BY <1>1, DaemonInvariant, PTL

\* What was accepted keeps its tasks, whatever signals, shutdowns, crashes and
\* recoveries there are, with the exception that Conflict names.
THEOREM AcceptedSurvives == DSpec => []AcceptedHasTask
  <1>1. EInv => AcceptedHasTask
    BY DEF EInv, OInv, Owed, Open, AcceptedHasTask
  <1>. QED BY <1>1, DaemonInvariant, PTL

-----------------------------------------------------------------------------
(* Empty directories.                                                      *)

NInv == EInv /\ Closed /\ NoneLeft

\* The handlers at work, of the server and loose, that look at directories.
LEMMA LookingAt ==
    ASSUME NEW d
    PROVE  d \in Looking <=>
             \/ \E i \in Active : tasks[i].state = "clean" /\ tasks[i].dir = d
             \/ \E i \in DOMAIN loose : loose[i].state = "clean" /\ loose[i].dir = d
  BY DEF Looking

\* Steps that leave the disk alone and all cleanups at work.
LEMMA LookingStays ==
    ASSUME NInv, UNCHANGED <<disk, dirs, dead, loose, left>>,
           \A i \in Active : tasks[i].state = "clean" =>
                i \in DOMAIN tasks' /\ tasks'[i] = tasks[i]
    PROVE  Closed' /\ NoneLeft'
  <1>1. Looking \subseteq Looking'
    BY DEF Looking, Active
  <1>. QED BY <1>1, DiskAlone DEF NInv, NoneLeft

LEMMA RequestDirs ==
    ASSUME NInv, NEW r \in Requests, Serve(r) \/ \E b \in Bodies : Accept(r, b)
    PROVE  Closed' /\ NoneLeft'
  <1>1. UNCHANGED <<disk, dirs, dead, loose, left>>
    BY DEF Serve, Accept, Elsewhere, RequestStep, Receive, Resolve, Scan, Inspect, Enqueue,
        WalkFails, Conflict, EnqueueFails, source
  <1>2. UNCHANGED tasks \/ \E f \in Files : Store(r, f)
    BY DEF Serve, Accept, RequestStep, Receive, Resolve, Scan, Inspect, WalkFails, Enqueue,
        Conflict, EnqueueFails
  <1>3. \A i \in DOMAIN tasks : i \in DOMAIN tasks' /\ tasks'[i] = tasks[i]
    BY <1>2, StoreKeeps
  <1>. QED BY <1>1, <1>3, LookingStays DEF Active

LEMMA ProcessDirs ==
    ASSUME NInv, Boot \/ Signal \/ Start \/ Drained \/ CloseHandler \/ StopHTTP
                 \/ StopServer \/ Expire
    PROVE  Closed' /\ NoneLeft'
  <1>1. UNCHANGED <<disk, dirs, tasks, dead, loose, left>>
    BY DEF Boot, Signal, Start, Drained, CloseHandler, Close, StopHTTP, StopServer, Expire,
        vars, source
  <1>. QED BY <1>1, LookingStays DEF Active

\* Steps of tasks that remove nothing.
LEMMA TaskDirs ==
    ASSUME NInv, NEW id, Take(id) \/ Sync(id) \/ Retry(id) \/ Archive(id) \/ Forget(id),
           Elsewhere
    PROVE  Closed' /\ NoneLeft'
  <1>1. UNCHANGED <<disk, dirs, dead, loose, left>>
    BY DEF Take, Sync, Retry, Archive, Forget, source, Elsewhere
  <1>2. tasks[id].state # "clean"
    BY DEF Take, Sync, Retry, Archive, Forget, Failing
  <1>3. \A i \in DOMAIN tasks : i # id => i \in DOMAIN tasks' /\ tasks'[i] = tasks[i]
    BY DEF Take, Sync, Done, Retry, Archive, Forget
  <1>. QED BY <1>1, <1>2, <1>3, LookingStays DEF Active

\* A worker removes a file, and looks at its directory.
LEMMA RemoveDirs ==
    ASSUME NInv, NEW id, id \in Active, Remove(id), Elsewhere
    PROVE  Closed' /\ NoneLeft'
  <1>. DEFINE f == tasks[id].file
  <1>1. /\ id \in DOMAIN tasks /\ tasks[id].state = "sync" /\ id \notin dead
        /\ f \in Present /\ dirs' = dirs /\ disk' = [disk EXCEPT ![f] = 0]
        /\ DOMAIN tasks' = DOMAIN tasks
        /\ \A i \in DOMAIN tasks : i # id => tasks'[i] = tasks[i]
        /\ UNCHANGED <<dead, loose, left>>
    BY TaskType DEF Remove, Active, Known, NInv, EInv, OInv, Present, Elsewhere
  <1>2. tasks'[id].state = "clean" /\ tasks'[id].dir = Dir(f)
    <2>1. tasks[id] \in Task
      BY <1>1, TaskType DEF NInv, EInv, OInv
    <2>. QED BY <1>1, <2>1 DEF Remove, Task
  <1>3. Looking \subseteq Looking' /\ Dir(f) \in Looking'
    BY <1>1, <1>2 DEF Looking, Active
  <1>. QED BY <1>1, <1>3, FileGone DEF NInv, EInv, OInv, NoneLeft

\* A worker removes a directory and looks at its parent, or has finished.
LEMMA CleanUpDirs ==
    ASSUME NInv, NEW id, id \in Active, CleanUp(id), Elsewhere
    PROVE  Closed' /\ NoneLeft'
  <1>. DEFINE c == tasks[id].dir
  <1>1. /\ id \in DOMAIN tasks /\ tasks[id].state = "clean" /\ id \notin dead
        /\ UNCHANGED <<disk, dead, loose>> /\ tasks[id] \in Task
    BY TaskType DEF CleanUp, Active, Known, NInv, EInv, OInv, Elsewhere
  <1>2. /\ DOMAIN tasks' = DOMAIN tasks
        /\ \A i \in DOMAIN tasks : i # id => tasks'[i] = tasks[i]
    BY DEF CleanUp, Done
  <1>3. Looking \ {c} \subseteq Looking'
    BY <1>1, <1>2 DEF Looking, Active
  <1>4. CASE c \in dirs /\ Empty(c) /\ dirs' = dirs \ {c} /\ left' = left
             /\ tasks' = [tasks EXCEPT ![id].dir = Dir(c)]
    <2>1. tasks'[id].state = "clean" /\ tasks'[id].dir = Dir(c)
      BY <1>1, <1>4 DEF Task
    <2>2. Dir(c) \in Looking'
      BY <1>1, <1>2, <2>1 DEF Looking, Active
    <2>3. TInv /\ Closed /\ \A d \in dirs : Empty(d) => d \in Looking \cup left
      BY DEF NInv, EInv, OInv, NoneLeft
    <2>4. (Looking \cup left) \ {c} \subseteq Looking' \cup left'
      BY <1>1, <1>3, <1>4, <2>2
    <2>5. Closed' /\ \A d \in dirs' : Empty(d)' => d \in Looking' \cup left'
      BY <1>1, <1>3, <1>4, <2>2, <2>3, <2>4, DirGone
    <2>. QED BY <2>5 DEF NoneLeft
  <1>5. CASE /\ UNCHANGED dirs
             /\ \/ ~(c \in dirs /\ Empty(c)) /\ left' = left
                \/ left' = left \cup {c}
    <2>1. \A d \in dirs \cap (Looking \cup left) : Empty(d) => d \in (Looking \cup left)'
      BY <1>3, <1>5
    <2>. QED BY <1>1, <1>5, <2>1, DiskAlone DEF NInv, NoneLeft
  <1>. QED BY <1>4, <1>5 DEF CleanUp

\* The process ends: what its handlers were about to look at is left.
LEMMA GoneDirs ==
    ASSUME NInv, Gone
    PROVE  Closed' /\ NoneLeft'
  <1>1. UNCHANGED <<disk, dirs>> /\ left' = left \cup {d \in Looking \cap dirs : Empty(d)}
    BY DEF Gone, source
  <1>2. \A d \in dirs \cap (Looking \cup left) : Empty(d) => d \in left'
    BY <1>1
  <1>. QED BY <1>1, <1>2, DiskAlone DEF NInv, NoneLeft

\* The handlers whose tasks are given back look on.
LEMMA AbortDirs ==
    ASSUME NInv, Abort
    PROVE  Closed' /\ NoneLeft'
  <1>1. UNCHANGED <<disk, dirs, left>> /\ loose' = [i \in Active |-> tasks[i]]
    BY DEF Abort, source
  <1>2. DOMAIN loose = {}
    BY DEF Abort, NInv, EInv, PInv, LooseAlone
  <1>3. Looking \subseteq Looking'
    BY <1>1, <1>2 DEF Looking
  <1>. QED BY <1>1, <1>3, DiskAlone DEF NInv, NoneLeft

\* A dead task is nobody's.
LEMMA RecoverDirs ==
    ASSUME NInv, NEW id, Recover(id)
    PROVE  Closed' /\ NoneLeft'
  <1>1. /\ UNCHANGED <<disk, dirs, loose, left>> /\ id \in dead /\ dead' = dead \ {id}
        /\ DOMAIN tasks' = DOMAIN tasks
        /\ \A i \in DOMAIN tasks : i # id => tasks'[i] = tasks[i]
    BY DEF Recover, source
  <1>2. Looking \subseteq Looking'
    BY <1>1 DEF Looking, Active
  <1>. QED BY <1>1, <1>2, DiskAlone DEF NInv, NoneLeft

\* A loose handler removes a file or a directory, or has finished.
LEMMA LooseDirs ==
    ASSUME NInv, NEW id, Loose(id)
    PROVE  Closed' /\ NoneLeft'
  <1>. DEFINE t == loose[id]
  <1>1. id \in DOMAIN loose /\ UNCHANGED <<tasks, dead>> /\ t \in Task
    BY DEF Loose, NInv, EInv, PInv, LooseType
  <1>2. \A i \in Active : i \in Active'
    BY <1>1 DEF Active
  <1>3. CASE /\ t.state = "sync" /\ disk[t.file] # 0
             /\ disk' = [disk EXCEPT ![t.file] = 0]
             /\ loose' = [loose EXCEPT ![id].state = "clean", ![id].dir = Dir(t.file)]
             /\ UNCHANGED <<dirs, left>>
    <2>1. t.file \in Present
      BY <1>1, <1>3 DEF Task, Present
    <2>2. loose'[id].state = "clean" /\ loose'[id].dir = Dir(t.file)
      BY <1>1, <1>3 DEF Task
    <2>3. Looking \subseteq Looking' /\ Dir(t.file) \in Looking'
      BY <1>1, <1>2, <1>3, <2>2 DEF Looking
    <2>4. TInv /\ Closed /\ \A d \in dirs : Empty(d) => d \in Looking \cup left
      BY DEF NInv, EInv, OInv, NoneLeft
    <2>5. (Looking \cup left) \subseteq Looking' \cup left'
      BY <1>1, <1>3, <2>1, <2>3
    <2>6. Closed' /\ \A d \in dirs' : Empty(d)' => d \in Looking' \cup left'
      BY <1>1, <1>3, <2>1, <2>3, <2>4, <2>5, FileGone
    <2>. QED BY <2>6 DEF NoneLeft
  <1>4. CASE /\ t.state = "clean" /\ t.dir \in dirs /\ Empty(t.dir)
             /\ dirs' = dirs \ {t.dir}
             /\ loose' = [loose EXCEPT ![id].dir = Dir(t.dir)]
             /\ UNCHANGED <<disk, left>>
    <2>1. loose'[id].state = "clean" /\ loose'[id].dir = Dir(t.dir)
      BY <1>1, <1>4 DEF Task
    <2>2. Looking \ {t.dir} \subseteq Looking' /\ Dir(t.dir) \in Looking'
      BY <1>1, <1>2, <1>4, <2>1 DEF Looking
    <2>3. TInv /\ Closed /\ \A d \in dirs : Empty(d) => d \in Looking \cup left
      BY DEF NInv, EInv, OInv, NoneLeft
    <2>4. (Looking \cup left) \ {t.dir} \subseteq Looking' \cup left'
      BY <1>1, <1>4, <2>2
    <2>5. Closed' /\ \A d \in dirs' : Empty(d)' => d \in Looking' \cup left'
      BY <1>1, <1>4, <2>2, <2>3, <2>4, DirGone
    <2>. QED BY <2>5 DEF NoneLeft
  <1>5. CASE /\ loose' = [i \in DOMAIN loose \ {id} |-> loose[i]]
             /\ UNCHANGED <<disk, dirs>>
             /\ \/ ~(t.state = "clean" /\ t.dir \in dirs /\ Empty(t.dir)) /\ left' = left
                \/ left' = left \cup {t.dir}
    <2>1. \A d \in Looking : d \in Looking' \/ (t.state = "clean" /\ d = t.dir)
      BY <1>1, <1>2, <1>5 DEF Looking
    <2>2. \A d \in dirs \cap (Looking \cup left) : Empty(d) => d \in (Looking \cup left)'
      BY <1>5, <2>1
    <2>. QED BY <1>1, <1>5, <2>2, DiskAlone DEF NInv, NoneLeft
  <1>. QED BY <1>3, <1>4, <1>5 DEF Loose

\* A directory that is filled was not left empty.
LEMMA ProduceDirs ==
    ASSUME NInv, NEW f \in Files, Write(f), Elsewhere
    PROVE  Closed' /\ NoneLeft'
  <1>1. UNCHANGED <<tasks, dead, loose>> /\ left' = left \ Parents(f)
    BY DEF Write, Elsewhere
  <1>2. Looking' = Looking
    BY <1>1 DEF Looking, Active
  <1>. QED BY <1>1, <1>2, FileWritten DEF NInv, EInv, OInv, NoneLeft

LEMMA StepNInv == NInv /\ [DNext]_dvars => NInv'
  <1>. SUFFICES ASSUME NInv, [DNext]_dvars PROVE Closed' /\ NoneLeft'
    BY StepEInv DEF NInv
  <1>1. ASSUME NEW id \in Ids, Work(id) PROVE Closed' /\ NoneLeft'
    BY <1>1, TaskDirs, RemoveDirs, CleanUpDirs DEF Work
  <1>2. ASSUME NEW id \in Ids, Recover(id) \/ Loose(id) \/ (Forget(id) /\ Elsewhere)
        PROVE  Closed' /\ NoneLeft'
    BY <1>2, RecoverDirs, LooseDirs, TaskDirs
  <1>3. CASE Kill \/ Exit
    BY <1>3, GoneDirs DEF Kill, Exit
  <1>4. CASE UNCHANGED dvars
    BY <1>4, LookingStays DEF dvars, vars, source, Active
  <1>. QED BY <1>1, <1>2, <1>3, <1>4, AbortDirs, ProcessDirs, RequestDirs, ProduceDirs
         DEF DNext, Shutdown

\* A directory stays empty only if its reading or removal failed or the process that
\* was cleaning it up ended, for any number of handlers, workers given up, shutdowns
\* and crashes.
THEOREM EmptyDirsAreLeft == DSpec => []NoneLeft
  <1>1. DInit => NInv
    BY InitEInv, InitDirs DEF DInit, NInv, NoneLeft
  <1>2. NInv => NoneLeft
    BY DEF NInv
  <1>. QED BY <1>1, <1>2, StepNInv, PTL DEF DSpec
=============================================================================
