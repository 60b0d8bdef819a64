---------------------------- MODULE PublisherProofs ----------------------------
(***************************************************************************)
(* What Publisher promises, for all requests, files and bodies: the types, *)
(* that an accepted request has its tasks, and that no directory stays     *)
(* empty unless its reading or removal failed.                             *)
(***************************************************************************)
EXTENDS Publisher, SequenceTheorems, TLAPS

Running == {"resolve", "scan", "stat", "enqueue"}

\* A request that runs is at one of its items.
AtItem == \A r \in Requests :
    pc[r] \in Running => body[r] \in Bodies /\ at[r] \in DOMAIN body[r]

\* And one that was not received yet, at the first.
AtFirst == \A r \in Requests : pc[r] = "idle" => at[r] = 1

TInv == TypeOK /\ AtItem /\ AtFirst

-----------------------------------------------------------------------------
(* Paths.                                                                  *)

\* A parent of a path is a path that is not the root.
LEMMA ParentIsPath ==
    ASSUME NEW p \in Seq(STRING), NEW d \in Parents(p)
    PROVE  d \in Seq(STRING) /\ d # <<>> /\ Len(d) < Len(p)
  <1>1. PICK i \in 1 .. Len(p) - 1 : d = SubSeq(p, 1, i)
    BY DEF Parents
  <1>2. i \in Nat /\ 1 <= i /\ i < Len(p)
    BY <1>1
  <1>3. SubSeq(p, 1, i) \in Seq(STRING) /\ Len(SubSeq(p, 1, i)) = i
    BY <1>2
  <1>. QED BY <1>1, <1>2, <1>3

\* The directories are paths.
LEMMA DirIsPath ==
    ASSUME NEW d \in Dirs
    PROVE  d \in Seq(STRING) /\ d # <<>>
  <1>1. PICK f \in Files : d \in Parents(f)
    BY DEF Dirs
  <1>2. f \in Seq(STRING)
    BY PublisherAssumption
  <1>. QED BY <1>1, <1>2, ParentIsPath

\* The directory of a path is one of its parents, unless it is the root.
LEMMA DirIsParent ==
    ASSUME NEW p \in Seq(STRING), p # <<>>
    PROVE  Dir(p) \in Parents(p) \cup {<<>>}
  <1>1. Len(p) \in Nat \ {0}
    OBVIOUS
  <1>2. CASE Len(p) = 1
    BY <1>2 DEF Dir
  <1>3. CASE Len(p) # 1
    BY <1>1, <1>3 DEF Dir, Parents
  <1>. QED BY <1>2, <1>3

\* A path below the root is below its directory, or is in it.
LEMMA BelowDir ==
    ASSUME NEW p \in Seq(STRING), NEW d \in Seq(STRING), Below(d, p), d # Dir(p)
    PROVE  Below(d, Dir(p))
  <1>1. Len(d) < Len(p) /\ SubSeq(p, 1, Len(d)) = d /\ Len(d) \in Nat /\ Len(p) \in Nat
    BY DEF Below
  <1>2. Len(Dir(p)) = Len(p) - 1
    BY <1>1 DEF Dir
  <1>3. Len(d) # Len(p) - 1
    BY <1>1 DEF Dir
  <1>4. Len(d) < Len(Dir(p))
    BY <1>1, <1>2, <1>3
  <1>5. SubSeq(Dir(p), 1, Len(d)) = SubSeq(p, 1, Len(d))
    BY <1>1, <1>4, <1>2 DEF Dir
  <1>. QED BY <1>1, <1>4, <1>5 DEF Below

\* A parent is above.
LEMMA ParentIsAbove ==
    ASSUME NEW p \in Seq(STRING), NEW d \in Parents(p)
    PROVE  Below(d, p)
  <1>1. PICK i \in 1 .. Len(p) - 1 : d = SubSeq(p, 1, i)
    BY DEF Parents
  <1>2. Len(d) = i /\ i < Len(p)
    BY <1>1
  <1>. QED BY <1>1, <1>2 DEF Below

\* And what is above is a parent.
LEMMA AboveIsParent ==
    ASSUME NEW p \in Seq(STRING), NEW d \in Seq(STRING), d # <<>>, Below(d, p)
    PROVE  d \in Parents(p)
  <1>1. Len(d) \in 1 .. Len(p) - 1 /\ d = SubSeq(p, 1, Len(d))
    BY DEF Below
  <1>. QED BY <1>1 DEF Parents

\* Above what is above.
LEMMA AboveAbove ==
    ASSUME NEW p \in Seq(STRING), NEW d \in Seq(STRING), NEW c \in Seq(STRING),
           Below(c, d), Below(d, p)
    PROVE  Below(c, p)
  <1>1. Len(c) < Len(d) /\ Len(d) < Len(p) /\ Len(c) \in Nat /\ Len(d) \in Nat
        /\ Len(p) \in Nat
    BY DEF Below
  <1>2. SubSeq(SubSeq(p, 1, Len(d)), 1, Len(c)) = SubSeq(p, 1, Len(c))
    BY <1>1
  <1>. QED BY <1>1, <1>2 DEF Below

\* The parents of a directory are parents of what is in it.
LEMMA ParentsOfParent ==
    ASSUME NEW p \in Seq(STRING), NEW d \in Parents(p)
    PROVE  Parents(d) \subseteq Parents(p)
  <1>. SUFFICES ASSUME NEW c \in Parents(d) PROVE c \in Parents(p)
    OBVIOUS
  <1>1. d \in Seq(STRING) /\ Below(d, p)
    BY ParentIsPath, ParentIsAbove
  <1>2. c \in Seq(STRING) /\ c # <<>> /\ Below(c, d)
    BY <1>1, ParentIsPath, ParentIsAbove
  <1>. QED BY <1>1, <1>2, AboveAbove, AboveIsParent

-----------------------------------------------------------------------------
(* Types.                                                                  *)

\* The item of a running request.
LEMMA ItemType ==
    ASSUME TInv, NEW r \in Requests, pc[r] \in Running
    PROVE  /\ body[r] \in Bodies /\ body[r] \in Seq(SyncItem)
           /\ at[r] \in 1 .. Len(body[r])
           /\ Item(r) \in Items /\ Item(r).delete \in BOOLEAN
  <1>1. body[r] \in Bodies /\ at[r] \in DOMAIN body[r]
    BY DEF TInv, AtItem
  <1>2. body[r] \in Seq(SyncItem)
    BY <1>1, PublisherAssumption
  <1>3. DOMAIN body[r] = 1 .. Len(body[r])
    BY <1>2
  <1>4. Item(r) \in SyncItem
    BY <1>1, <1>2, <1>3 DEF Item
  <1>5. Item(r) \in Items
    BY <1>1 DEF Item, Items
  <1>. QED BY <1>1, <1>2, <1>3, <1>4, <1>5 DEF SyncItem

\* Its targets and the identifiers of its tasks.
LEMMA TargetType ==
    ASSUME TInv, NEW r \in Requests, pc[r] \in Running, NEW f \in Files
    PROVE  TargetPath(Item(r), f) \in Targets /\ TaskID(r, f) \in Ids
  <1>1. Item(r) \in Items /\ body[r] \in Bodies /\ at[r] \in DOMAIN body[r]
    BY ItemType DEF TInv, AtItem
  <1>2. TargetPath(Item(r), f) \in Targets
    BY <1>1 DEF Targets
  <1>3. at[r] \in Indices
    BY <1>1 DEF Indices
  <1>. QED BY <1>2, <1>3 DEF TaskID, Ids

LabelType == pc' \in [Requests -> {"idle", "resolve", "scan", "stat", "enqueue",
                                   "ok", "error"}]

PromiseType == promise' \in [Requests -> SUBSET [file : Files, target : Targets,
                                                 version : 1 .. MaxWrites]]

RequestType == /\ LabelType /\ PromiseType
               /\ body' \in [Requests -> Bodies \cup {<<>>}]
               /\ at' \in [Requests -> Nat \ {0}]
               /\ todo' \in [Requests -> SUBSET (Files \cup Dirs)]
               /\ AtItem' /\ AtFirst'

\* An answer.
LEMMA AnswerType ==
    ASSUME TInv, NEW r \in Requests, NEW reply \in {"ok", "error"},
           Answer(r, reply), PromiseType
    PROVE  RequestType
  <1>1. /\ LabelType
        /\ body' \in [Requests -> Bodies \cup {<<>>}]
        /\ at' \in [Requests -> Nat \ {0}]
        /\ todo' \in [Requests -> SUBSET (Files \cup Dirs)]
    BY DEF TInv, TypeOK, Answer, Goto, LabelType
  <1>2. AtItem'
    <2>. SUFFICES ASSUME NEW q \in Requests, pc'[q] \in Running
                  PROVE  body'[q] \in Bodies /\ at'[q] \in DOMAIN body'[q]
      BY DEF AtItem
    <2>1. q # r
      BY DEF TInv, TypeOK, Answer, Goto, Running
    <2>. QED BY <2>1 DEF TInv, TypeOK, AtItem, Answer, Goto
  <1>3. AtFirst'
    BY DEF TInv, TypeOK, AtFirst, Answer, Goto
  <1>. QED BY <1>1, <1>2, <1>3 DEF RequestType

\* An answer that is an error.
LEMMA FailType ==
    ASSUME TInv, NEW r \in Requests, Fail(r)
    PROVE  RequestType
  <1>1. PromiseType
    BY DEF TInv, TypeOK, Fail, PromiseType
  <1>. QED BY <1>1, AnswerType DEF Fail

\* The files of an item.
LEMMA PromisedType ==
    ASSUME TInv, NEW r \in Requests, pc[r] \in Running, NEW F \in SUBSET Present,
           Promise(r, F), UNCHANGED <<body, at>>
    PROVE  RequestType
  <1>1. F \subseteq Files
    BY DEF Present
  <1>2. ASSUME NEW f \in F
        PROVE  disk[f] \in 1 .. MaxWrites /\ TargetPath(Item(r), f) \in Targets
    BY <1>1, TargetType, PublisherAssumption DEF TInv, TypeOK, Present
  <1>3. LabelType /\ PromiseType /\ todo' \in [Requests -> SUBSET (Files \cup Dirs)]
    BY <1>1, <1>2 DEF TInv, TypeOK, Promise, Goto, LabelType, PromiseType
  <1>4. AtItem'
    <2>. SUFFICES ASSUME NEW q \in Requests, pc'[q] \in Running
                  PROVE  body'[q] \in Bodies /\ at'[q] \in DOMAIN body'[q]
      BY DEF AtItem
    <2>1. pc[q] \in Running
      BY DEF TInv, TypeOK, Promise, Goto
    <2>. QED BY <2>1 DEF TInv, AtItem
  <1>5. AtFirst'
    BY DEF TInv, TypeOK, AtFirst, Promise, Goto
  <1>. QED BY <1>3, <1>4, <1>5 DEF RequestType, TInv, TypeOK

\* The next file.
LEMMA AdvanceType ==
    ASSUME TInv, NEW r \in Requests, pc[r] = "enqueue", NEW f \in todo[r],
           Advance(r, f), PromiseType
    PROVE  RequestType
  <1>. USE DEF TInv, TypeOK
  <1>1. CASE todo' = [todo EXCEPT ![r] = @ \ {f}] /\ UNCHANGED <<pc, body, at>>
    BY <1>1 DEF RequestType, LabelType, AtItem, AtFirst
  <1>2. CASE /\ at[r] < Len(body[r])
             /\ at' = [at EXCEPT ![r] = @ + 1]
             /\ todo' = [todo EXCEPT ![r] = {}]
             /\ Goto(r, "resolve")
             /\ UNCHANGED body
    <2>1. body[r] \in Seq(SyncItem) /\ at[r] \in Nat /\ body[r] \in Bodies
      BY ItemType DEF Running
    <2>2. at[r] + 1 \in DOMAIN body[r] /\ at[r] + 1 \in Nat \ {0}
      BY <1>2, <2>1
    <2>3. at' \in [Requests -> Nat \ {0}] /\ todo' \in [Requests -> SUBSET (Files \cup Dirs)]
          /\ LabelType
      BY <1>2, <2>2 DEF LabelType, Goto
    <2>4. AtItem'
      <3>. SUFFICES ASSUME NEW q \in Requests, pc'[q] \in Running
                    PROVE  body'[q] \in Bodies /\ at'[q] \in DOMAIN body'[q]
        BY DEF AtItem
      <3>1. CASE q = r
        BY <1>2, <2>1, <2>2, <3>1
      <3>2. CASE q # r
        BY <1>2, <3>2 DEF AtItem, Goto
      <3>. QED BY <3>1, <3>2
    <2>5. AtFirst'
      BY <1>2, <2>3 DEF AtFirst, Goto
    <2>. QED BY <1>2, <2>3, <2>4, <2>5 DEF RequestType
  <1>3. CASE Answer(r, "ok")
    BY <1>3, AnswerType
  <1>. QED BY <1>1, <1>2, <1>3 DEF Advance

TasksType == DOMAIN tasks' \subseteq Ids /\ \A id \in DOMAIN tasks' : tasks'[id] \in Task

\* A new task.
LEMMA StoreType ==
    ASSUME TInv, NEW r \in Requests, pc[r] \in Running, NEW f \in Files, Store(r, f)
    PROVE  TasksType
  <1>1. TargetPath(Item(r), f) \in Targets /\ TaskID(r, f) \in Ids
        /\ Item(r).delete \in BOOLEAN
    BY TargetType, ItemType
  <1>2. [file |-> f, target |-> TargetPath(Item(r), f),
         delete |-> Item(r).delete, state |-> "pending",
         retried |-> 0, read |-> 0, dir |-> <<>>] \in Task
    BY <1>1, PublisherAssumption DEF Task
  <1>3. DOMAIN tasks' = DOMAIN tasks \cup {TaskID(r, f)}
    BY DEF Store
  <1>4. ASSUME NEW id \in DOMAIN tasks' PROVE tasks'[id] \in Task
    <2>1. CASE Known(id)
      BY <1>3, <2>1 DEF Store, TInv, TypeOK, Known
    <2>2. CASE ~Known(id)
      BY <1>2, <1>3, <2>2 DEF Store
    <2>. QED BY <2>1, <2>2
  <1>. QED BY <1>1, <1>3, <1>4 DEF TasksType, TInv, TypeOK

\* One task changes.
LEMMA UpdateType ==
    ASSUME TInv, NEW id \in DOMAIN tasks, NEW t \in Task, tasks' = [tasks EXCEPT ![id] = t]
    PROVE  TasksType
  BY DEF TInv, TypeOK, TasksType

\* Promises that are kept are left out.
LEMMA KeptType ==
    ASSUME TInv, NEW id, Kept(id)
    PROVE  PromiseType
  BY DEF TInv, TypeOK, Kept, PromiseType

\* The directory of a file, and that of a directory.
LEMMA DirType ==
    ASSUME NEW p \in Files \cup Dirs
    PROVE  Dir(p) \in Dirs \cup {<<>>}
  <1>1. p \in Seq(STRING) /\ p # <<>>
    BY DirIsPath, PublisherAssumption
  <1>2. Dir(p) \in Parents(p) \cup {<<>>}
    BY <1>1, DirIsParent
  <1>3. Parents(p) \subseteq Dirs
    <2>1. CASE p \in Files
      BY <2>1 DEF Dirs
    <2>2. CASE p \in Dirs
      <3>1. PICK f \in Files : p \in Parents(f)
        BY <2>2 DEF Dirs
      <3>2. Parents(p) \subseteq Parents(f)
        BY <3>1, ParentsOfParent, PublisherAssumption
      <3>. QED BY <3>2 DEF Dirs
    <2>. QED BY <2>1, <2>2
  <1>. QED BY <1>2, <1>3

\* A task in TInv.
LEMMA TaskType ==
    ASSUME TInv, NEW id \in DOMAIN tasks
    PROVE  /\ tasks[id] \in Task
           /\ tasks[id].file \in Files /\ tasks[id].target \in Targets
           /\ tasks[id].delete \in BOOLEAN
           /\ tasks[id].state \in {"pending", "sync", "clean", "done", "archived"}
           /\ tasks[id].retried \in 0 .. MaxRetry /\ tasks[id].read \in 0 .. MaxWrites
           /\ tasks[id].dir \in Dirs \cup {<<>>}
  <1>1. tasks[id] \in Task
    BY DEF TInv, TypeOK
  <1>. QED BY <1>1 DEF Task

\* A task that ends.
LEMMA DoneType ==
    ASSUME TInv, NEW id \in DOMAIN tasks, Done(id)
    PROVE  TasksType /\ PromiseType
  <1>1. [tasks[id] EXCEPT !.state = "done", !.dir = <<>>] \in Task
    BY TaskType DEF Task
  <1>2. tasks' = [tasks EXCEPT ![id] = [tasks[id] EXCEPT !.state = "done", !.dir = <<>>]]
    BY DEF Done
  <1>. QED BY <1>1, <1>2, UpdateType, KeptType DEF Done

\* The steps of requests keep the types.
LEMMA RequestTypes ==
    ASSUME TInv, NEW r \in Requests,
           RequestStep(r) \/ \E b \in Bodies : Receive(r, b)
    PROVE  TInv'
  <1>. USE DEF source
  <1>1. ASSUME UNCHANGED <<source, client>>, TasksType, RequestType,
               faults' \in 0 .. MaxFaults
        PROVE  TInv'
    BY <1>1 DEF TInv, TypeOK, RequestType, LabelType, PromiseType, TasksType
  <1>2. UNCHANGED tasks => TasksType
    BY DEF TInv, TypeOK, TasksType
  <1>3. UNCHANGED faults => faults' \in 0 .. MaxFaults
    BY DEF TInv, TypeOK
  <1>4. UNCHANGED promise => PromiseType
    BY DEF TInv, TypeOK, PromiseType
  <1>5. ASSUME NEW b \in Bodies, Receive(r, b) PROVE TInv'
    <2>1. CASE /\ ~Refused(b)
               /\ body' = [body EXCEPT ![r] = b]
               /\ Goto(r, "resolve")
               /\ UNCHANGED <<at, todo, promise>>
      <3>1. at[r] = 1 /\ b \in Seq(SyncItem) /\ b # <<>>
        BY <1>5, <2>1, PublisherAssumption DEF Receive, TInv, AtFirst, Refused
      <3>2. 1 \in DOMAIN b
        BY <3>1
      <3>3. AtItem'
        <4>. SUFFICES ASSUME NEW q \in Requests, pc'[q] \in Running
                      PROVE  body'[q] \in Bodies /\ at'[q] \in DOMAIN body'[q]
          BY DEF AtItem
        <4>1. CASE q = r
          BY <2>1, <3>1, <3>2, <4>1 DEF TInv, TypeOK
        <4>2. CASE q # r
          BY <2>1, <4>2 DEF TInv, TypeOK, AtItem, Goto
        <4>. QED BY <4>1, <4>2
      <3>4. AtFirst'
        BY <2>1 DEF TInv, TypeOK, AtFirst, Goto
      <3>5. RequestType
        BY <2>1, <3>3, <3>4, <1>4 DEF RequestType, TInv, TypeOK, LabelType, Goto
      <3>. QED BY <1>1, <1>2, <1>3, <1>5, <3>5 DEF Receive
    <2>2. CASE Fail(r)
      BY <1>1, <1>2, <1>3, <1>5, <2>2, FailType DEF Receive
    <2>. QED BY <1>5, <2>1, <2>2 DEF Receive
  <1>6. CASE Resolve(r)
    <2>1. CASE Item(r).from \in Present /\ Promise(r, {Item(r).from}) /\ UNCHANGED <<body, at>>
      BY <1>1, <1>2, <1>3, <1>6, <2>1, PromisedType DEF Resolve, Running
    <2>2. CASE Goto(r, "scan") /\ UNCHANGED <<body, at, todo, promise>>
      <3>1. RequestType
        BY <1>4, <1>6, <2>2 DEF TInv, TypeOK, RequestType, LabelType, Goto, AtItem,
            AtFirst, Resolve, Running
      <3>. QED BY <1>1, <1>2, <1>3, <1>6, <3>1 DEF Resolve
    <2>3. CASE Fail(r)
      BY <1>1, <1>2, <1>3, <1>6, <2>3, FailType DEF Resolve
    <2>. QED BY <1>6, <2>1, <2>2, <2>3 DEF Resolve
  <1>7. CASE Scan(r)
    <2>. DEFINE found == {p \in Present \cup dirs : Below(Item(r).from, p)}
    <2>1. CASE /\ todo' = [todo EXCEPT ![r] = found]
               /\ Goto(r, "stat") /\ UNCHANGED <<body, at, promise>>
      <3>1. found \subseteq Files \cup Dirs
        BY DEF TInv, TypeOK, Present
      <3>. HIDE DEF found
      <3>2. RequestType
        BY <1>4, <1>7, <2>1, <3>1 DEF TInv, TypeOK, RequestType, LabelType, Goto, AtItem,
            AtFirst, Scan, Running
      <3>. QED BY <1>1, <1>2, <1>3, <1>7, <3>2 DEF Scan
    <2>2. CASE Fail(r)
      BY <1>1, <1>2, <1>3, <1>7, <2>2, FailType DEF Scan
    <2>. QED BY <1>7, <2>1, <2>2 DEF Scan
  <1>8. CASE Inspect(r)
    <2>1. CASE Promise(r, todo[r] \cap Present) /\ UNCHANGED <<body, at>>
      <3>1. RequestType
        BY <1>8, <2>1, PromisedType DEF Inspect, Running
      <3>. QED BY <1>1, <1>2, <1>3, <1>8, <3>1 DEF Inspect
    <2>2. CASE Fail(r)
      BY <1>1, <1>2, <1>3, <1>8, <2>2, FailType DEF Inspect
    <2>. QED BY <1>8, <2>1, <2>2 DEF Inspect
  <1>9. ASSUME NEW f \in Files, Enqueue(r, f) PROVE TInv'
    <2>1. TasksType
      BY <1>9, StoreType DEF Enqueue, Running
    <2>2. RequestType
      BY <1>4, <1>9, AdvanceType DEF Enqueue
    <2>. QED BY <1>1, <1>3, <1>9, <2>1, <2>2 DEF Enqueue
  <1>10. ASSUME NEW f \in Files, Conflict(r, f) PROVE TInv'
    <2>1. PromiseType
      BY <1>10 DEF Conflict, TInv, TypeOK, PromiseType
    <2>2. RequestType
      BY <1>10, <2>1, AdvanceType DEF Conflict
    <2>. QED BY <1>1, <1>2, <1>3, <1>10, <2>2 DEF Conflict
  <1>11. ASSUME NEW f \in Files, EnqueueFails(r, f) PROVE TInv'
    <2>1. TasksType
      BY <1>2, <1>11, StoreType DEF EnqueueFails, Running
    <2>2. RequestType
      BY <1>11, FailType DEF EnqueueFails
    <2>3. faults' \in 0 .. MaxFaults
      BY <1>3, <1>11, PublisherAssumption DEF EnqueueFails, TInv, TypeOK
    <2>. QED BY <1>1, <1>11, <2>1, <2>2, <2>3 DEF EnqueueFails
  <1>12. CASE WalkFails(r)
    <2>1. faults' \in 0 .. MaxFaults
      BY <1>12, PublisherAssumption DEF WalkFails, TInv, TypeOK
    <2>. QED BY <1>1, <1>2, <1>12, <2>1, FailType DEF WalkFails
  <1>. QED BY <1>5, <1>6, <1>7, <1>8, <1>9, <1>10, <1>11, <1>12 DEF RequestStep

\* And so do the steps of tasks.
LEMMA TaskTypes ==
    ASSUME TInv, NEW id \in Ids, TaskStep(id) \/ Forget(id)
    PROVE  TInv'
  <1>. USE DEF source
  <1>1. ASSUME UNCHANGED <<written, client, pc, body, at, todo>>, TasksType, PromiseType,
               disk' \in [Files -> 0 .. MaxWrites], dirs' \subseteq dirs,
               left' \subseteq left \cup dirs,
               faults' \in 0 .. MaxFaults
        PROVE  TInv'
    BY <1>1 DEF TInv, TypeOK, PromiseType, TasksType, AtItem, AtFirst
  <1>2. UNCHANGED promise => PromiseType
    BY DEF TInv, TypeOK, PromiseType
  <1>3. UNCHANGED faults => faults' \in 0 .. MaxFaults
    BY DEF TInv, TypeOK
  <1>4. UNCHANGED disk => disk' \in [Files -> 0 .. MaxWrites]
    BY DEF TInv, TypeOK
  <1>5. ASSUME id \in DOMAIN tasks, Failing(id)
        PROVE  faults' \in 0 .. MaxFaults
    BY <1>3, <1>5, PublisherAssumption DEF Failing, TInv, TypeOK
  <1>6. CASE Take(id)
    <2>1. id \in DOMAIN tasks
      BY <1>6 DEF Take, Known
    <2>2. disk[tasks[id].file] \in 0 .. MaxWrites
      BY <2>1, TaskType DEF TInv, TypeOK
    <2>3. [tasks[id] EXCEPT !.state = "sync", !.read = disk[tasks[id].file]] \in Task
      BY <2>1, <2>2, TaskType DEF Task
    <2>4. TasksType
      <3>1. tasks' = [tasks EXCEPT ![id] = [tasks[id] EXCEPT !.state = "sync",
                                                 !.read = disk[tasks[id].file]]]
        BY <1>6 DEF Take
      <3>. QED BY <2>1, <2>3, <3>1, UpdateType
    <2>. QED BY <1>1, <1>2, <1>3, <1>4, <1>6, <2>4 DEF Take, request
  <1>7. CASE Sync(id)
    BY <1>1, <1>3, <1>4, <1>7, DoneType DEF Sync, Known
  <1>8. CASE Remove(id)
    <2>1. id \in DOMAIN tasks
      BY <1>8 DEF Remove, Known
    <2>2. Dir(tasks[id].file) \in Dirs \cup {<<>>}
      BY <2>1, TaskType, DirType
    <2>3. [tasks[id] EXCEPT !.state = "clean", !.dir = Dir(tasks[id].file)] \in Task
      BY <2>1, <2>2, TaskType DEF Task
    <2>4. TasksType
      <3>1. tasks' = [tasks EXCEPT ![id] = [tasks[id] EXCEPT !.state = "clean",
                                                 !.dir = Dir(tasks[id].file)]]
        BY <1>8 DEF Remove
      <3>. QED BY <2>1, <2>3, <3>1, UpdateType
    <2>5. disk' \in [Files -> 0 .. MaxWrites]
      <3>1. 0 \in 0 .. MaxWrites /\ disk \in [Files -> 0 .. MaxWrites]
        BY PublisherAssumption DEF TInv, TypeOK
      <3>2. disk' = [disk EXCEPT ![tasks[id].file] = 0]
        BY <1>8 DEF Remove
      <3>. QED BY <3>1, <3>2
    <2>. QED BY <1>1, <1>2, <1>3, <1>8, <2>4, <2>5 DEF Remove, request
  <1>9. CASE CleanUp(id)
    <2>1. id \in DOMAIN tasks
      BY <1>9 DEF CleanUp, Known
    <2>. DEFINE d == tasks[id].dir
    <2>2. CASE /\ d \in dirs /\ dirs' = dirs \ {d}
               /\ tasks' = [tasks EXCEPT ![id].dir = Dir(d)]
               /\ UNCHANGED <<left, promise, faults>>
      <3>1. Dir(d) \in Dirs \cup {<<>>}
        BY <2>2, DirType DEF TInv, TypeOK
      <3>2. [tasks[id] EXCEPT !.dir = Dir(d)] \in Task
        BY <2>1, <3>1, TaskType DEF Task
      <3>3. TasksType
        <4>1. tasks' = [tasks EXCEPT ![id] = [tasks[id] EXCEPT !.dir = Dir(d)]]
          BY <2>2
        <4>. QED BY <2>1, <3>2, <4>1, UpdateType
      <3>. QED BY <1>1, <1>2, <1>3, <1>4, <1>9, <2>2, <3>3 DEF CleanUp
    <2>3. CASE Done(id) /\ UNCHANGED <<dirs, left, faults>>
      BY <1>1, <1>3, <1>4, <1>9, <2>1, <2>3, DoneType DEF CleanUp
    <2>4. CASE /\ d \in dirs /\ faults < MaxFaults /\ faults' = faults + 1
               /\ left' = left \cup {d} /\ Done(id) /\ UNCHANGED dirs
      <3>1. faults' \in 0 .. MaxFaults
        BY <2>4, PublisherAssumption DEF TInv, TypeOK
      <3>. QED BY <1>1, <1>4, <1>9, <2>1, <2>4, <3>1, DoneType DEF CleanUp
    <2>. QED BY <1>9, <2>2, <2>3, <2>4 DEF CleanUp
  <1>10. CASE Retry(id)
    <2>1. id \in DOMAIN tasks
      BY <1>10 DEF Retry, Failing, Known
    <2>2. [tasks[id] EXCEPT !.state = "pending", !.retried = tasks[id].retried + 1,
                            !.read = 0] \in Task
      BY <1>10, <2>1, TaskType, PublisherAssumption DEF Task, Retry
    <2>3. TasksType
      <3>1. tasks' = [tasks EXCEPT ![id] =
                        [tasks[id] EXCEPT !.state = "pending",
                            !.retried = tasks[id].retried + 1, !.read = 0]]
        BY <1>10 DEF Retry
      <3>. QED BY <2>1, <2>2, <3>1, UpdateType
    <2>. QED BY <1>1, <1>2, <1>4, <1>5, <1>10, <2>1, <2>3 DEF Retry, request
  <1>11. CASE Archive(id)
    <2>1. id \in DOMAIN tasks
      BY <1>11 DEF Archive, Failing, Known
    <2>2. [tasks[id] EXCEPT !.state = "archived"] \in Task
      BY <2>1, TaskType DEF Task
    <2>3. TasksType
      <3>1. tasks' = [tasks EXCEPT ![id] = [tasks[id] EXCEPT !.state = "archived"]]
        BY <1>11 DEF Archive
      <3>. QED BY <2>1, <2>2, <3>1, UpdateType
    <2>. QED BY <1>1, <1>4, <1>5, <1>11, <2>1, <2>3, KeptType DEF Archive
  <1>12. CASE Forget(id)
    <2>1. TasksType
      BY <1>12 DEF Forget, Known, TInv, TypeOK, TasksType
    <2>. QED BY <1>1, <1>2, <1>3, <1>4, <1>12, <2>1 DEF Forget, request
  <1>. QED BY <1>6, <1>7, <1>8, <1>9, <1>10, <1>11, <1>12 DEF TaskStep

\* The remaining steps: the producer, the end of the client, and none.
LEMMA OtherTypes ==
    ASSUME TInv, (\E f \in Files : Write(f)) \/ Close \/ UNCHANGED vars
    PROVE  TInv'
  <1>1. ASSUME NEW f \in Files, Write(f) PROVE TInv'
    <2>1. Parents(f) \subseteq Dirs
      BY DEF Dirs
    <2>2. dirs' \subseteq Dirs /\ left' \subseteq Dirs
      BY <1>1, <2>1 DEF Write, TInv, TypeOK
    <2>3. written + 1 \in 1 .. MaxWrites
      BY <1>1, PublisherAssumption DEF Write, TInv, TypeOK
    <2>4. disk' \in [Files -> 0 .. MaxWrites]
      BY <1>1, <2>3 DEF Write, TInv, TypeOK
    <2>5. AtItem' /\ AtFirst'
      BY <1>1 DEF Write, request, TInv, AtItem, AtFirst
    <2>. QED BY <1>1, <2>2, <2>3, <2>4, <2>5 DEF Write, request, TInv, TypeOK
  <1>2. CASE Close
    BY <1>2 DEF Close, source, request, TInv, TypeOK, AtItem, AtFirst
  <1>3. CASE UNCHANGED vars
    BY <1>3 DEF vars, source, request, TInv, TypeOK, AtItem, AtFirst
  <1>. QED BY <1>1, <1>2, <1>3

\* The types hold at the start.
LEMMA InitTypes == Init => TInv
  <1>. SUFFICES ASSUME Init PROVE TInv
    OBVIOUS
  <1>1. dirs \subseteq Dirs
    BY DEF Init, Present, Dirs
  <1>2. disk \in [Files -> 0 .. MaxWrites] /\ written \in 1 .. MaxWrites
    BY PublisherAssumption DEF Init
  <1>3. tasks = [id \in {} |-> {}] /\ DOMAIN tasks = {}
    BY DEF Init
  <1>4. faults \in 0 .. MaxFaults
    BY PublisherAssumption DEF Init
  <1>. QED BY <1>1, <1>2, <1>3, <1>4 DEF Init, TInv, TypeOK, AtItem, AtFirst, Running

\* Every variable of Publisher keeps its type, and a running request is at one of
\* its items.
THEOREM TypesHold == Spec => []TInv
  <1>1. TInv /\ [Next]_vars => TInv'
    BY RequestTypes, TaskTypes, OtherTypes DEF Next
  <1>. QED BY <1>1, InitTypes, PTL DEF Spec

\* The type invariant of the runs.
THEOREM TypeCorrect == Spec => []TypeOK
  <1>1. TInv => TypeOK
    BY DEF TInv
  <1>. QED BY <1>1, TypesHold, PTL

-----------------------------------------------------------------------------
(* What was accepted has its tasks.                                        *)

\* A file has no later version than the last, and a version that was promised is
\* still there, or a later one, unless the file is gone.
Versions ==
    /\ \A f \in Files : disk[f] <= written
    /\ \A r \in Requests : \A p \in promise[r] :
            /\ p.version <= written
            /\ disk[p.file] = 0 \/ p.version <= disk[p.file]

\* The file of the promise is still to be enqueued.
Open(r, p) ==
    /\ pc[r] = "enqueue"
    /\ p.file \in todo[r]
    /\ p.target = TargetPath(Item(r), p.file)

Owed == \A r \in Requests : \A p \in promise[r] : Open(r, p) \/ HasTask(p)

OInv == TInv /\ Versions /\ Owed

\* A promise.
LEMMA PromiseFields ==
    ASSUME TInv, NEW r \in Requests, NEW p \in promise[r]
    PROVE  /\ p.file \in Files /\ p.target \in Targets /\ p.version \in 1 .. MaxWrites
           /\ disk[p.file] \in 0 .. MaxWrites /\ written \in 1 .. MaxWrites
  BY DEF TInv, TypeOK

\* Nothing is written, files go, and promises.
LEMMA VersionsFall ==
    ASSUME OInv, UNCHANGED written,
           \A f \in Files : disk'[f] = disk[f] \/ disk'[f] = 0,
           \A q \in Requests : promise'[q] \subseteq promise[q]
    PROVE  Versions'
  <1>. USE DEF OInv
  <1>1. \A f \in Files : disk'[f] <= written'
    <2>1. \A f \in Files : disk[f] <= written
      BY DEF Versions
    <2>2. written \in 1 .. MaxWrites /\ MaxWrites \in Nat
      BY PublisherAssumption DEF TInv, TypeOK
    <2>. QED BY <2>1, <2>2
  <1>2. ASSUME NEW q \in Requests, NEW p \in promise'[q]
        PROVE  /\ p.version <= written'
               /\ disk'[p.file] = 0 \/ p.version <= disk'[p.file]
    BY <1>2, PromiseFields DEF Versions
  <1>. QED BY <1>1, <1>2 DEF Versions

\* The versions stay in order.
LEMMA VersionsKept == OInv /\ [Next]_vars => Versions'
  <1>. SUFFICES ASSUME OInv, [Next]_vars PROVE Versions'
    OBVIOUS
  <1>. USE DEF OInv
  <1>1. ASSUME UNCHANGED written, \A f \in Files : disk'[f] = disk[f] \/ disk'[f] = 0,
               \A q \in Requests : promise'[q] \subseteq promise[q]
        PROVE  Versions'
    BY <1>1, VersionsFall
  <1>2. ASSUME NEW r \in Requests, NEW F \in SUBSET Present, Promise(r, F),
               UNCHANGED <<disk, written>>
        PROVE  Versions'
    <2>1. ASSUME NEW q \in Requests, NEW p \in promise'[q]
          PROVE  /\ p.version <= written
                 /\ disk[p.file] = 0 \/ p.version <= disk[p.file]
      <3>1. CASE p \in promise[q]
        BY <3>1 DEF Versions
      <3>2. CASE p \notin promise[q]
        <4>1. PICK f \in F : p = [file |-> f, target |-> TargetPath(Item(r), f),
                                  version |-> disk[f]]
          BY <1>2, <2>1, <3>2 DEF Promise, TInv, TypeOK
        <4>2. f \in Files /\ disk[f] \in 0 .. MaxWrites
          BY DEF Present, TInv, TypeOK
        <4>. QED BY <4>1, <4>2, PublisherAssumption DEF Versions
      <3>. QED BY <3>1, <3>2
    <2>. QED BY <1>2, <2>1 DEF Versions
  <1>3. ASSUME NEW r \in Requests, Fail(r)
        PROVE  \A q \in Requests : promise'[q] \subseteq promise[q]
    BY <1>3 DEF Fail, TInv, TypeOK
  <1>4. ASSUME NEW r \in Requests,
               RequestStep(r) \/ \E b \in Bodies : Receive(r, b)
        PROVE  Versions'
    <2>. USE DEF source
    <2>1. ASSUME NEW b \in Bodies, Receive(r, b) PROVE Versions'
      BY <1>1, <1>3, <2>1 DEF Receive
    <2>2. CASE Resolve(r)
      BY <1>1, <1>2, <1>3, <2>2 DEF Resolve
    <2>3. CASE Scan(r)
      BY <1>1, <1>3, <2>3 DEF Scan
    <2>4. CASE Inspect(r)
      BY <1>1, <1>2, <1>3, <2>4 DEF Inspect
    <2>5. ASSUME NEW f \in Files, Enqueue(r, f) PROVE Versions'
      BY <1>1, <2>5 DEF Enqueue
    <2>6. ASSUME NEW f \in Files, Conflict(r, f) PROVE Versions'
      <3>1. \A q \in Requests : promise'[q] \subseteq promise[q]
        BY <2>6 DEF Conflict, TInv, TypeOK
      <3>. QED BY <1>1, <2>6, <3>1 DEF Conflict
    <2>7. ASSUME NEW f \in Files, EnqueueFails(r, f) PROVE Versions'
      BY <1>1, <1>3, <2>7 DEF EnqueueFails
    <2>8. CASE WalkFails(r)
      BY <1>1, <1>3, <2>8 DEF WalkFails
    <2>. QED BY <1>4, <2>1, <2>2, <2>3, <2>4, <2>5, <2>6, <2>7, <2>8 DEF RequestStep
  <1>5. ASSUME NEW id, Kept(id)
        PROVE  \A q \in Requests : promise'[q] \subseteq promise[q]
    BY <1>5 DEF Kept
  <1>6. ASSUME NEW id \in Ids, TaskStep(id) \/ Forget(id) PROVE Versions'
    <2>. USE DEF source, request
    <2>1. CASE Take(id)
      BY <1>1, <2>1 DEF Take
    <2>2. CASE Sync(id)
      BY <1>1, <1>5, <2>2 DEF Sync, Done
    <2>3. CASE Remove(id)
      <3>1. \A f \in Files : disk'[f] = disk[f] \/ disk'[f] = 0
        BY <2>3 DEF Remove, TInv, TypeOK
      <3>. QED BY <1>1, <2>3, <3>1 DEF Remove
    <2>4. CASE CleanUp(id)
      BY <1>1, <1>5, <2>4 DEF CleanUp, Done
    <2>5. CASE Retry(id)
      BY <1>1, <2>5 DEF Retry
    <2>6. CASE Archive(id)
      BY <1>1, <1>5, <2>6 DEF Archive
    <2>7. CASE Forget(id)
      BY <1>1, <2>7 DEF Forget
    <2>. QED BY <1>6, <2>1, <2>2, <2>3, <2>4, <2>5, <2>6, <2>7 DEF TaskStep
  <1>7. ASSUME NEW f \in Files, Write(f) PROVE Versions'
    <2>1. UNCHANGED promise /\ written' = written + 1
          /\ disk' = [disk EXCEPT ![f] = written + 1]
      BY <1>7 DEF Write, request
    <2>2. \A g \in Files : disk'[g] = (IF g = f THEN written + 1 ELSE disk[g])
                           /\ disk[g] \in 0 .. MaxWrites /\ disk[g] <= written
      BY <2>1 DEF Versions, TInv, TypeOK
    <2>3. written \in 1 .. MaxWrites /\ MaxWrites \in Nat
      BY PublisherAssumption DEF TInv, TypeOK
    <2>4. \A g \in Files : disk'[g] <= written'
      BY <2>1, <2>2, <2>3
    <2>5. ASSUME NEW q \in Requests, NEW p \in promise[q]
          PROVE  p.version <= written' /\ (disk'[p.file] = 0 \/ p.version <= disk'[p.file])
      <3>1. p.version \in 1 .. MaxWrites /\ p.file \in Files /\ p.version <= written
            /\ (disk[p.file] = 0 \/ p.version <= disk[p.file])
        BY PromiseFields DEF Versions
      <3>. QED BY <2>1, <2>2, <2>3, <3>1
    <2>. QED BY <2>1, <2>4, <2>5 DEF Versions
  <1>8. CASE Close
    BY <1>1, <1>8 DEF Close, source, request
  <1>9. CASE UNCHANGED vars
    BY <1>1, <1>9 DEF vars, source, request
  <1>. QED BY <1>4, <1>6, <1>7, <1>8, <1>9 DEF Next

\* A task that serves a promise does so as long as nothing happens to it.
LEMMA HasTaskStays ==
    ASSUME NEW p, HasTask(p),
           \A id \in DOMAIN tasks : id \in DOMAIN tasks' /\ tasks'[id] = tasks[id]
    PROVE  HasTask(p)'
  <1>1. PICK id \in DOMAIN tasks : Serves(tasks[id], p)
    BY DEF HasTask
  <1>2. id \in DOMAIN tasks' /\ Serves(tasks'[id], p)
    BY <1>1
  <1>. QED BY <1>2 DEF HasTask, Serves

\* Or what happens to it keeps it serving the promise.
LEMMA HasTaskUpdated ==
    ASSUME NEW p, HasTask(p), NEW id \in DOMAIN tasks, NEW t,
           tasks' = [tasks EXCEPT ![id] = t],
           Serves(tasks[id], p) => Serves(t, p)
    PROVE  HasTask(p)'
  <1>1. PICK i \in DOMAIN tasks : Serves(tasks[i], p)
    BY DEF HasTask
  <1>2. DOMAIN tasks' = DOMAIN tasks /\ tasks'[i] = IF i = id THEN t ELSE tasks[i]
    OBVIOUS
  <1>3. Serves(tasks'[i], p)
    BY <1>1, <1>2
  <1>. QED BY <1>1, <1>2, <1>3 DEF HasTask, Serves

\* A new task disturbs no other.
LEMMA StoreKeeps ==
    ASSUME NEW r, NEW f, Store(r, f)
    PROVE  \A id \in DOMAIN tasks : id \in DOMAIN tasks' /\ tasks'[id] = tasks[id]
  BY DEF Store, Known

\* The steps of one request leave the others alone.
LEMMA OwedByRequest ==
    ASSUME OInv, NEW r \in Requests,
           \A q \in Requests \ {r} : /\ pc'[q] = pc[q] /\ body'[q] = body[q]
                                     /\ at'[q] = at[q] /\ todo'[q] = todo[q]
                                     /\ promise'[q] = promise[q],
           \A id \in DOMAIN tasks : id \in DOMAIN tasks' /\ tasks'[id] = tasks[id],
           \A p \in promise'[r] : Open(r, p)' \/ HasTask(p)'
    PROVE  Owed'
  <1>. SUFFICES ASSUME NEW q \in Requests, NEW p \in promise'[q]
                PROVE  Open(q, p)' \/ HasTask(p)'
    BY DEF Owed
  <1>1. CASE q = r
    BY <1>1
  <1>2. CASE q # r
    <2>1. Open(q, p) \/ HasTask(p)
      BY <1>2 DEF OInv, Owed
    <2>2. Open(q, p) => Open(q, p)'
      BY <1>2 DEF Open, Item
    <2>. QED BY <2>1, <2>2, HasTaskStays
  <1>. QED BY <1>1, <1>2

\* A request that fails promises nothing.
LEMMA OwedByFail ==
    ASSUME OInv, NEW r \in Requests, Fail(r),
           \A id \in DOMAIN tasks : id \in DOMAIN tasks' /\ tasks'[id] = tasks[id]
    PROVE  Owed'
  <1>1. promise'[r] = {}
    BY DEF Fail, OInv, TInv, TypeOK
  <1>2. \A q \in Requests \ {r} : /\ pc'[q] = pc[q] /\ body'[q] = body[q]
                                  /\ at'[q] = at[q] /\ todo'[q] = todo[q]
                                  /\ promise'[q] = promise[q]
    BY DEF Fail, Answer, Goto, OInv, TInv, TypeOK
  <1>. QED BY <1>1, <1>2, OwedByRequest

\* The files of an item are open, what was promised before has its tasks.
LEMMA OwedByPromise ==
    ASSUME OInv, NEW r \in Requests, pc[r] # "enqueue", NEW F \in SUBSET Present,
           Promise(r, F), UNCHANGED <<body, at, tasks>>
    PROVE  Owed'
  <1>1. ASSUME NEW p \in promise'[r]
        PROVE  Open(r, p)' \/ HasTask(p)'
    <2>1. CASE p \in promise[r]
      <3>1. HasTask(p)
        BY <2>1 DEF OInv, Owed, Open
      <3>. QED BY <3>1, HasTaskStays
    <2>2. CASE p \notin promise[r]
      <3>1. PICK f \in F : p = [file |-> f, target |-> TargetPath(Item(r), f),
                                version |-> disk[f]]
        BY <2>2 DEF Promise, OInv, TInv, TypeOK
      <3>2. pc'[r] = "enqueue" /\ todo'[r] = F /\ UNCHANGED Item(r)
        BY DEF Promise, Goto, OInv, TInv, TypeOK, Item
      <3>3. p.file = f /\ p.target = TargetPath(Item(r), f)
        BY <3>1
      <3>. QED BY <3>1, <3>2, <3>3 DEF Open
    <2>. QED BY <2>1, <2>2
  <1>2. \A q \in Requests \ {r} : /\ pc'[q] = pc[q] /\ body'[q] = body[q]
                                  /\ at'[q] = at[q] /\ todo'[q] = todo[q]
                                  /\ promise'[q] = promise[q]
    BY DEF Promise, Goto, OInv, TInv, TypeOK
  <1>. QED BY <1>1, <1>2, OwedByRequest

\* A file that leaves the list has its task.
LEMMA OwedByAdvance ==
    ASSUME OInv, NEW r \in Requests, pc[r] = "enqueue", NEW f \in todo[r], Advance(r, f),
           \A id \in DOMAIN tasks : id \in DOMAIN tasks' /\ tasks'[id] = tasks[id],
           \A q \in Requests \ {r} : promise'[q] = promise[q],
           \A p \in promise'[r] : /\ p \in promise[r]
                                  /\ p.file = f /\ p.target = TargetPath(Item(r), f)
                                     => HasTask(p)'
    PROVE  Owed'
  <1>1. ASSUME NEW p \in promise'[r]
        PROVE  Open(r, p)' \/ HasTask(p)'
    <2>1. Open(r, p) \/ HasTask(p)
      BY <1>1 DEF OInv, Owed
    <2>2. CASE HasTask(p)
      BY <2>2, HasTaskStays
    <2>3. CASE Open(r, p) /\ p.file = f
      BY <2>3 DEF Open
    <2>4. CASE Open(r, p) /\ p.file # f
      <3>1. p.file \in todo[r] /\ p.file # f
        BY <2>4 DEF Open
      <3>2. todo' = [todo EXCEPT ![r] = @ \ {f}] /\ UNCHANGED <<pc, body, at>>
        BY <3>1 DEF Advance
      <3>3. p.file \in todo'[r]
        BY <3>1, <3>2 DEF OInv, TInv, TypeOK
      <3>. QED BY <2>4, <3>2, <3>3 DEF Open, Item
    <2>. QED BY <2>1, <2>2, <2>3, <2>4
  <1>2. \A q \in Requests \ {r} : /\ pc'[q] = pc[q] /\ body'[q] = body[q]
                                  /\ at'[q] = at[q] /\ todo'[q] = todo[q]
                                  /\ promise'[q] = promise[q]
    BY DEF Advance, Answer, Goto, OInv, TInv, TypeOK
  <1>. QED BY <1>1, <1>2, OwedByRequest

\* Steps of tasks.
LEMMA OwedByTask ==
    ASSUME OInv, UNCHANGED <<pc, body, at, todo>>,
           \A q \in Requests : \A p \in promise'[q] :
                p \in promise[q] /\ (HasTask(p) => HasTask(p)')
    PROVE  Owed'
  <1>. SUFFICES ASSUME NEW q \in Requests, NEW p \in promise'[q]
                PROVE  Open(q, p)' \/ HasTask(p)'
    BY DEF Owed
  <1>1. Open(q, p) \/ HasTask(p)
    BY DEF OInv, Owed
  <1>2. Open(q, p) => Open(q, p)'
    BY DEF Open, Item
  <1>. QED BY <1>1, <1>2

\* The steps of requests keep it.
LEMMA OwedRequestStep ==
    ASSUME OInv, NEW r \in Requests,
           RequestStep(r) \/ \E b \in Bodies : Receive(r, b)
    PROVE  Owed'
  <1>. USE DEF OInv
  <1>1. UNCHANGED tasks =>
            \A id \in DOMAIN tasks : id \in DOMAIN tasks' /\ tasks'[id] = tasks[id]
    OBVIOUS
  <1>2. ASSUME pc[r] # "enqueue", UNCHANGED <<tasks, promise>>,
               \A q \in Requests \ {r} : /\ pc'[q] = pc[q] /\ body'[q] = body[q]
                                         /\ at'[q] = at[q] /\ todo'[q] = todo[q]
        PROVE  Owed'
    <2>1. ASSUME NEW p \in promise'[r] PROVE HasTask(p)'
      <3>1. HasTask(p)
        BY <1>2, <2>1 DEF Owed, Open
      <3>. QED BY <1>1, <1>2, <3>1, HasTaskStays
    <2>. QED BY <1>1, <1>2, <2>1, OwedByRequest
  <1>3. ASSUME NEW b \in Bodies, Receive(r, b) PROVE Owed'
    <2>1. CASE Fail(r)
      BY <1>1, <1>3, <2>1, OwedByFail DEF Receive
    <2>2. CASE /\ body' = [body EXCEPT ![r] = b] /\ Goto(r, "resolve")
               /\ UNCHANGED <<at, todo, promise>>
      BY <1>2, <1>3, <2>2 DEF Receive, Goto, TInv, TypeOK
    <2>. QED BY <1>3, <2>1, <2>2 DEF Receive
  <1>4. CASE Resolve(r)
    <2>1. CASE Item(r).from \in Present /\ Promise(r, {Item(r).from}) /\ UNCHANGED <<body, at>>
      BY <1>4, <2>1, OwedByPromise DEF Resolve
    <2>2. CASE Goto(r, "scan") /\ UNCHANGED <<body, at, todo, promise>>
      BY <1>2, <1>4, <2>2 DEF Resolve, Goto, TInv, TypeOK
    <2>3. CASE Fail(r)
      BY <1>1, <1>4, <2>3, OwedByFail DEF Resolve
    <2>. QED BY <1>4, <2>1, <2>2, <2>3 DEF Resolve
  <1>5. CASE Scan(r)
    <2>1. CASE /\ todo' = [todo EXCEPT ![r] = {p \in Present \cup dirs :
                                                  Below(Item(r).from, p)}]
               /\ Goto(r, "stat") /\ UNCHANGED <<body, at, promise>>
      BY <1>2, <1>5, <2>1 DEF Scan, Goto, TInv, TypeOK
    <2>2. CASE Fail(r)
      BY <1>1, <1>5, <2>2, OwedByFail DEF Scan
    <2>. QED BY <1>5, <2>1, <2>2 DEF Scan
  <1>6. CASE Inspect(r)
    <2>1. CASE Promise(r, todo[r] \cap Present) /\ UNCHANGED <<body, at>>
      BY <1>6, <2>1, OwedByPromise DEF Inspect
    <2>2. CASE Fail(r)
      BY <1>1, <1>6, <2>2, OwedByFail DEF Inspect
    <2>. QED BY <1>6, <2>1, <2>2 DEF Inspect
  <1>7. ASSUME NEW f \in Files, Enqueue(r, f) PROVE Owed'
    <2>1. ASSUME NEW p \in promise[r], p.file = f, p.target = TargetPath(Item(r), f)
          PROVE  HasTask(p)'
      <3>. DEFINE id == TaskID(r, f)
      <3>1. id \in DOMAIN tasks' /\ tasks'[id].file = f /\ tasks'[id].state = "pending"
            /\ tasks'[id].target = TargetPath(Item(r), f)
        BY <1>7 DEF Enqueue, Store, Known
      <3>2. Serves(tasks'[id], p)
        BY <2>1, <3>1 DEF Serves
      <3>. QED BY <3>1, <3>2 DEF HasTask, Serves
    <2>. QED BY <1>7, <2>1, StoreKeeps, OwedByAdvance DEF Enqueue
  <1>8. ASSUME NEW f \in Files, Conflict(r, f) PROVE Owed'
    <2>. DEFINE id == TaskID(r, f)
                t == TargetPath(Item(r), f)
    <2>1. /\ id \in DOMAIN tasks /\ UNCHANGED tasks
          /\ promise' = [promise EXCEPT ![r] =
                {p \in @ : p.file = f /\ p.target = t => Serves(tasks[id], p)}]
      BY <1>8 DEF Conflict, Known
    <2>2. \A q \in Requests \ {r} : promise'[q] = promise[q]
      BY <2>1 DEF TInv, TypeOK
    <2>3. ASSUME NEW p \in promise'[r]
          PROVE  /\ p \in promise[r]
                 /\ p.file = f /\ p.target = t => Serves(tasks[id], p)
      BY <2>1, <2>3 DEF TInv, TypeOK
    <2>4. ASSUME NEW p \in promise'[r], p.file = f, p.target = t
          PROVE  HasTask(p)'
      <3>1. HasTask(p)
        BY <2>1, <2>3, <2>4 DEF HasTask
      <3>. QED BY <1>1, <2>1, <3>1, HasTaskStays
    <2>. QED BY <1>1, <1>8, <2>1, <2>2, <2>3, <2>4, OwedByAdvance DEF Conflict
  <1>9. ASSUME NEW f \in Files, EnqueueFails(r, f) PROVE Owed'
    BY <1>1, <1>9, StoreKeeps, OwedByFail DEF EnqueueFails
  <1>10. CASE WalkFails(r)
    BY <1>1, <1>10, OwedByFail DEF WalkFails
  <1>. QED BY <1>3, <1>4, <1>5, <1>6, <1>7, <1>8, <1>9, <1>10 DEF RequestStep

\* A task that ends has kept what it served.
LEMMA KeptEnds ==
    ASSUME OInv, NEW id \in DOMAIN tasks, tasks[id].state \in {"sync", "clean"},
           Kept(id), NEW q \in Requests, NEW p \in promise'[q]
    PROVE  p \in promise[q] /\ ~Serves(tasks[id], p)
  <1>1. p \in promise[q] /\ ~(/\ p.file = tasks[id].file
                              /\ p.target = tasks[id].target
                              /\ tasks[id].read = 0 \/ p.version <= tasks[id].read)
    BY DEF Kept
  <1>2. tasks[id].read \in 0 .. MaxWrites /\ p.version \in 1 .. MaxWrites
    BY <1>1, TaskType, PromiseFields DEF OInv
  <1>3. tasks[id].read >= p.version <=> p.version <= tasks[id].read
    BY <1>2, PublisherAssumption
  <1>. QED BY <1>1, <1>3 DEF Serves

\* The steps of tasks keep it.
LEMMA OwedTaskStep ==
    ASSUME OInv, NEW id \in Ids, TaskStep(id) \/ Forget(id)
    PROVE  Owed'
  <1>. USE DEF source, request
  <1>1. ASSUME NEW t, id \in DOMAIN tasks, tasks' = [tasks EXCEPT ![id] = t],
               UNCHANGED <<pc, body, at, todo>>,
               \A q \in Requests : \A p \in promise'[q] :
                    p \in promise[q] /\ (Serves(tasks[id], p) => Serves(t, p))
        PROVE  Owed'
    BY <1>1, HasTaskUpdated, OwedByTask
  <1>2. ASSUME Done(id), id \in DOMAIN tasks, tasks[id].state \in {"sync", "clean"},
               UNCHANGED <<pc, body, at, todo>>
        PROVE  Owed'
    <2>1. tasks' = [tasks EXCEPT ![id] = [tasks[id] EXCEPT !.state = "done", !.dir = <<>>]]
      BY <1>2 DEF Done
    <2>. QED BY <1>1, <1>2, <2>1, KeptEnds DEF Done
  <1>3. CASE Take(id)
    <2>. DEFINE t == [tasks[id] EXCEPT !.state = "sync", !.read = disk[tasks[id].file]]
    <2>1. id \in DOMAIN tasks /\ tasks[id] \in Task
      BY <1>3, TaskType DEF Take, Known, OInv
    <2>2. ASSUME NEW q \in Requests, NEW p \in promise[q], Serves(tasks[id], p)
          PROVE  Serves(t, p)
      <3>1. t.file = p.file /\ t.target = p.target /\ t.state = "sync"
            /\ t.read = disk[p.file]
        BY <2>1, <2>2 DEF Serves, Task
      <3>2. disk[p.file] = 0 \/ p.version <= disk[p.file]
        BY DEF OInv, Versions
      <3>3. p.version \in 1 .. MaxWrites /\ disk[p.file] \in 0 .. MaxWrites
        BY PromiseFields DEF OInv
      <3>4. t.read = 0 \/ t.read >= p.version
        BY <3>1, <3>2, <3>3, PublisherAssumption
      <3>. QED BY <3>1, <3>4 DEF Serves
    <2>3. tasks' = [tasks EXCEPT ![id] = t]
      BY <1>3 DEF Take
    <2>. QED BY <1>1, <1>3, <2>1, <2>2, <2>3 DEF Take
  <1>4. CASE Sync(id)
    BY <1>2, <1>4 DEF Sync, Known
  <1>5. CASE Remove(id)
    <2>. DEFINE t == [tasks[id] EXCEPT !.state = "clean", !.dir = Dir(tasks[id].file)]
    <2>1. id \in DOMAIN tasks /\ tasks[id] \in Task /\ tasks[id].state = "sync"
      BY <1>5, TaskType DEF Remove, Known, OInv
    <2>2. ASSUME NEW p, Serves(tasks[id], p) PROVE Serves(t, p)
      BY <2>1, <2>2 DEF Serves, Task
    <2>3. tasks' = [tasks EXCEPT ![id] = t]
      BY <1>5 DEF Remove
    <2>. QED BY <1>1, <1>5, <2>1, <2>2, <2>3 DEF Remove
  <1>6. CASE CleanUp(id)
    <2>. DEFINE t == [tasks[id] EXCEPT !.dir = Dir(tasks[id].dir)]
    <2>1. id \in DOMAIN tasks /\ tasks[id] \in Task /\ tasks[id].state = "clean"
      BY <1>6, TaskType DEF CleanUp, Known, OInv
    <2>2. ASSUME NEW p, Serves(tasks[id], p) PROVE Serves(t, p)
      BY <2>1, <2>2 DEF Serves, Task
    <2>3. CASE tasks' = [tasks EXCEPT ![id].dir = Dir(tasks[id].dir)] /\ UNCHANGED promise
      <3>1. tasks' = [tasks EXCEPT ![id] = t]
        BY <2>3
      <3>. QED BY <1>1, <1>6, <2>1, <2>2, <2>3, <3>1 DEF CleanUp
    <2>4. CASE Done(id)
      BY <1>2, <1>6, <2>1, <2>4 DEF CleanUp
    <2>. QED BY <1>6, <2>3, <2>4 DEF CleanUp
  <1>7. CASE Retry(id)
    <2>. DEFINE t == [tasks[id] EXCEPT !.state = "pending",
                          !.retried = tasks[id].retried + 1, !.read = 0]
    <2>1. id \in DOMAIN tasks /\ tasks[id] \in Task
      BY <1>7, TaskType DEF Retry, Failing, Known, OInv
    <2>2. ASSUME NEW p, Serves(tasks[id], p) PROVE Serves(t, p)
      BY <2>1, <2>2 DEF Serves, Task
    <2>3. tasks' = [tasks EXCEPT ![id] = t]
      BY <1>7 DEF Retry
    <2>. QED BY <1>1, <1>7, <2>1, <2>2, <2>3 DEF Retry
  <1>8. CASE Archive(id)
    <2>1. id \in DOMAIN tasks /\ tasks[id].state = "sync"
      BY <1>8 DEF Archive, Failing, Known
    <2>2. tasks' = [tasks EXCEPT ![id] = [tasks[id] EXCEPT !.state = "archived"]]
      BY <1>8 DEF Archive
    <2>. QED BY <1>1, <1>8, <2>1, <2>2, KeptEnds DEF Archive
  <1>9. CASE Forget(id)
    <2>1. ASSUME NEW p, HasTask(p) PROVE HasTask(p)'
      <3>1. PICK i \in DOMAIN tasks : Serves(tasks[i], p)
        BY <2>1 DEF HasTask
      <3>2. i # id
        BY <1>9, <3>1 DEF Forget, Serves
      <3>3. i \in DOMAIN tasks' /\ tasks'[i] = tasks[i]
        BY <1>9, <3>2 DEF Forget
      <3>. QED BY <3>1, <3>3 DEF HasTask, Serves
    <2>. QED BY <1>9, <2>1, OwedByTask DEF Forget
  <1>. QED BY <1>3, <1>4, <1>5, <1>6, <1>7, <1>8, <1>9 DEF TaskStep

\* Every step keeps the invariant that AcceptedHasTask rests on.
LEMMA OwedKept == OInv /\ [Next]_vars => OInv'
  <1>. SUFFICES ASSUME OInv, [Next]_vars PROVE OInv'
    OBVIOUS
  <1>1. TInv'
    BY RequestTypes, TaskTypes, OtherTypes DEF OInv, Next
  <1>2. Versions'
    BY VersionsKept
  <1>3. ASSUME UNCHANGED <<tasks, request>> PROVE Owed'
    BY <1>3, OwedByTask, HasTaskStays DEF request
  <1>4. (\E f \in Files : Write(f)) \/ Close \/ UNCHANGED vars => Owed'
    BY <1>3 DEF Write, Close, vars
  <1>5. Owed'
    BY <1>4, OwedRequestStep, OwedTaskStep DEF Next
  <1>. QED BY <1>1, <1>2, <1>5 DEF OInv

\* It holds at the start.
LEMMA InitOwed == Init => OInv
  <1>. SUFFICES ASSUME Init PROVE OInv
    OBVIOUS
  <1>1. Versions /\ Owed
    BY DEF Init, Versions, Owed
  <1>. QED BY <1>1, InitTypes DEF OInv

\* What was promised is to be enqueued, or has its task.
THEOREM PromisesAreOwed == Spec => []OInv
  BY InitOwed, OwedKept, PTL DEF Spec

\* A request that was answered with success has a task for each file that it found,
\* until such a task ended, except for files of unique items that met a task of
\* their target that does not bring them (publisher.go:165-170, Conflict).
THEOREM AcceptedHaveTasks == Spec => []AcceptedHasTask
  <1>1. OInv => AcceptedHasTask
    BY DEF OInv, Owed, Open, AcceptedHasTask
  <1>. QED BY <1>1, PromisesAreOwed, PTL

-----------------------------------------------------------------------------
(* No empty directory stays.                                               *)

\* What there is has its directories.
Closed == \A p \in Present \cup dirs : Parents(p) \subseteq dirs

\* The directories that cleanups look at.
LookedAt == {tasks[id].dir : id \in {i \in DOMAIN tasks : tasks[i].state = "clean"}}

DInv == TInv /\ Closed /\ NoEmptyDirs

LEMMA EmptyIsLookedAt ==
    NoEmptyDirs <=> \A d \in dirs : Empty(d) => d \in LookedAt \cup left
  BY DEF NoEmptyDirs, LookedAt

\* What there is, is a path.
LEMMA ThereIsPath ==
    ASSUME TInv, NEW p \in Present \cup dirs
    PROVE  p \in Seq(STRING) /\ p # <<>>
  <1>1. CASE p \in Present
    BY <1>1, PublisherAssumption DEF Present
  <1>2. CASE p \in dirs
    BY <1>2, DirIsPath DEF TInv, TypeOK
  <1>. QED BY <1>1, <1>2

\* Something in a directory d is gone: d is its directory, or is not empty.
LEMMA EmptiedIsDir ==
    ASSUME TInv, Closed, NEW p \in Present \cup dirs, NEW d \in dirs, Below(d, p),
           d # Dir(p)
    PROVE  Dir(p) \in dirs /\ Below(d, Dir(p)) /\ Dir(p) # p
  <1>1. p \in Seq(STRING) /\ p # <<>> /\ d \in Seq(STRING)
    BY ThereIsPath
  <1>2. Below(d, Dir(p))
    BY <1>1, BelowDir
  <1>3. Dir(p) # <<>>
    <2>1. Len(d) \in Nat /\ Len(d) < Len(Dir(p))
      BY <1>1, <1>2 DEF Below
    <2>2. Len(<<>>) = 0
      OBVIOUS
    <2>. QED BY <2>1, <2>2
  <1>4. Dir(p) \in Parents(p)
    BY <1>1, <1>3, DirIsParent
  <1>5. Len(Dir(p)) < Len(p)
    BY <1>1, <1>4, ParentIsPath
  <1>. QED BY <1>2, <1>4, <1>5, <1>1 DEF Closed

\* The lemmas that follow say what becomes of empty directories, of which all are
\* in a set L before a step, and in a set M after it.

\* The disk is left alone.
LEMMA DiskAlone ==
    ASSUME Closed, UNCHANGED <<disk, dirs>>, NEW L, NEW M,
           \A d \in dirs : Empty(d) => d \in L,
           \A d \in dirs \cap L : Empty(d) => d \in M
    PROVE  Closed' /\ \A d \in dirs' : Empty(d)' => d \in M
  <1>1. UNCHANGED Present
    BY DEF Present
  <1>2. \A d : Empty(d)' => Empty(d)
    BY <1>1 DEF Empty
  <1>. QED BY <1>1, <1>2 DEF Closed

\* A file is removed, and its directory is one of M.
LEMMA FileGone ==
    ASSUME TInv, Closed, NEW f \in Present, disk' = [disk EXCEPT ![f] = 0], dirs' = dirs,
           NEW L, NEW M, \A d \in dirs : Empty(d) => d \in L,
           L \subseteq M, Dir(f) \in M
    PROVE  Closed' /\ \A d \in dirs' : Empty(d)' => d \in M
  <1>1. Present' = Present \ {f}
    BY DEF Present, TInv, TypeOK
  <1>2. Closed'
    BY <1>1 DEF Closed
  <1>3. ASSUME NEW d \in dirs, Empty(d)', ~Empty(d)
        PROVE  d = Dir(f)
    <2>1. PICK p \in Present \cup dirs : Below(d, p)
      BY <1>3 DEF Empty
    <2>2. p = f
      BY <1>1, <1>3, <2>1 DEF Empty
    <2>. QED BY <1>1, <1>3, <2>1, <2>2, EmptiedIsDir DEF Empty
  <1>. QED BY <1>2, <1>3

\* An empty directory is removed, and its parent is one of M.
LEMMA DirGone ==
    ASSUME TInv, Closed, NEW c \in dirs, Empty(c), dirs' = dirs \ {c}, disk' = disk,
           NEW L, NEW M, \A d \in dirs : Empty(d) => d \in L,
           L \ {c} \subseteq M, Dir(c) \in M
    PROVE  Closed' /\ \A d \in dirs' : Empty(d)' => d \in M
  <1>1. UNCHANGED Present
    BY DEF Present
  <1>2. Closed'
    <2>. SUFFICES ASSUME NEW p \in Present \cup dirs' PROVE c \notin Parents(p)
      BY <1>1 DEF Closed
    <2>1. p \in Seq(STRING) /\ ~Below(c, p)
      BY ThereIsPath DEF Empty
    <2>. QED BY <2>1, ParentIsAbove
  <1>3. ASSUME NEW d \in dirs', Empty(d)', ~Empty(d)
        PROVE  d = Dir(c)
    <2>1. PICK p \in Present \cup dirs : Below(d, p)
      BY <1>3 DEF Empty
    <2>2. p = c
      BY <1>1, <1>3, <2>1 DEF Empty
    <2>. QED BY <1>1, <1>3, <2>1, <2>2, EmptiedIsDir DEF Empty
  <1>. QED BY <1>2, <1>3

\* A file is written, with its directories.
LEMMA FileWritten ==
    ASSUME TInv, Closed, NEW f \in Files, Write(f),
           NEW L, NEW M, \A d \in dirs : Empty(d) => d \in L,
           L \ Parents(f) \subseteq M
    PROVE  Closed' /\ \A d \in dirs' : Empty(d)' => d \in M
  <1>1. /\ dirs' = dirs \cup Parents(f)
        /\ disk' = [disk EXCEPT ![f] = written + 1] /\ written \in Nat
    BY DEF Write, TInv, TypeOK
  <1>2. Present' = Present \cup {f}
    BY <1>1 DEF Present, TInv, TypeOK
  <1>3. f \in Seq(STRING)
    BY PublisherAssumption
  <1>4. Closed'
    BY <1>1, <1>2, <1>3, ParentsOfParent DEF Closed
  <1>5. ASSUME NEW d \in dirs', Empty(d)' PROVE d \in dirs \ Parents(f) /\ Empty(d)
    <2>1. ~Below(d, f)
      BY <1>2, <1>5 DEF Empty
    <2>2. d \in dirs \ Parents(f)
      BY <1>1, <1>3, <2>1, ParentIsAbove
    <2>. QED BY <1>1, <1>2, <1>5, <2>2 DEF Empty
  <1>. QED BY <1>4, <1>5

\* Steps that neither touch the disk nor a worker that looks at directories.
LEMMA DirsLeftAlone ==
    ASSUME DInv, UNCHANGED <<disk, dirs, left>>,
           \A id \in DOMAIN tasks : tasks[id].state = "clean" =>
                id \in DOMAIN tasks' /\ tasks'[id] = tasks[id]
    PROVE  Closed' /\ NoEmptyDirs'
  <1>1. LookedAt \cup left \subseteq (LookedAt \cup left)'
    BY DEF LookedAt
  <1>2. Closed' /\ \A d \in dirs' : Empty(d)' => d \in (LookedAt \cup left)'
    BY <1>1, DiskAlone, EmptyIsLookedAt DEF DInv
  <1>. QED BY <1>2 DEF LookedAt, NoEmptyDirs

\* The removal of a file.
LEMMA DirsRemove ==
    ASSUME DInv, NEW id, Remove(id)
    PROVE  Closed' /\ NoEmptyDirs'
  <1>. DEFINE f == tasks[id].file
  <1>1. /\ id \in DOMAIN tasks /\ tasks[id].state = "sync" /\ f \in Present
        /\ dirs' = dirs /\ left' = left /\ DOMAIN tasks' = DOMAIN tasks
        /\ disk' = [disk EXCEPT ![f] = 0]
    BY TaskType DEF Remove, source, Known, DInv, Present
  <1>2. \A i \in DOMAIN tasks : i # id => tasks'[i] = tasks[i]
    BY <1>1 DEF Remove
  <1>3. tasks'[id].state = "clean" /\ tasks'[id].dir = Dir(f)
    <2>1. tasks[id] \in Task
      BY <1>1, TaskType DEF DInv
    <2>. QED BY <1>1, <2>1 DEF Remove, Task
  <1>4. LookedAt \cup left \subseteq (LookedAt \cup left)' /\ Dir(f) \in LookedAt'
    BY <1>1, <1>2, <1>3 DEF LookedAt
  <1>5. Closed' /\ \A d \in dirs' : Empty(d)' => d \in (LookedAt \cup left)'
    BY <1>1, <1>4, FileGone, EmptyIsLookedAt DEF DInv
  <1>. QED BY <1>5 DEF LookedAt, NoEmptyDirs

\* The removal of a directory, or the end of the search.
LEMMA DirsCleanUp ==
    ASSUME DInv, NEW id, CleanUp(id)
    PROVE  Closed' /\ NoEmptyDirs'
  <1>. DEFINE c == tasks[id].dir
  <1>1. /\ id \in DOMAIN tasks /\ tasks[id].state = "clean" /\ tasks[id] \in Task
        /\ disk' = disk
    BY TaskType DEF CleanUp, Known, DInv
  <1>2. CASE /\ c \in dirs /\ Empty(c)
             /\ dirs' = dirs \ {c} /\ left' = left
             /\ tasks' = [tasks EXCEPT ![id].dir = Dir(c)]
    <2>1. DOMAIN tasks' = DOMAIN tasks /\ \A i \in DOMAIN tasks : i # id => tasks'[i] = tasks[i]
      BY <1>2
    <2>2. tasks'[id].state = "clean" /\ tasks'[id].dir = Dir(c)
      BY <1>1, <1>2 DEF Task
    <2>3. (LookedAt \cup left) \ {c} \subseteq (LookedAt \cup left)' /\ Dir(c) \in LookedAt'
      BY <1>1, <1>2, <2>1, <2>2 DEF LookedAt
    <2>4. Closed' /\ \A d \in dirs' : Empty(d)' => d \in (LookedAt \cup left)'
      BY <1>1, <1>2, <2>3, DirGone, EmptyIsLookedAt DEF DInv
    <2>. QED BY <2>4 DEF LookedAt, NoEmptyDirs
  <1>3. CASE /\ Done(id) /\ dirs' = dirs
             /\ \/ ~(c \in dirs /\ Empty(c)) /\ left' = left
                \/ left' = left \cup {c}
    <2>1. DOMAIN tasks' = DOMAIN tasks /\ \A i \in DOMAIN tasks : i # id => tasks'[i] = tasks[i]
      BY <1>3 DEF Done
    <2>2. LookedAt \ {c} \subseteq LookedAt' /\ left \subseteq left'
      BY <1>1, <1>3, <2>1 DEF LookedAt
    <2>3. \A d \in dirs \cap (LookedAt \cup left) : Empty(d) => d \in (LookedAt \cup left)'
      BY <1>3, <2>2
    <2>4. Closed' /\ \A d \in dirs' : Empty(d)' => d \in (LookedAt \cup left)'
      BY <1>1, <1>3, <2>3, DiskAlone, EmptyIsLookedAt DEF DInv
    <2>. QED BY <2>4 DEF LookedAt, NoEmptyDirs
  <1>. QED BY <1>2, <1>3 DEF CleanUp

\* A file that is written, with its directories.
LEMMA DirsWrite ==
    ASSUME DInv, NEW f \in Files, Write(f)
    PROVE  Closed' /\ NoEmptyDirs'
  <1>1. UNCHANGED tasks /\ left' = left \ Parents(f)
    BY DEF Write
  <1>2. (LookedAt \cup left) \ Parents(f) \subseteq (LookedAt \cup left)'
    BY <1>1 DEF LookedAt
  <1>3. Closed' /\ \A d \in dirs' : Empty(d)' => d \in (LookedAt \cup left)'
    BY <1>2, FileWritten, EmptyIsLookedAt DEF DInv
  <1>. QED BY <1>3 DEF LookedAt, NoEmptyDirs

\* The steps of requests leave the directories alone.
LEMMA DirsRequest ==
    ASSUME DInv, NEW r \in Requests,
           RequestStep(r) \/ \E b \in Bodies : Receive(r, b)
    PROVE  Closed' /\ NoEmptyDirs'
  <1>1. UNCHANGED <<disk, dirs, left>>
    BY DEF RequestStep, Receive, Resolve, Scan, Inspect, WalkFails, Enqueue, Conflict,
        EnqueueFails, source
  <1>2. UNCHANGED tasks \/ \E f \in Files : Store(r, f)
    BY DEF RequestStep, Receive, Resolve, Scan, Inspect, WalkFails, Enqueue, Conflict,
        EnqueueFails
  <1>3. \A id \in DOMAIN tasks : id \in DOMAIN tasks' /\ tasks'[id] = tasks[id]
    BY <1>2, StoreKeeps
  <1>. QED BY <1>1, <1>3, DirsLeftAlone

\* And so do the steps of tasks that remove nothing.
LEMMA DirsTask ==
    ASSUME DInv, NEW id, Take(id) \/ Sync(id) \/ Retry(id) \/ Archive(id) \/ Forget(id)
    PROVE  Closed' /\ NoEmptyDirs'
  <1>1. UNCHANGED <<disk, dirs, left>>
    BY DEF Take, Sync, Retry, Archive, Forget, source
  <1>2. tasks[id].state # "clean"
    BY DEF Take, Sync, Retry, Archive, Forget, Failing
  <1>3. \A i \in DOMAIN tasks : i # id => i \in DOMAIN tasks' /\ tasks'[i] = tasks[i]
    BY DEF Take, Sync, Done, Retry, Archive, Forget
  <1>. QED BY <1>1, <1>2, <1>3, DirsLeftAlone

\* At the start there are the directories of the files.
LEMMA InitDirs == Init => Closed /\ \A d \in dirs : ~Empty(d)
  <1>. SUFFICES ASSUME Init PROVE Closed /\ \A d \in dirs : ~Empty(d)
    OBVIOUS
  <1>1. dirs = UNION {Parents(f) : f \in Present} /\ Present \subseteq Files
    BY DEF Init, Present
  <1>2. Closed
    <2>1. ASSUME NEW p \in dirs PROVE Parents(p) \subseteq dirs
      <3>1. PICK f \in Present : p \in Parents(f)
        BY <1>1
      <3>2. Parents(p) \subseteq Parents(f)
        BY <1>1, <3>1, ParentsOfParent, PublisherAssumption
      <3>. QED BY <1>1, <3>2
    <2>. QED BY <1>1, <2>1 DEF Closed
  <1>3. ASSUME NEW d \in dirs PROVE ~Empty(d)
    <2>1. PICK f \in Present : d \in Parents(f)
      BY <1>1
    <2>2. Below(d, f)
      BY <1>1, <2>1, ParentIsAbove, PublisherAssumption
    <2>. QED BY <2>2 DEF Empty
  <1>. QED BY <1>2, <1>3

\* An empty directory is about to be looked at, or is one whose reading or removal
\* failed, whichever handlers remove the last files of which directories at the same
\* time.
THEOREM NoDirStaysEmpty == Spec => []NoEmptyDirs
  <1>1. Init => DInv
    BY InitTypes, InitDirs DEF DInv, NoEmptyDirs
  <1>2. DInv /\ [Next]_vars => DInv'
    <2>. SUFFICES ASSUME DInv, [Next]_vars PROVE DInv'
      OBVIOUS
    <2>1. TInv'
      BY RequestTypes, TaskTypes, OtherTypes DEF DInv, Next
    <2>2. Close \/ UNCHANGED vars => Closed' /\ NoEmptyDirs'
      BY DirsLeftAlone DEF Close, vars, source
    <2>3. Closed' /\ NoEmptyDirs'
      BY <2>2, DirsRequest, DirsRemove, DirsCleanUp, DirsTask, DirsWrite DEF Next, TaskStep
    <2>. QED BY <2>1, <2>3 DEF DInv
  <1>3. DInv => NoEmptyDirs
    BY DEF DInv
  <1>. QED BY <1>1, <1>2, <1>3, PTL DEF Spec
=============================================================================
