------------------------------- MODULE Publisher -------------------------------
(***************************************************************************)
(* From POST /publish to the queue and back to the disk: PublishHandler of *)
(* pkg/http/handler.go, PublishFileSyncTaskAsFiles of                      *)
(* pkg/publisher/publisher.go, and deleteFile with                         *)
(* cleanupEmptyDirectories of pkg/handler/filesync.go, which removes what  *)
(* other requests are about to publish.                                    *)
(*                                                                         *)
(* A path is a sequence of names.  The publisher resolves the source of an *)
(* item, walks it if it is a directory (the names first, then each of the  *)
(* files), and enqueues its files one by one; an error in the middle is    *)
(* answered, and the tasks before it stay.                                 *)
(*                                                                         *)
(* asynq is external.  A task with an identifier (a unique one has that of *)
(* its target) is not enqueued while asynq knows another of that           *)
(* identifier: waiting, running, completed less than 24 hours ago, or      *)
(* archived.  What a handler does between reading its source and removing  *)
(* it is one step here; module FileSync has it in detail.  Contents are    *)
(* told apart by their version, and versions of a file differ in size.     *)
(* There are as many workers as tasks; daemon.concurrency limits them.     *)
(***************************************************************************)
EXTENDS Naturals, Sequences

CONSTANTS
    Requests,       \* calls of PublishHandler
    Files,          \* paths of source files
    Bodies,         \* bodies of requests, sequences of SyncItem
    MaxRetry,       \* publish.max_retry
    MaxWrites,      \* bound on versions of files
    MaxFaults       \* bound on failures

SyncItem == [from : Seq(STRING), to : Seq(STRING), slash : BOOLEAN,
             delete : BOOLEAN, unique : BOOLEAN]

ASSUME PublisherAssumption ==
    /\ Files \subseteq Seq(STRING) \ {<<>>}
    /\ Bodies \subseteq Seq(SyncItem)
    /\ MaxRetry \in Nat
    /\ MaxWrites \in Nat \ {0}
    /\ MaxFaults \in Nat

VARIABLES
    disk,       \* version of each file, 0 if there is none
    written,    \* the last version of any file (bounded)
    dirs,       \* directories there are
    left,       \* ghost: empty directories that a cleanup could not remove
    client,     \* whether the publisher's asynq client is open
    tasks,      \* what asynq knows, by identifier
    pc,         \* where each request is
    body,       \* its items
    at,         \* index of its item
    todo,       \* names that its walk read, then files still to be enqueued
    promise,    \* ghost: versions of files that the answer "ok" promises to
                \*        bring to a target, until that is done
    faults      \* number of failures so far (bounded)

source  == <<disk, written, dirs, left>>
request == <<pc, body, at, todo, promise>>
vars    == <<source, client, tasks, request, faults>>

-----------------------------------------------------------------------------
(* Paths.                                                                  *)

Below(p, q) == Len(p) < Len(q) /\ SubSeq(q, 1, Len(p)) = p
Dir(p)      == SubSeq(p, 1, Len(p) - 1)
Base(p)     == <<p[Len(p)]>>
Parents(p)  == {SubSeq(p, 1, i) : i \in 1 .. Len(p) - 1}
Dirs        == UNION {Parents(f) : f \in Files}

Present == {f \in Files : disk[f] # 0}

\* os.ReadDir finds nothing.
Empty(d) == \A p \in Present \cup dirs : ~Below(d, p)

\* The target of a file of a walk: its path below the source, below the target.
GenerateTargetPath(i, f) == i.to \o SubSeq(f, Len(i.from) + 1, Len(f))

\* A single file goes by its name only if the target ends with a slash.
TargetPath(i, f) ==
    IF i.from # f THEN GenerateTargetPath(i, f)
    ELSE IF i.slash THEN i.to \o Base(f) ELSE i.to

Items   == UNION {{b[k] : k \in DOMAIN b} : b \in Bodies}
Indices == UNION {DOMAIN b : b \in Bodies}
Targets == {TargetPath(i, f) : i \in Items, f \in Files}

\* Identifiers of tasks: asynq makes one up, or it is the target.
Ids == (Requests \X Indices \X Files) \cup Targets

Item(r)      == body[r][at[r]]
TaskID(r, f) == IF Item(r).unique THEN TargetPath(Item(r), f) ELSE <<r, at[r], f>>

\* A task: its FileSyncSinglePayload, how often asynq retried it, the version
\* that the handler found, and the directory that it looks at.
Task == [file : Files, target : Targets, delete : BOOLEAN,
         state : {"pending", "sync", "clean", "done", "archived"},
         retried : 0 .. MaxRetry, read : 0 .. MaxWrites, dir : Dirs \cup {<<>>}]

-----------------------------------------------------------------------------
Init == /\ disk \in [Files -> {0, 1}]
        /\ written = 1
        /\ dirs = UNION {Parents(f) : f \in Present}
        /\ left = {}
        /\ client = "open"
        /\ tasks = [id \in {} |-> {}]
        /\ pc = [r \in Requests |-> "idle"]
        /\ body = [r \in Requests |-> <<>>]
        /\ at = [r \in Requests |-> 1]
        /\ todo = [r \in Requests |-> {}]
        /\ promise = [r \in Requests |-> {}]
        /\ faults = 0

Goto(r, label) == pc' = [pc EXCEPT ![r] = label]

\* The answer; a failed request promises nothing.
Answer(r, reply) ==
    /\ Goto(r, reply)
    /\ body' = [body EXCEPT ![r] = <<>>]
    /\ at' = [at EXCEPT ![r] = 1]
    /\ todo' = [todo EXCEPT ![r] = {}]

Fail(r) == Answer(r, "error") /\ promise' = [promise EXCEPT ![r] = {}]

\* The files F of the item are to be enqueued.
Promise(r, F) ==
    /\ todo' = [todo EXCEPT ![r] = F]
    /\ promise' = [promise EXCEPT ![r] = @ \cup
           {[file |-> f, target |-> TargetPath(Item(r), f), version |-> disk[f]] :
               f \in F}]
    /\ Goto(r, "enqueue")

-----------------------------------------------------------------------------
(* PublishHandler and PublishFileSyncTaskAsFiles.                          *)

Refused(b) == b = <<>> \/ \E k \in DOMAIN b : b[k].from = <<>> \/ b[k].to = <<>>

\* A body without items, or with an item that lacks a field, is refused.
Receive(r, b) ==
    /\ pc[r] = "idle"
    /\ \/ /\ ~Refused(b)
          /\ body' = [body EXCEPT ![r] = b]
          /\ Goto(r, "resolve")
          /\ UNCHANGED <<at, todo, promise>>
       \/ Refused(b) /\ Fail(r)
    /\ UNCHANGED <<source, client, tasks, faults>>

\* EvalSymlinks and os.Stat.
Resolve(r) ==
    /\ pc[r] = "resolve"
    /\ \/ /\ Item(r).from \in Present
          /\ Promise(r, {Item(r).from})
          /\ UNCHANGED <<body, at>>
       \/ /\ Item(r).from \in dirs
          /\ Goto(r, "scan")
          /\ UNCHANGED <<body, at, todo, promise>>
       \/ Item(r).from \notin Present \cup dirs /\ Fail(r)
    /\ UNCHANGED <<source, client, tasks, faults>>

\* scanFiles: filepath.Walk reads the names in the directory and those below it.
Scan(r) ==
    /\ pc[r] = "scan"
    /\ LET found == {p \in Present \cup dirs : Below(Item(r).from, p)}
       IN  \/ /\ found \cap Present # {}
              /\ todo' = [todo EXCEPT ![r] = found]
              /\ Goto(r, "stat")
              /\ UNCHANGED <<body, at, promise>>
           \/ found \cap Present = {} /\ Fail(r)
    /\ UNCHANGED <<source, client, tasks, faults>>

\* Mutant of Inspect: files that are gone by now are still published.
InspectNothing(r) ==
    /\ pc[r] = "stat"
    /\ Promise(r, todo[r] \cap Files)
    /\ UNCHANGED <<body, at, source, client, tasks, faults>>

\* And looks at each of them: a file or a directory that is gone fails the walk.
\* (filepath.Walk looks at one after the other; here they are looked at together.)
Inspect(r) ==
    /\ pc[r] = "stat"
    /\ \/ /\ todo[r] \subseteq Present \cup dirs
          /\ Promise(r, todo[r] \cap Present)
          /\ UNCHANGED <<body, at>>
       \/ ~(todo[r] \subseteq Present \cup dirs) /\ Fail(r)
    /\ UNCHANGED <<source, client, tasks, faults>>

\* EvalSymlinks, os.Stat or the walk fails for another reason.
WalkFails(r) ==
    /\ pc[r] \in {"resolve", "scan", "stat"}
    /\ faults < MaxFaults
    /\ faults' = faults + 1
    /\ Fail(r)
    /\ UNCHANGED <<source, client, tasks>>

\* The next file, the next item, or the end of the request.
Advance(r, f) ==
    \/ /\ todo[r] # {f}
       /\ todo' = [todo EXCEPT ![r] = @ \ {f}]
       /\ UNCHANGED <<pc, body, at>>
    \/ /\ todo[r] = {f}
       /\ at[r] < Len(body[r])
       /\ at' = [at EXCEPT ![r] = @ + 1]
       /\ todo' = [todo EXCEPT ![r] = {}]
       /\ Goto(r, "resolve")
       /\ UNCHANGED body
    \/ /\ todo[r] = {f}
       /\ at[r] = Len(body[r])
       /\ Answer(r, "ok")

Known(id) == id \in DOMAIN tasks

\* asynq stores a new task.
Store(r, f) ==
    /\ ~Known(TaskID(r, f))
    /\ tasks' = [id \in DOMAIN tasks \cup {TaskID(r, f)} |->
                    IF Known(id) THEN tasks[id]
                    ELSE [file |-> f, target |-> TargetPath(Item(r), f),
                          delete |-> Item(r).delete, state |-> "pending",
                          retried |-> 0, read |-> 0, dir |-> <<>>]]

Enqueue(r, f) ==
    /\ pc[r] = "enqueue"
    /\ f \in todo[r]
    /\ client = "open"
    /\ Store(r, f)
    /\ Advance(r, f)
    /\ UNCHANGED <<source, client, promise, faults>>

\* The task is still going to bring the version, or a later one, to the target: it
\* has not started, or it found that version, or found the source gone.
Serves(t, p) ==
    /\ t.file = p.file /\ t.target = p.target
    /\ \/ t.state = "pending"
       \/ t.state \in {"sync", "clean"} /\ (t.read = 0 \/ t.read >= p.version)

\* ErrTaskIDConflict is not an error: the task that is there stands for the new
\* one, and the answer will be the same.  If it does not bring this version of this
\* file to the target (it is for another file, has read an older version, or is in
\* the archive) nothing will, and the promise is void; if it has, it is kept.
Conflict(r, f) ==
    LET id == TaskID(r, f)
        t  == TargetPath(Item(r), f)
    IN  /\ pc[r] = "enqueue"
        /\ f \in todo[r]
        /\ client = "open"
        /\ Known(id)
        /\ promise' = [promise EXCEPT ![r] =
               {p \in @ : p.file = f /\ p.target = t => Serves(tasks[id], p)}]
        /\ Advance(r, f)
        /\ UNCHANGED <<source, client, tasks, faults>>

\* Mutant of EnqueueFails: the error of a batch is logged, as that of a conflict.
EnqueueFailsSkips(r, f) ==
    /\ pc[r] = "enqueue"
    /\ f \in todo[r]
    /\ \/ client = "closed" /\ UNCHANGED faults
       \/ client = "open" /\ faults < MaxFaults /\ faults' = faults + 1
    /\ Advance(r, f)
    /\ UNCHANGED <<source, client, tasks, promise>>

\* The client is closed, or Redis fails with the task stored or not.
EnqueueFails(r, f) ==
    /\ pc[r] = "enqueue"
    /\ f \in todo[r]
    /\ \/ client = "closed" /\ UNCHANGED <<tasks, faults>>
       \/ /\ client = "open"
          /\ faults < MaxFaults
          /\ faults' = faults + 1
          /\ Store(r, f) \/ UNCHANGED tasks
    /\ Fail(r)
    /\ UNCHANGED <<source, client>>

RequestStep(r) ==
    \/ Resolve(r) \/ Scan(r) \/ Inspect(r) \/ WalkFails(r)
    \/ \E f \in Files : Enqueue(r, f) \/ Conflict(r, f) \/ EnqueueFails(r, f)

\* HTTPHandler.Close, Publisher.Close.
Close == /\ client = "open"
         /\ client' = "closed"
         /\ UNCHANGED <<source, tasks, request, faults>>

-----------------------------------------------------------------------------
(* asynq, and the handler of file sync tasks.                              *)

\* A worker takes the task, and its handler finds its source, or finds it gone.
Take(id) ==
    /\ Known(id)
    /\ tasks[id].state = "pending"
    /\ tasks' = [tasks EXCEPT ![id].state = "sync",
                              ![id].read = disk[tasks[id].file]]
    /\ UNCHANGED <<source, client, request, faults>>

\* The promises a task has kept when it ends; asynq shows an archived one.
Kept(id) ==
    promise' = [r \in Requests |->
        {p \in promise[r] : ~(/\ p.file = tasks[id].file
                              /\ p.target = tasks[id].target
                              /\ tasks[id].read = 0 \/ p.version <= tasks[id].read)}]

\* The task ends without an error.
Done(id) == /\ tasks' = [tasks EXCEPT ![id].state = "done", ![id].dir = <<>>]
            /\ Kept(id)

\* The target has the version read, and nothing is to be removed.
Sync(id) ==
    /\ Known(id)
    /\ tasks[id].state = "sync"
    /\ tasks[id].read # 0
    /\ ~tasks[id].delete \/ disk[tasks[id].file] = 0
    /\ Done(id)
    /\ UNCHANGED <<source, client, pc, body, at, todo, faults>>

\* Then deleteFile: the source is removed, and its directory is looked at.
Remove(id) ==
    /\ Known(id)
    /\ tasks[id].state = "sync"
    /\ tasks[id].read # 0
    /\ tasks[id].delete /\ disk[tasks[id].file] # 0
    /\ disk' = [disk EXCEPT ![tasks[id].file] = 0]
    /\ tasks' = [tasks EXCEPT ![id].state = "clean", ![id].dir = Dir(tasks[id].file)]
    /\ UNCHANGED <<written, dirs, left, client, request, faults>>

\* Mutant of CleanUp: only the directory of the file is looked at.
CleanUpOnce(id) ==
    /\ Known(id)
    /\ tasks[id].state = "clean"
    /\ dirs' = dirs \ {d \in {tasks[id].dir} : Empty(d)}
    /\ Done(id)
    /\ UNCHANGED <<disk, written, left, client, pc, body, at, todo, faults>>

\* cleanupEmptyDirectories: an empty directory is removed, and then its parent
\* is looked at.  os.Remove decides, so that it is one step with os.ReadDir.  If
\* either fails for another reason, the empty directory is left.
CleanUp(id) ==
    /\ Known(id)
    /\ tasks[id].state = "clean"
    /\ LET d == tasks[id].dir
       IN  \/ /\ d \in dirs /\ Empty(d)
              /\ dirs' = dirs \ {d}
              /\ tasks' = [tasks EXCEPT ![id].dir = Dir(d)]
              /\ UNCHANGED <<left, promise, faults>>
           \/ /\ d \in dirs /\ Empty(d)
              /\ faults < MaxFaults
              /\ faults' = faults + 1
              /\ left' = left \cup {d}
              /\ Done(id)
              /\ UNCHANGED dirs
           \/ /\ ~(d \in dirs /\ Empty(d))
              /\ Done(id)
              /\ UNCHANGED <<dirs, left, faults>>
    /\ UNCHANGED <<disk, written, client, pc, body, at, todo>>

\* The source is gone, or the upload fails.
Failing(id) ==
    /\ Known(id)
    /\ tasks[id].state = "sync"
    /\ \/ tasks[id].read = 0 /\ UNCHANGED faults
       \/ tasks[id].read # 0 /\ faults < MaxFaults /\ faults' = faults + 1

\* Mutant of Retry: the retry is not counted.
RetryForever(id) ==
    /\ Failing(id)
    /\ tasks' = [tasks EXCEPT ![id].state = "pending", ![id].read = 0]
    /\ UNCHANGED <<source, client, request>>

\* asynq retries a task that failed.
Retry(id) ==
    /\ Failing(id)
    /\ tasks[id].retried < MaxRetry
    /\ tasks' = [tasks EXCEPT ![id].state = "pending", ![id].retried = @ + 1,
                              ![id].read = 0]
    /\ UNCHANGED <<source, client, request>>

\* And archives one whose retries are used up.
Archive(id) ==
    /\ Failing(id)
    /\ tasks[id].retried = MaxRetry
    /\ tasks' = [tasks EXCEPT ![id].state = "archived"]
    /\ Kept(id)
    /\ UNCHANGED <<source, client, pc, body, at, todo>>

TaskStep(id) == \/ Take(id) \/ Sync(id) \/ Remove(id) \/ CleanUp(id)
                \/ Retry(id) \/ Archive(id)

\* asynq forgets a task: its retention ends.
Forget(id) ==
    /\ Known(id)
    /\ tasks[id].state \in {"done", "archived"}
    /\ tasks' = [i \in DOMAIN tasks \ {id} |-> tasks[i]]
    /\ UNCHANGED <<source, client, request, faults>>

-----------------------------------------------------------------------------
\* The producer writes a file, with the directories it needs.
Write(f) ==
    /\ written < MaxWrites
    /\ written' = written + 1
    /\ disk' = [disk EXCEPT ![f] = written + 1]
    /\ dirs' = dirs \cup Parents(f)
    /\ left' = left \ Parents(f)
    /\ UNCHANGED <<client, tasks, request, faults>>

Next == \/ \E r \in Requests : RequestStep(r) \/ \E b \in Bodies : Receive(r, b)
        \/ \E id \in Ids : TaskStep(id) \/ Forget(id)
        \/ \E f \in Files : Write(f)
        \/ Close

Spec == Init /\ [][Next]_vars

\* Requests that were received run on, and so do asynq's workers.
Fairness == /\ WF_vars(\E r \in Requests : RequestStep(r))
            /\ WF_vars(\E id \in Ids : TaskStep(id))

FairSpec == Spec /\ Fairness

-----------------------------------------------------------------------------
(* Properties.                                                             *)

\* Every variable has its type.
TypeOK ==
    /\ disk \in [Files -> 0 .. MaxWrites]
    /\ written \in 1 .. MaxWrites
    /\ dirs \subseteq Dirs /\ left \subseteq Dirs
    /\ client \in {"open", "closed"}
    /\ DOMAIN tasks \subseteq Ids
    /\ \A id \in DOMAIN tasks : tasks[id] \in Task
    /\ pc \in [Requests -> {"idle", "resolve", "scan", "stat", "enqueue", "ok",
                            "error"}]
    /\ body \in [Requests -> Bodies \cup {<<>>}]
    /\ at \in [Requests -> Nat \ {0}]
    /\ todo \in [Requests -> SUBSET (Files \cup Dirs)]
    /\ promise \in [Requests -> SUBSET [file : Files, target : Targets,
                                        version : 1 .. MaxWrites]]
    /\ faults \in 0 .. MaxFaults

HasTask(p) == \E id \in DOMAIN tasks : Serves(tasks[id], p)

\* A request that was answered with success has a task for every file that its
\* walks found, in the version they found or a later one, until such a task was
\* completed or archived, whatever other requests, handlers and failures did
\* meanwhile.  One case is excepted, in which the code answers with success and no
\* task brings the file (publisher.go:165-170): the item is unique, and when the
\* file was enqueued asynq knew a task of its target for another file, or one that
\* had read an older version, or an archived one.
AcceptedHasTask ==
    \A r \in Requests : pc[r] = "ok" => \A p \in promise[r] : HasTask(p)

\* What DESIGN.md:284 says of the removal, whichever handlers remove the last files
\* at the same time: an empty directory is about to be looked at, or is one whose
\* reading or removal failed (filesync.go:255-263), which nobody tries again.
NoEmptyDirs ==
    \A d \in dirs : Empty(d) =>
        \/ \E id \in DOMAIN tasks : tasks[id].state = "clean" /\ tasks[id].dir = d
        \/ d \in left

\* However requests and failures meet, there comes a time when every request that
\* was received is answered and all that was promised is done, or given up in the
\* archive.  What Conflict voids is promised no more (see AcceptedHasTask).
PublishingEnds ==
    []<>(\A r \in Requests : pc[r] \in {"idle", "ok", "error"} /\ promise[r] = {})
=============================================================================
