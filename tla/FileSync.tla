------------------------------- MODULE FileSync -------------------------------
(***************************************************************************)
(* File sync tasks: the handler HandleSingleFile of pkg/handler/filesync.go *)
(* run by the asynq workers of the daemon, from the queue to the storage,  *)
(* the existence cache, the source file and the SSH debouncer.             *)
(*                                                                         *)
(* asynq is external.  It hands a task to a worker, retries it when the    *)
(* handler returns an error or the task's deadline passes, archives it     *)
(* after MaxRetry retries, and gives the tasks of a dead daemon back.  A   *)
(* handler whose deadline passed is not stopped: its context is done, but  *)
(* its goroutine goes on, now next to the retry of the same task; such a   *)
(* run is not live, and asynq ignores what it returns.                     *)
(*                                                                         *)
(* A daemon that shuts down gives its running tasks back as they were.     *)
(*                                                                         *)
(* Contents are compared by size only (SizeOf), which is what the code     *)
(* does.  Directories are in module Publisher.  A source is replaced as a  *)
(* whole (Rewrite), and an upload sends the file it opened, even if that is *)
(* replaced or removed meanwhile.                                          *)
(***************************************************************************)
EXTENDS Naturals, FiniteSets

CONSTANTS
    Tasks,          \* enqueued file sync tasks
    Runs,           \* goroutines that run the handler
    Files,          \* source files
    Keys,           \* target paths
    Contents,       \* contents of files and objects
    SizeOf,         \* their sizes
    Jobs,           \* the payloads a task may have
    Backend,        \* storage.type, "s3" or "sftp"
    Gone,           \* the source file does not exist
    Absent,         \* there is no such object
    MaxRetry,       \* publish.max_retry, the retries asynq grants
    RetryCount,     \* storage.s3.file_upload_retry_count
    MaxFaults,      \* bound on failures and shutdowns
    MaxRewrites     \* bound on changes of the sources

ASSUME FileSyncAssumption ==
    /\ Tasks # {}
    /\ Backend \in {"s3", "sftp"}
    /\ SizeOf \in [Contents -> Nat]
    /\ Jobs \subseteq [file : Files, key : Keys, delete : BOOLEAN,
                       overwrite : BOOLEAN]
    /\ Gone \notin Contents /\ Absent \notin Contents
    /\ MaxRetry \in Nat /\ RetryCount \in Nat
    /\ MaxFaults \in Nat /\ MaxRewrites \in Nat

VARIABLES
    job,        \* FileSyncSinglePayload of each task
    queue,      \* asynq's state of each task
    retried,    \* how often asynq retried it
    local,      \* the source files
    remote,     \* the storage backend
    cache,      \* sizes announced to the existence cache, Absent if none
    pc,         \* where each run is
    task,       \* the task of each run
    live,       \* whether asynq still waits for the run
    attempt,    \* uploadFile's loop counter
    held,       \* the content whose size the run compares, or that it uploads,
                \* Gone when it does neither
    owed,       \* ghost: tasks that uploaded and have not called TriggerSSH since
    delivered,  \* ghost: how often each task was handed to a run
    delivery,   \* ghost: which of these handed it to the run
    puts,       \* ghost: uploads started in each delivery of each task
    source,     \* ghost: the last content of each source, removed or not
    stale,      \* ghost: runs whose source was rewritten since they read it
    unread,     \* ghost: sources that a stale run removed
    outdated,   \* ghost: targets that a stale run wrote last
    misled,     \* ghost: targets announced by a stale run, or not announced anew
    shutdowns,  \* ghost: how often the daemon was shut down
    rewrites,   \* number of changes of each source (bounded)
    faults      \* number of failures so far (bounded)

tasks  == <<job, queue, retried>>
world  == <<local, remote, cache, owed>>
run    == <<pc, task, live, attempt, held, delivery, stale>>
counts == <<delivered, puts, shutdowns>>
marks  == <<unread, outdated, misled>>
ghosts == <<counts, source, rewrites>>
vars   == <<tasks, world, run, ghosts, marks, faults>>

\* Deliveries of a task are numbered; no more of them can happen.
Deliveries == 1 .. MaxRetry + MaxFaults + 1

RunPCs == {"idle", "stat", "head", "open", "put", "backoff", "announce",
           "delete", "trigger", "return"}

\* Where a run relies on what it read of its source.
Relying == {"head", "put", "announce", "delete"}

-----------------------------------------------------------------------------
Init == /\ job \in [Tasks -> Jobs]
        /\ queue = [t \in Tasks |-> "ready"]
        /\ retried = [t \in Tasks |-> 0]
        /\ local \in [Files -> Contents]
        /\ remote \in [Keys -> Contents \cup {Absent}]
        /\ cache = [k \in Keys |-> Absent]
        /\ pc = [r \in Runs |-> "idle"]
        /\ task = [r \in Runs |-> CHOOSE t \in Tasks : TRUE]
        /\ delivered = [t \in Tasks |-> 0]
        /\ delivery = [r \in Runs |-> 0]
        /\ live = [r \in Runs |-> FALSE]
        /\ attempt = [r \in Runs |-> 0]
        /\ held = [r \in Runs |-> Gone]
        /\ owed = {}
        /\ puts = [t \in Tasks |-> [n \in Deliveries |-> 0]]
        /\ shutdowns = 0
        /\ source = local
        /\ stale = {} /\ unread = {} /\ outdated = {} /\ misled = {}
        /\ rewrites = [f \in Files |-> 0]
        /\ faults = 0

Job(r)  == job[task[r]]
File(r) == Job(r).file
Key(r)  == Job(r).key

Goto(r, label) == pc' = [pc EXCEPT ![r] = label]

\* A failure, from the budget of the model; that of a call whose context is
\* done costs nothing.
Trouble(r) == \/ live[r] /\ faults < MaxFaults /\ faults' = faults + 1
              \/ ~live[r] /\ UNCHANGED faults

\* An upload that fails again in the same loop costs nothing either: S3 is down.
PutTrouble(r) == \/ attempt[r] = 0 /\ Trouble(r)
                 \/ attempt[r] # 0 /\ UNCHANGED faults

\* asynq's answer to an error, a passed deadline or a dead worker.
Retry(T) ==
    /\ queue' = [t \in Tasks |->
                    IF t \notin T THEN queue[t]
                    ELSE IF retried[t] < MaxRetry THEN "ready" ELSE "archived"]
    /\ retried' = [t \in Tasks |->
                    IF t \in T /\ retried[t] < MaxRetry THEN retried[t] + 1
                    ELSE retried[t]]

\* The goroutine ends.
End(r) == /\ Goto(r, "idle")
          /\ live' = [live EXCEPT ![r] = FALSE]
          /\ attempt' = [attempt EXCEPT ![r] = 0]
          /\ held' = [held EXCEPT ![r] = Gone]
          /\ delivery' = [delivery EXCEPT ![r] = 0]
          /\ stale' = stale \ {r}
          /\ UNCHANGED <<job, task>>

\* So do all of them, with the daemon.
EndAll == /\ pc' = [r \in Runs |-> "idle"]
          /\ live' = [r \in Runs |-> FALSE]
          /\ attempt' = [r \in Runs |-> 0]
          /\ held' = [r \in Runs |-> Gone]
          /\ delivery' = [r \in Runs |-> 0]
          /\ stale' = {}
          /\ UNCHANGED <<job, task>>

\* The handler returns an error.
GiveUp(r) ==
    /\ End(r)
    /\ Retry(IF live[r] THEN {task[r]} ELSE {})

\* The handler goes on.
Move(r, label) == /\ Goto(r, label)
                  /\ stale' = IF label \in Relying THEN stale ELSE stale \ {r}
                  /\ UNCHANGED <<tasks, task, live, delivery>>

\* And needs no more what it read.
GoOn(r, label) == /\ Move(r, label)
                  /\ held' = [held EXCEPT ![r] = Gone]
                  /\ UNCHANGED attempt

-----------------------------------------------------------------------------
(* asynq starts the handler.                                               *)

Take(r, t) ==
    /\ pc[r] = "idle"
    /\ queue[t] = "ready"
    /\ queue' = [queue EXCEPT ![t] = "active"]
    /\ task' = [task EXCEPT ![r] = t]
    /\ live' = [live EXCEPT ![r] = TRUE]
    /\ UNCHANGED <<attempt, held, stale>>
    /\ Goto(r, IF job[t].overwrite THEN "open" ELSE "stat")
    /\ delivered' = [delivered EXCEPT ![t] = @ + 1]
    /\ delivery' = [delivery EXCEPT ![r] = delivered[t] + 1]
    /\ UNCHANGED <<job, retried, world, puts, shutdowns, source, rewrites,
                   marks, faults>>

\* The deadline passes: the task is retried, the goroutine goes on.
Expire(r) ==
    /\ pc[r] # "idle"
    /\ live[r]
    /\ Trouble(r)
    /\ live' = [live EXCEPT ![r] = FALSE]
    /\ Retry({task[r]})
    /\ UNCHANGED <<job, world, pc, task, attempt, held, delivery, stale, ghosts,
                   marks>>

-----------------------------------------------------------------------------
(* shouldUploadFile: without overwrite, os.Stat and then the storage.      *)

\* Mutant of Stat: the handler waits for a missing source to appear.
StatWaits(r) ==
    /\ pc[r] = "stat"
    /\ local[File(r)] # Gone
    /\ held' = [held EXCEPT ![r] = local[File(r)]]
    /\ Move(r, "head")
    /\ UNCHANGED <<world, attempt, ghosts, marks, faults>>

Stat(r) ==
    /\ pc[r] = "stat"
    /\ \/ /\ local[File(r)] # Gone
          /\ held' = [held EXCEPT ![r] = local[File(r)]]
          /\ UNCHANGED attempt
          /\ Move(r, "head")
       \/ local[File(r)] = Gone /\ GiveUp(r)
    /\ UNCHANGED <<world, ghosts, marks, faults>>

\* Mutant of SameSize: any object is taken for the source.
AnyObject(r) == remote[Key(r)] # Absent

\* An object of the size of the source is taken for the source.
SameSize(r) == /\ remote[Key(r)] # Absent
               /\ SizeOf[remote[Key(r)]] = SizeOf[held[r]]

Head(r) ==
    /\ pc[r] = "head"
    /\ GoOn(r, IF SameSize(r) THEN "delete" ELSE "open")
    /\ UNCHANGED <<world, ghosts, marks, faults>>

\* Mutant of HeadFails: a failed check is taken for an object that is there.
HeadFailsSkips(r) ==
    /\ pc[r] = "head"
    /\ Trouble(r)
    /\ GoOn(r, "delete")
    /\ UNCHANGED <<world, ghosts, marks>>

HeadFails(r) ==
    /\ pc[r] = "head"
    /\ Trouble(r)
    /\ GiveUp(r)
    /\ UNCHANGED <<world, ghosts, marks>>

-----------------------------------------------------------------------------
(* uploadFile, uploadFileOnce.                                             *)

\* os.Open; its failure is not retryable.
Open(r) ==
    /\ pc[r] = "open"
    /\ \/ /\ local[File(r)] # Gone
          /\ held' = [held EXCEPT ![r] = local[File(r)]]
          /\ puts' = [puts EXCEPT ![task[r]][delivery[r]] = @ + 1]
          /\ UNCHANGED attempt
          /\ Move(r, "put")
       \/ local[File(r)] = Gone /\ GiveUp(r) /\ UNCHANGED puts
    /\ UNCHANGED <<world, delivered, shutdowns, source, rewrites, marks, faults>>

Stores(r) ==
    /\ remote' = [remote EXCEPT ![Key(r)] = held[r]]
    /\ outdated' = IF r \in stale THEN outdated \cup {Key(r)}
                   ELSE outdated \ {Key(r)}

\* What these runs stored is not announced, beside an older announcement.
Unannounced(R) ==
    misled' = misled \cup {k \in Keys : /\ cache[k] # Absent
                                       /\ \E r \in R : Key(r) = k}

Put(r) ==
    /\ pc[r] = "put"
    /\ Stores(r)
    /\ owed' = owed \cup {task[r]}
    /\ GoOn(r, "announce")
    /\ UNCHANGED <<local, cache, ghosts, unread, misled, faults>>

\* The errors of an upload: convertS3Error's types, and one without a type.
Errors == IF Backend = "s3"
            THEN {"not_found", "access_denied", "network_error", "internal_error"}
            ELSE {"untyped"}

IsRetryableError(e) == e \in {"network_error", "internal_error"}

\* The server refused the object; after any other error it may have stored it.
Refused(e) == e \in {"not_found", "access_denied"}

\* Mutant of PutFails: the loop makes one attempt too many.
PutFailsOnceMore(r) ==
    /\ pc[r] = "put"
    /\ PutTrouble(r)
    /\ UNCHANGED <<remote, outdated, misled>>
    /\ \/ /\ attempt[r] <= RetryCount
          /\ attempt' = [attempt EXCEPT ![r] = @ + 1]
          /\ held' = [held EXCEPT ![r] = Gone]
          /\ Move(r, "backoff")
       \/ GiveUp(r)
    /\ UNCHANGED <<local, cache, owed, ghosts, unread>>

\* The upload fails, with or without having stored the object.  A retryable
\* error is retried after a delay while attempts remain.
PutFails(r) ==
    /\ pc[r] = "put"
    /\ PutTrouble(r)
    /\ \E e \in Errors :
          /\ \/ ~Refused(e) /\ Stores(r) /\ Unannounced({r})
             \/ UNCHANGED <<remote, outdated, misled>>
          /\ \/ /\ IsRetryableError(e)
                /\ attempt[r] < RetryCount
                /\ attempt' = [attempt EXCEPT ![r] = @ + 1]
                /\ held' = [held EXCEPT ![r] = Gone]
                /\ Move(r, "backoff")
             \/ /\ ~IsRetryableError(e) \/ attempt[r] = RetryCount
                /\ GiveUp(r)
    /\ UNCHANGED <<local, cache, owed, ghosts, unread>>

\* The delay ends, or the context does.
Backoff(r) ==
    /\ pc[r] = "backoff"
    /\ \/ live[r] /\ GoOn(r, "open")
       \/ ~live[r] /\ GiveUp(r)
    /\ UNCHANGED <<world, ghosts, marks, faults>>

\* Mutant of Announce: an entry that is there is not written again.
AnnounceOnce(r) ==
    /\ pc[r] = "announce"
    /\ cache' = IF cache[Key(r)] # Absent \/ local[File(r)] = Gone THEN cache
                ELSE [cache EXCEPT ![Key(r)] = SizeOf[local[File(r)]]]
    /\ misled' = IF r \in stale THEN misled \cup {Key(r)} ELSE misled \ {Key(r)}
    /\ GoOn(r, "delete")
    /\ UNCHANGED <<local, remote, owed, ghosts, unread, outdated, faults>>

\* The size announced is that of the source now; errors are only logged.
Announce(r) ==
    /\ pc[r] = "announce"
    /\ \/ /\ local[File(r)] # Gone
          /\ cache' = [cache EXCEPT ![Key(r)] = SizeOf[local[File(r)]]]
          /\ misled' = IF r \in stale THEN misled \cup {Key(r)} ELSE misled \ {Key(r)}
       \/ /\ local[File(r)] = Gone
          /\ UNCHANGED cache
          /\ Unannounced({r})
    /\ GoOn(r, "delete")
    /\ UNCHANGED <<local, remote, owed, ghosts, unread, outdated, faults>>

AnnounceFails(r) ==
    /\ pc[r] = "announce"
    /\ Trouble(r)
    /\ Unannounced({r})
    /\ GoOn(r, "delete")
    /\ UNCHANGED <<world, ghosts, unread, outdated>>

-----------------------------------------------------------------------------
(* After an upload, and after a skip as well.                              *)

Delete(r) ==
    /\ pc[r] = "delete"
    /\ local' = IF Job(r).delete THEN [local EXCEPT ![File(r)] = Gone]
                ELSE local
    /\ unread' = IF r \in stale /\ local' # local THEN unread \cup {File(r)}
                 ELSE unread
    /\ GoOn(r, "trigger")
    /\ UNCHANGED <<remote, cache, owed, ghosts, outdated, misled, faults>>

\* A failed os.Remove is only logged.
DeleteFails(r) ==
    /\ pc[r] = "delete"
    /\ Job(r).delete
    /\ Trouble(r)
    /\ GoOn(r, "trigger")
    /\ UNCHANGED <<world, ghosts, marks>>

Trigger(r) ==
    /\ pc[r] = "trigger"
    /\ owed' = owed \ {task[r]}
    /\ GoOn(r, "return")
    /\ UNCHANGED <<local, remote, cache, ghosts, marks, faults>>

\* A failed TriggerSSH is only logged.
TriggerFails(r) ==
    /\ pc[r] = "trigger"
    /\ Trouble(r)
    /\ GoOn(r, "return")
    /\ UNCHANGED <<world, ghosts, marks>>

Return(r) ==
    /\ pc[r] = "return"
    /\ End(r)
    /\ queue' = IF live[r] THEN [queue EXCEPT ![task[r]] = "done"] ELSE queue
    /\ UNCHANGED <<retried, world, ghosts, marks, faults>>

-----------------------------------------------------------------------------
\* The producer replaces a source, or writes it again.
Rewrite(f, c) ==
    /\ c # local[f]
    /\ rewrites[f] < MaxRewrites
    /\ rewrites' = [rewrites EXCEPT ![f] = @ + 1]
    /\ local' = [local EXCEPT ![f] = c]
    /\ source' = [source EXCEPT ![f] = c]
    /\ stale' = stale \cup {r \in Runs : pc[r] \in Relying /\ File(r) = f}
    /\ unread' = unread \ {f}
    /\ UNCHANGED <<tasks, remote, cache, owed, pc, task, live, attempt, held,
                   delivery, counts, outdated, misled, faults>>

\* The daemon dies: the leases of its tasks end, which counts as a retry.
Crash ==
    /\ faults < MaxFaults
    /\ faults' = faults + 1
    /\ EndAll
    /\ Retry({t \in Tasks : queue[t] = "active"})
    /\ Unannounced({r \in Runs : pc[r] = "announce"})
    /\ UNCHANGED <<world, ghosts, unread, outdated>>

\* The daemon shuts down and is started again: asynq waits for its handlers, and
\* puts the tasks of those that do not end back into the queue.
Shutdown ==
    /\ faults < MaxFaults
    /\ faults' = faults + 1
    /\ shutdowns' = shutdowns + 1
    /\ EndAll
    /\ queue' = [t \in Tasks |-> IF queue[t] = "active" THEN "ready" ELSE queue[t]]
    /\ Unannounced({r \in Runs : pc[r] = "announce"})
    /\ UNCHANGED <<retried, world, delivered, puts, source, rewrites, unread,
                   outdated>>

RunStep(r) == \/ \E t \in Tasks : Take(r, t)
              \/ Stat(r) \/ Head(r) \/ HeadFails(r)
              \/ Open(r) \/ Put(r) \/ PutFails(r) \/ Backoff(r)
              \/ Announce(r) \/ AnnounceFails(r)
              \/ Delete(r) \/ DeleteFails(r)
              \/ Trigger(r) \/ TriggerFails(r) \/ Return(r)

Next == \/ \E r \in Runs : RunStep(r) \/ Expire(r)
        \/ \E f \in Files, c \in Contents : Rewrite(f, c)
        \/ Crash \/ Shutdown

Spec == Init /\ [][Next]_vars

\* The goroutines run, and an idle worker takes a task that is ready.
Fairness == \A r \in Runs : WF_vars(RunStep(r))

FairSpec == Spec /\ Fairness

-----------------------------------------------------------------------------
(* Properties.                                                             *)

\* uploadFile's loop ends with this counter; no SFTP error is retryable.
LastAttempt == IF Backend = "s3" THEN RetryCount ELSE 0

\* Every variable has its type, and the loops and retries end where they should.
TypeOK == /\ job \in [Tasks -> Jobs]
          /\ queue \in [Tasks -> {"ready", "active", "done", "archived"}]
          /\ retried \in [Tasks -> 0 .. MaxRetry]
          /\ local \in [Files -> Contents \cup {Gone}]
          /\ remote \in [Keys -> Contents \cup {Absent}]
          /\ cache \in [Keys -> Nat \cup {Absent}]
          /\ pc \in [Runs -> RunPCs]
          /\ task \in [Runs -> Tasks]
          /\ live \in [Runs -> BOOLEAN]
          /\ attempt \in [Runs -> 0 .. LastAttempt]
          /\ held \in [Runs -> Contents \cup {Gone}]
          /\ owed \subseteq Tasks
          /\ delivered \in [Tasks -> Nat]
          /\ delivery \in [Runs -> Nat]
          /\ puts \in [Tasks -> [Deliveries -> Nat]]
          /\ source \in [Files -> Contents]
          /\ stale \subseteq Runs /\ unread \subseteq Files
          /\ outdated \subseteq Keys /\ misled \subseteq Keys
          /\ rewrites \in [Files -> 0 .. MaxRewrites]
          /\ faults \in 0 .. MaxFaults
          /\ shutdowns \in 0 .. faults

\* Nothing but this task's source writes its target.
Alone(t) == \A u \in Tasks : job[u].key = job[t].key => job[u].file = job[t].file

\* And its source never changed.
Apart(t) == Alone(t) /\ rewrites[job[t].file] = 0

\* The target holds an object of the size of the source.
Stored(t) == /\ remote[job[t].key] # Absent
             /\ SizeOf[remote[job[t].key]] = SizeOf[source[job[t].file]]

\* A task asynq reports completed has its source in the storage, whatever was
\* retried, crashed or ran twice.  It says nothing of a source that was ever
\* rewritten, nor of a target that is written from another source as well: there
\* the last upload wins, which need not be that of the task.
DoneIsStored == \A t \in Tasks : queue[t] = "done" /\ Apart(t) => Stored(t)

\* A source is removed only when an object of its size, in its last version, is
\* stored for a task that asked for the removal, on a target of that source alone.
\* There are two ways to lose a version, both between a run's reading its source
\* and acting on what it read (filesync.go:209-246): the run removes a version
\* that replaced the one it read, or it uploads the one it read over a version
\* that another run has stored since, and no later run stores that again.
NothingLost ==
    \A f \in Files : local[f] = Gone =>
        \E t \in Tasks :
            /\ job[t].file = f /\ job[t].delete
            /\ Alone(t) /\ f \notin unread /\ job[t].key \notin outdated => Stored(t)

\* With no run about to announce it, and no other source written to the target,
\* the size announced to the existence cache is that of the object, rewritten
\* source or not, except where the code says something else than DESIGN.md:301
\* ("After successful upload, cache updated with file size"): the size is that of
\* an os.Stat after the upload (filesync.go:231-234), so a run whose source was
\* rewritten in between announces a size it did not store; what a run stored
\* stays unannounced when os.Stat or the SET fails, the upload returns an error,
\* or the daemon ends; and a run may upload an older version over one that was
\* announced.  The next upload of a run that no rewrite overtakes ends them all.
AnnouncedIsStored ==
    \A t \in Tasks :
        LET k == job[t].key
        IN  cache[k] # Absent /\ Alone(t) /\ k \notin misled \cup outdated
               => \/ \E r \in Runs : pc[r] = "announce" /\ Key(r) = k
                  \/ remote[k] # Absent /\ cache[k] = SizeOf[remote[k]]

\* The retries of asynq and those of uploadFile multiply, and no more, with runs
\* that outlived their deadline beside those that replaced them: a task is
\* handed out once for each retry and each shutdown, and once more, and each
\* time it is uploaded once, or with S3 once more for each retry of the loop.
UploadsBounded ==
    \A t \in Tasks :
        /\ delivered[t] <= retried[t] + shutdowns + 1
        /\ \A n \in Deliveries :
              puts[t][n] <= IF n <= delivered[t] THEN LastAttempt + 1 ELSE 0

\* Every task ends, completed or archived.
TasksSettle == \A t \in Tasks : <>(queue[t] \in {"done", "archived"})

\* What README.md says of the command ("Automatic SSH command execution after
\* each successful file upload"): a task whose file was uploaded has asked for
\* the command before asynq drops the task.  The code does not keep it, see the
\* runs.
UploadedIsTriggered ==
    \A t \in Tasks : queue[t] = "archived" => t \notin owed
=============================================================================
