# sync4loong in TLA+

sync4loong is a daemon that copies files to an object store (S3) or an SFTP
server.  A client posts paths to its HTTP API; the publisher turns every file
into a task of a Redis queue (asynq); workers of the daemon upload the files,
optionally remove them, refresh a cache of what is stored, and ask for an SSH
command that is debounced over many uploads.  Almost everything that can go
wrong lies between these parts: several goroutines, Redis calls that are read
and written back in two steps, tasks that are delivered again, handlers that
outlive their deadline, and crashes between two effects.

This directory holds the models of those parts, the configurations that check
them with TLC, and proofs checked by TLAPS.

## Inventory

| part | state | operations | talks to |
|---|---|---|---|
| file existence cache (`pkg/cache`) | Redis entries without expiry; a lock per path (`sync.Map`); a semaphore for storage checks | `CheckFileExists`, `SetFileExists`, `ClearCache` (one path, everything) | storage backend, Redis; called by the HTTP API and the file sync handler |
| SSH debouncer (`pkg/ssh`) and SSH handler (`pkg/handler/ssh.go`) | one Redis record: time of the last request, pending flag, life of two periods; delayed asynq tasks | `TriggerSSH`, `ShouldExecuteSSH`, `MarkTaskCompleted`, `ProcessTask` | Redis, asynq; called by the file sync handler and by asynq |
| file sync handler (`pkg/handler/filesync.go`) | nothing of its own: the source file, the target object, the task | `HandleSingleFile`: compare, upload with retries, announce, remove, trigger | storage backend, cache, debouncer, local disk; called by asynq |
| S3 backend (`pkg/storage/s3backend.go`) | none | `CheckFileExists`, `UploadFile` (one PUT) | S3 |
| SFTP backend (`pkg/storage/sftpbackend.go`) | striped locks; temporary files on the server | `CheckFileExists`, `UploadFile` (hash, resume, rename) | connection manager, SFTP server |
| SFTP connection manager (`pkg/storage/sftp_manager.go`) | current connection, one monitor goroutine per connection | `GetConnection`, `NewClient`, `handleReconnects`, `Close` | SFTP server |
| publisher (`pkg/publisher`) | an asynq client, open or closed | `PublishFileSyncTaskAsFiles`: scan, map target paths, enqueue one by one; `Close` | local disk, asynq |
| HTTP API (`pkg/http`) | none | publish, check, clear-cache | publisher, cache |
| daemon (`internal/daemon`, `cmd/daemon`) | the HTTP server, the asynq server | `main`, `Start`, `Shutdown` | all of the above; signals, systemd |
| configuration, factory, logging | read once, or none | | |

### How the parts interact

One upload crosses all of them.  `POST /publish` makes the publisher enqueue
one asynq task per file.  An asynq worker runs `HandleSingleFile`: it asks the
backend whether the target has the size of the source, uploads if it does not,
announces the new size to the cache, removes the source if asked to, and calls
`TriggerSSH`.  The debouncer saves a record in Redis and enqueues at most one
delayed task; when that is delivered the SSH handler runs the command, or
enqueues the task anew if there were uploads meanwhile.  `GET /check` asks the
cache, which asks the backend on a miss; with SFTP both go through the one
connection of the manager.  Shared state: Redis (cache entries, debounce
record, queues), the storage, the source files, and inside the process the
cache's locks and semaphore, the stripes of the SFTP backend and the SFTP
connection.  systemd restarts a daemon that dies (`src/module.nix:89`).

### What is hard about it

- *Check then act over Redis*: the cache stores an answer that may be outdated,
  the debouncer writes back a record another handler has changed.
- *Locks with several holders' code on them*: the cache's deferred `Delete` is
  also run by a waiter that never held the lock; `GetConnection` unlocks before
  `NewClient` locks again.
- *At-least-once tasks*: asynq retries failed tasks, gives back those of a dead
  daemon, and a handler whose deadline passed goes on beside its retry.
- *Effects without an acknowledgement*: an upload, a rename or a Redis write
  that happened although it reported an error.
- *Crashes between two effects*, with state on both sides of the crash: Redis
  entries, temporary files on the server, removed sources.
- *A disk under the publisher's feet*: a request walks a directory from which
  handlers of earlier requests remove files and directories.
- *Two hands on the switch*: asynq handles the daemon's signals as well, gives the
  tasks of slow handlers back, and lets those handlers run on.

### What makes each part correct

| part | correct means |
|---|---|
| cache | permits and locks are never lost or doubled; the queries of undisturbed checks of one path do not overlap; an entry is stale only after a race that can be named; every check returns |
| SSH | a trigger is followed by a command; the command waits for quiet; a flag without a task does not last |
| file sync | done means stored, removed means stored, announced means stored, but for the named ways in which a source that is rewritten under a run is lost or misreported; retries are bounded; every task ends |
| SFTP upload | an upload is an atomic put whose success is honest; what is left behind can be resumed; every call returns |
| publisher | an answer "ok" means that every file found has a task until that is completed or given up, but for unique items that meet a task that does not bring the file; an empty directory is left behind only if its removal failed; every request is answered |
| daemon | a signal ends the process; what was accepted survives shutdowns and crashes; no task gets a second handler during a shutdown |
| SFTP manager | at most one open connection, always watched; no link left behind; lost links recover |

## Modules

| module | models | uses |
|---|---|---|
| `LookasideCache` | abstract: what the cache promises about its entries | |
| `ExistenceCache` | `pkg/cache/cache.go` and the announcing part of `uploadFileOnce` | instantiates `LookasideCache` |
| `SshDebounce` | `pkg/ssh/debouncer.go`, `pkg/handler/ssh.go` | |
| `FileSync` | `pkg/handler/filesync.go` under asynq, with the S3 upload and its errors | |
| `Publisher` | `PublishHandler` of `pkg/http/handler.go`, `pkg/publisher/publisher.go`, `deleteFile` and `cleanupEmptyDirectories` of `pkg/handler/filesync.go` | |
| `Daemon` | `internal/daemon/daemon.go`, `cmd/daemon/main.go` | extends `Publisher`, whose steps it guards by the state of the process |
| `AtomicStore` | abstract: what an upload promises | |
| `SftpUpload` | `UploadFile` of `pkg/storage/sftpbackend.go` | instantiates `AtomicStore` |
| `SftpManager` | `pkg/storage/sftp_manager.go` | |
| `MC*` | constants for TLC | extend the module |
| `*Proofs` | theorems | extend the module |

Every Redis or server call is an action of its own, and so is every step
between which another goroutine may run; what runs under a mutex without a call
is one action.  Failures, lost replies and crashes are actions, bounded by
`MaxFaults` or `MaxDisturbances`.  Ghost variables are named as such; no guard of
the code's actions reads one.  Operators whose comment starts with "Mutant of"
are wrong versions of an action, kept beside it to show that a property would
notice; nothing else uses them.

**ExistenceCache.**  `cache` is Redis, `locks` the `sync.Map`, `permits` the
semaphore, `storage` the backend.  A check runs through Begin, Lookup, Claim or
Spin, Relookup, Acquire, Query, Store, Release, Unlock, in the order of
`CheckFileExists` (lines 53-127); the last two are its deferred calls.  An upload
is StartUpload, Put (PutLost: stored but reported failed), SetFileExists; a
clear is one DEL for a path, and ListKeys then DelKeys for everything.  `raced`
collects the keys that went through one of the races that make an entry stale:
a write that overtook an answer, overlapping uploads, a lost announcement, a
crash before it, a source rewritten before the `os.Stat` whose size is announced; a
clear or a later announcement takes a key out.  `Keys` are the paths that pass
`validateTargetPath`.

`DESIGN.md` says that the lock of a path prevents duplicate requests (lines 293 and
419).  The code keeps that only in part, and `SingleFlight` states the part it
keeps: queries do not overlap, and a check that had to wait finds the entry.  A
check that missed in Redis before the entry was written, and comes to the lock after
the first has stored and unlocked, takes it without looking again
(`cache.go:59`, `71`, `93`) and queries a second time; the model has that behaviour,
and no property forbids it.

**LookasideCache.**  The same without locks, permits and waiting: a call looks at
the object once, or puts it once, records at most one entry, of its own path and
with what it saw or put, and ends; entries may be forgotten.  One kind of entry is
told apart, in `odd`: the size announced after an upload is that of an `os.Stat` made
then (`filesync.go:231-234`), so an upload whose source was rewritten in between
records a size that the object may never have had, which `DESIGN.md:301` does not
know of.  `ExistenceCache` implements it, `resized` and `odd` included: `active` maps to the calls that have not come to their deferred
calls, `held` to the answer of a check on its way to Redis and the size an upload
is going to announce.  So whatever the lock of a path allows (a waiter that goes on
without it, a `Delete` of somebody else's), it decides how many queries are made and
nothing about what an entry may say; entries may be stale, in the ways `raced`
names, but none that is not odd is made up, and an error leaves none behind.

**SshDebounce.**  `age`, `pending` and `ttl` are the record, `waiting` the
delayed asynq tasks by remaining delay, `pc`, `lag` and `seen` the locals of the
handlers.  TriggerSSH is Trigger, GetState, Save, Enqueue; ProcessTask is Take,
Decide, Reschedule or Start, Succeed or CommandFails, MarkGet, MarkSet.  Tick
is time; ages above the period are not told apart, which is all the code's
comparison can see, so time needs no bound.  A disabled or empty command
(`debouncer.go:43`) is a precondition.  `owed` and `covered` say which triggers
still wait for a command; `orphaned` and `clobbered` name the two races that are
allowed to break the flag and the time.

**FileSync.**  `queue` and `retried` are asynq's view of each task, `local`,
`remote` and `cache` the world, `pc`, `attempt` and `held` the
goroutines.  Take, Stat, Head, Open, Put, Backoff, Announce, Delete, Trigger,
Return follow `HandleSingleFile`.  Expire passes the deadline and lets the
goroutine go on, Retry is asynq's answer to an error, Crash and Shutdown end the
daemon (a shutdown gives tasks back without counting a retry), Rewrite is the
producer of the sources.  `Backend` decides which errors an upload ends with: those
of `convertS3Error`, of which the network and internal ones are retried by
`uploadFile`, or one of SFTP, which is of no type and never retried.  An error
that is not a refusal may have stored the object.  Contents are compared by size,
as the code does.  Ghosts: `delivered`, `delivery`, `puts` and `shutdowns` count
what `UploadsBounded` bounds; `owed` holds the tasks that uploaded and have not
called `TriggerSSH` since; `source` is the last content of a file; `stale` holds the
runs whose source was rewritten since they read it, for as long as they rely on that.

Where a source is rewritten, the code does less than one would wish, and the
properties say exactly how much.  A version can be lost in two ways, both by a stale
run: it removes a version that it did not read (`unread`), or it uploads what it read
over a newer version that another run has stored and removed meanwhile (`outdated`,
until a run that is not stale writes the target).  `NothingLost` says that there is
no third.  The size announced can differ from the object's because a stale run
announced, because what a run stored was not announced (`os.Stat` or the SET failed,
the upload returned an error, the daemon ended; all in `misled`), or because a stale
run uploaded over an announced version (`outdated`); `AnnouncedIsStored` says that
nothing else makes it differ, and that the next upload by a run that is not stale
ends all of these.  `DoneIsStored` is limited to sources that were never rewritten and
alone have their target: of two versions, or two sources, the last upload wins.

**Publisher.**  `disk` and `dirs` are the local disk (a version per file, and the
directories), `client` the publisher's asynq client, `tasks` what asynq knows by
identifier, `pc`, `body`, `at` and `todo` the requests.  A request is Receive,
then for each item Resolve, Scan and Inspect (the two halves of `filepath.Walk`: the
names of files and directories, then a look at each, which fails the walk if one is
gone; the code looks at one after the other, the model at all of them at once), or
WalkFails, then Enqueue, Conflict or EnqueueFails for each file.  `todo` holds the
names between Scan and Inspect, and the files still to be enqueued after it.  An
identifier is taken as long as asynq keeps the task; Forget is the end of that.  A
task is Take, then Sync, or Remove and a CleanUp for each directory, or Retry or
Archive.  What `FileSync` has in detail between reading a source and removing it is
one step here.  CleanUp fails if `os.ReadDir` or `os.Remove` does
(`filesync.go:255-263`): the cleanup stops, and the ghost `left` holds the empty
directory until it is filled again.

`promise` is a ghost: the versions that the walks of a request saw, until a task that
read that version or a later one is completed, or one is archived.  A promise is void
when the request fails.  It is also void in a case that is the code's behaviour and
the named exception of `AcceptedHasTask`: the item is unique, and asynq knows a task
of its target that is for another file, has read an older version, or is archived.
The code then answers with success and nothing brings the file
(`publisher.go:165-170`, Conflict).  A conflict with a task that does bring the file
keeps the promise, and that task has to keep it.  Names are relative to a root above
every source, symbolic links are resolved already.

**Daemon.**  `main` is where `main` and `DaemonService.Shutdown` are, `server` the
asynq server: `started` before it listens for signals, `ready`, `told` by a
signal, in `Server.Shutdown` called by itself (`own`) or by the daemon, `closed`.
StopServer is the daemon's call, which returns at once unless the server is
serving; Drained and Abort are the two ends of asynq's wait; Exit is the `select`,
Expire its deadline.  Tasks of a process that is gone are `dead` until Recover;
handlers whose tasks were given back are `loose` and go on removing, their cleanup
included, or failing at it, until the process ends.  That end puts the directories
whose cleanup it cut short into `left` as well (`filesync.go:250`).  asynq's
shutdown is modelled from the version in `src/go.mod`, as `Start` and `Shutdown`
use it.  Publisher's steps run under the guards Accept, Serve and Work.

**AtomicStore, SftpUpload.**  The abstract store changes an object in one step to
a content its source had during the call, answers success only after that, and
may answer an error in either case.  The detailed one has the striped lock, the
measured size, the hash, the temporary file by target and hash, resume, the copy
block by block, and the rename; the mapping takes `final` for the store and
derives the phase of a call from `pc` and `outcome`.  The promise is limited where
the code's is: the source is measured, hashed and opened one after the other
(`sftpbackend.go:123-148`), so when it is replaced in between, the temporary file
named after one content may receive another.  The ghost `doubt` holds such
temporary files from the step that mixes (a size that is not that of the content
hashed, in Check; another content opened, in Open) until they are begun anew or
renamed, `broken` the targets they were renamed over, until the next rename that
is not in doubt.  A later, undisturbed upload of the same content resumes a file in
doubt and answers success: the run reaches that, and the refinement says that
nothing else breaks a target.  A target has one spelling (see the hazards).

**SftpManager.**  `conn` and `mutex` are the manager, `closed`, `shutdown` and
`up` the connections (an `SFTPConn` keeps its identity over reconnects, so `up`
speaks of its present link), `monitor` the goroutine `handleReconnects`.
GetConnection and NewClient lock separately.  A failed reconnect panics: the
state starts over.  Close is in the model although the daemon never calls it.

## Runs

| run | question | bounds | result |
|---|---|---|---|
| `cache` | do locks and permits stay exact, do queries of undisturbed checks not overlap, is staleness only raced, was what an entry says (unless odd) ever true, do checks return? | 2 checks, 1 upload, 1 full clear, 1 path, 2 sizes, 1 permit, 2 disturbances | holds |
| `cache_resting` | is a resting cache current (DESIGN.md:200)? | 1 check, 1 upload, no failure | violated |
| `ssh_debounce` | are triggers covered, flags true, decisions quiet, commands run? | 2 workers, 2 executors, 2 ticks, 1 fault, no new trigger with 2 outstanding | holds |
| `ssh_lost` | does every upload get a command (README.md:50)? | 1 worker, 1 executor, no fault | violated |
| `sync` | do done, removed and announced mean stored, but for the named exceptions; are uploads bounded; does every task end? | 2 tasks for one source (one removes it, one overwrites), 2 runs, 1 rewrite, S3, 1 retry of each kind, 1 fault | holds |
| `sync_trigger` | does an uploaded file ask for the command (README.md:50)? | 1 task, 1 fault | violated |
| `sftp_upload` | is an upload an atomic put, resumable, and does it return? | 2 uploads, 1 target, 3 contents (one empty), 2 faults, 1 replacement | holds |
| `sftp_manager` | one open connection, watched, recovered, released? | 3 callers, 3 connections alive | holds |
| `sftp_closed` | is the connection handed out open? | 2 callers | violated |
| `publisher` | has what was accepted a task (but for Conflict's exception); does a directory stay empty only if its removal failed; does everything end? | 2 requests, 3 bodies (none, a directory, two items that share a target with it), 2 files at two depths, 1 rewrite, 1 retry, 1 fault | holds |
| `daemon` | does that survive signals, shutdowns and crashes; does a signal end the process; has a task one handler; does a directory stay empty only if its removal failed or the process ended? | 1 request, 2 files, 2 signals, 1 rewrite, 1 retry, 1 fault or kill | holds |
| `daemon_exit` | are all tasks completed when the daemon says so (daemon.go:178, DESIGN.md:194)? | 1 request, 1 signal, no fault | violated |

The violated ones state what the repository says of itself; they are the
findings of `PROJECT.json`, each with the line it contradicts:

- An answer of the storage that an upload has overtaken is stored after the
  upload's announcement, and entries do not expire.
- A trigger during the command relies on a flag of a task that will not run a
  command again.
- A failure after the removal makes every retry end at the missing source,
  before `TriggerSSH`.
- If two callers race for the first connection and the second dial fails, the
  closed connection of the first stays in `m.conn` for good.
- asynq's own signal handler can be in `Server.Shutdown` first; the daemon's call
  then returns at once, and the daemon reports completed tasks and exits while a
  handler runs.  The task is recovered after the restart, which counts as a retry.

**Bounds.**  Two actors of a kind are the least that race; the third caller of
`sftp_manager` is the one that arrives while two others race.  Two faults let a
failure hit the handling of another; `sync`, `publisher` and `daemon` have one, and
in `sync` two kinds of failures cost nothing, so that they come on top of it: those of a
run that outlived its deadline, and those of an upload after the first in the same
loop, without which the loop would never run out.  Safety
properties do not depend on these bounds: they are proved for all values.  What
rests on the bounds are the liveness properties.  In `sync` one task removes the
source that the other uploads over what is there, with a rewrite in between: all
ways two runs can meet over one file and one target.  In `publisher` the second
body maps another file to a target of the first one's directory, and its first item
needs no unique identifier, so that a batch has both kinds; two files at two depths
let one cleanup empty the directory of the other.  In `daemon` the second signal
meets a restarted daemon that has tasks to recover.  In `ssh_debounce` two
outstanding tasks allow a task to be rescheduled, or retried, while a new trigger
enqueues another.  `SftpManager` has no counters: its state is finite for given
callers and connections, and since a connection that is closed and done is
collected, three are enough for any number over time.

**Deadlock** is checked except in the runs of `FileSync`, `Publisher` and `Daemon`,
where the system stops when all tasks are done or archived and nobody asks for
more.

**Fairness** is assumed of the code's own goroutines only (weak fairness of their
steps), and never of failures, cancellations, crashes or the arrival of work.
Strong fairness is assumed in four places: the cache's semaphore (its waiters are a
FIFO), the stripes of the SFTP backend and `connMutex` (Go's mutex hands over to a
waiter that has starved for a millisecond), and `select` in `handleReconnects`,
which picks at random among ready cases.  In `SshDebounce`, time passes, and an
executor takes a task that is due; a command ends because it has a timeout.
`CommandRuns` holds once uploads stop: uploads closer to each other than the
debounce period postpone the command for ever, as intended.  For SFTP it is an
assumption that calls to the server and the SSH handshake end; the code sets no
deadline for them, which the hazards list.  In `Publisher` requests and asynq's
workers make progress, each as a group.  In `Daemon` systemd starts the process
again (`src/module.nix:89`), `main` and the server go on, asynq gives up a worker
that does not end, and leases of dead processes expire; no fairness is assumed of
the handlers that asynq gave up.

## Proofs

All theorems hold for every value of the constants under the named assumption of
the module; none limits the number of actors, keys, contents, retries or faults.

| module | theorems | argument |
|---|---|---|
| `ExistenceCacheProofs` | `TypeCorrect`, `PermitsAreExact`, `LocksHaveOwners`, `ChecksAreSingleFlight`, `CacheIsCoherentUnlessRaced`, `EntriesAreObserved` | the count of permits follows the set of holders; a lock has an owner because only an owner's last step may leave it behind, and that deletes it; staleness is traced to what is in flight for the key; each step maps to a step of `LookasideCache` or a stutter |
| `SshDebounceProofs` | `TypeCorrect`, `CoveredTriggersKeepATask`, `FlagTellsOfATask`, `CommandsWaitForQuiet` | `covered` and `pending` are related to where tasks are (queue, handler before or after the command), the record's age to the time since the last request |
| `FileSyncProofs` | `TypeCorrect`, `CompletedTasksAreStored`, `RemovedSourcesAreStored`, `AnnouncementsAreTrue`, `UploadsAreBounded` | what a run holds at each `pc` is the last version of its source unless the run is stale, and the target is one of that source, so that each upload and announcement either is current or is marked `outdated` or `misled`; the uploads of a delivery follow the counter of the one run that has it, and deliveries follow retries and shutdowns |
| `PublisherProofs` | `TypeCorrect`, `AcceptedHaveTasks`, `NoDirStaysEmpty` | what a request promises is what it still has to enqueue or has a task for, and versions on the disk only grow, so that a task that starts later reads no less; a directory that becomes empty is the one some cleanup has just come to, and stays so only through a failure that puts it into `left` |
| `DaemonProofs` | `DaemonTypeCorrect`, `OneHandlerHolds`, `AcceptedSurvives`, `EmptyDirsAreLeft` | `Publisher`'s invariant is kept by what surrounds it; dead tasks are ones that a handler had; while a handler is loose no worker has a task and the server takes none, and the process ends before it takes any again; the lemmas of `PublisherProofs` on how a directory becomes empty hold for every handler, so each empty one is the next of some cleanup or is in `left` |
| `SftpUploadProofs` | `TypeCorrect`, `ObjectsAreWhole`, `TempsAreResumable`, `UploadsAreAtomic` | calls inside hold their stripe, so their targets differ; size, hash, opened file and temporary file are about one content unless the temporary file is in doubt, and a call casts doubt only after it saw two contents; each step maps to a step of `AtomicStore` or a stutter |
| `SftpManagerProofs` | `TypeCorrect`, `ConnectionsAreUnique`, `OpenConnectionsAreWatched`, `LinksAreReleased` | a dialling caller holds `connMutex` and no connection is open; a closed connection has exactly one message waiting as long as its monitor works |

The properties are not inductive by themselves: that a task is done says nothing
of the run that is about to finish it.  Each proof module states its inductive
invariant (`IInv`, or its parts) as conjuncts with a comment each, proves that the
initial states satisfy it and that every action keeps it, one lemma or step per
action, and derives the theorems.

Only model-checked: the liveness properties (`CheckReturns`, `CommandRuns`,
`OrphanedFlagEnds`, `TasksSettle`, `UploadsReturn`, `LinksRecover`, `MonitorsEnd`,
`CallsReturn`, `PublishingEnds`, `SignalEnds`), which are beyond the proof system's
reach.

## Not modelled

- The handlers for check and clear-cache (`pkg/http/handler.go`, from line 164): a
  reply around the operations of `ExistenceCache`.  The asynqmon page.
- Configuration: read once.  Its validation gives the assumptions on the constants.
- Storage factory, S3 client, logging: constructors and output without state.
  `utils.SSHDialContext` is not called by anything.
- `getContentType`, the `overwrite` flag in `Publisher` (it decides nothing before the
  handler), the arguments and output of the SSH command; a command of white space.
- A server that fails to start: `ListenAndServe` (`daemon.go:147`) and `Start`
  (`main.go:41`) only log it, and the process stays up without it.
- asynq, Redis, S3, the SFTP server: external, as the code uses them.  asynq's
  retry limit of 25 for SSH tasks is above the bound on faults.
- Sources rewritten in place while they are read: they are replaced as a whole.
- Two spellings of one SFTP target (`sftpbackend.go:34`); dials and SFTP calls that
  never end (`sftp_manager.go:136`).
- The removal of a directory that a producer has made and not yet filled
  (`filesync.go:261`).

## Plan

Done, in this order: `ExistenceCache`, `SshDebounce`, `FileSync`, `AtomicStore` and
`SftpUpload`, `SftpManager`, `Publisher`, `Daemon`, `LookasideCache`, each with its
runs and its proofs.
Open:

1. `FileSync` over `AtomicStore`: the upload of the handler replaced by the
   abstract store, so that its guarantees hold for S3 and SFTP alike; then handler,
   cache and debouncer in one module, for the properties that relate them.
2. Two spellings of one SFTP target, with open handles that survive a rename.
