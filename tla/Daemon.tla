-------------------------------- MODULE Daemon --------------------------------
(***************************************************************************)
(* The process around Publisher: main of cmd/daemon/main.go, Start and     *)
(* Shutdown of internal/daemon/daemon.go, and systemd, which starts the    *)
(* process again.                                                          *)
(*                                                                         *)
(* asynq is external.  Server.Run starts the server, registers a handler   *)
(* of its own for the same signals, and calls Server.Shutdown when one     *)
(* comes; so does DaemonService.Shutdown.  The first call stops the server *)
(* from taking tasks and waits for the workers; after 8 seconds it gives   *)
(* their tasks back to the queue, and their handlers run on.  A call that  *)
(* finds the server not started or closed returns at once.  The tasks of a *)
(* process that is gone are recovered when their leases expire, which      *)
(* counts as a retry.                                                      *)
(***************************************************************************)
EXTENDS Publisher

CONSTANT MaxSignals     \* bound on signals

ASSUME DaemonAssumption == MaxSignals \in Nat

VARIABLES
    main,       \* what main does: "up" until a signal comes
    server,     \* asynq.Server: "own" and "daemon" are in Server.Shutdown,
                \*               called by Server.Run and by the daemon
    done,       \* whether the daemon's call of Server.Shutdown returned
    expired,    \* whether shutdownCtx expired
    dead,       \* tasks of processes that are gone
    loose,      \* tasks given back, whose handlers run on, by identifier
    signals     \* number of signals so far (bounded)

process == <<main, server, done, expired>>
dvars   == <<vars, process, dead, loose, signals>>

\* The tasks that a worker runs.
Active == {id \in DOMAIN tasks : tasks[id].state \in {"sync", "clean"}} \ dead

\* The directories that handlers of this process are about to look at.
Looking ==
    {tasks[id].dir : id \in {i \in Active : tasks[i].state = "clean"}}
        \cup {loose[id].dir : id \in {i \in DOMAIN loose : loose[i].state = "clean"}}

\* Mutant of Serving: asynq takes tasks while it shuts down.
ServingOn == server # "new"

\* asynq takes tasks.
Serving == server \in {"started", "ready", "told"}

-----------------------------------------------------------------------------
DInit == /\ Init
         /\ main = "up"
         /\ server = "new"
         /\ done = FALSE
         /\ expired = FALSE
         /\ dead = {}
         /\ loose = [id \in {} |-> {}]
         /\ signals = 0

\* systemd starts the process; NewDaemonService opens the clients.
Boot == /\ main = "down"
        /\ main' = "up"
        /\ client' = "open"
        /\ UNCHANGED <<source, tasks, request, faults, server, done, expired, dead,
                       loose, signals>>

\* The process is gone: requests without an answer, and handlers.  The directories
\* that these were about to look at are left.
Gone ==
    /\ main' = "down"
    /\ server' = "new"
    /\ done' = FALSE
    /\ expired' = FALSE
    /\ client' = "closed"
    /\ dead' = dead \cup Active
    /\ loose' = [id \in {} |-> {}]
    /\ left' = left \cup {d \in Looking \cap dirs : Empty(d)}
    /\ LET cut == {r \in Requests : pc[r] \in {"resolve", "scan", "stat", "enqueue"}}
       IN  /\ pc' = [r \in Requests |-> IF r \in cut THEN "error" ELSE pc[r]]
           /\ body' = [r \in Requests |-> IF r \in cut THEN <<>> ELSE body[r]]
           /\ at' = [r \in Requests |-> IF r \in cut THEN 1 ELSE at[r]]
           /\ todo' = [r \in Requests |-> IF r \in cut THEN {} ELSE todo[r]]
           /\ promise' = [r \in Requests |-> IF r \in cut THEN {} ELSE promise[r]]
    /\ UNCHANGED <<disk, written, dirs, tasks, signals>>

Kill == /\ main # "down"
        /\ faults < MaxFaults
        /\ faults' = faults + 1
        /\ Gone

\* SIGTERM or SIGINT: main takes the first, and Server.Run if it is registered.
Signal == /\ main # "down"
          /\ signals < MaxSignals
          /\ signals' = signals + 1
          /\ main' = IF main = "up" THEN "close" ELSE main
          /\ server' = IF server = "ready" THEN "told" ELSE server
          /\ UNCHANGED <<vars, done, expired, dead, loose>>

-----------------------------------------------------------------------------
(* DaemonService.Start, and Server.Run in it.                              *)

Start == /\ main # "down"
         /\ \/ server = "new" /\ server' = "started"
            \/ server = "started" /\ server' = "ready"
            \/ server = "told" /\ server' = "own"
         /\ UNCHANGED <<vars, main, done, expired, dead, loose, signals>>

\* The workers that Server.Shutdown waits for have ended.
Drained == /\ server \in {"own", "daemon"}
           /\ Active = {}
           /\ server' = "closed"
           /\ done' = (done \/ server = "daemon")
           /\ UNCHANGED <<vars, main, expired, dead, loose, signals>>

\* Mutant of Abort: the tasks are dropped.
AbortDrops ==
    /\ server \in {"own", "daemon"}
    /\ Active # {}
    /\ loose' = [id \in Active |-> tasks[id]]
    /\ tasks' = [id \in DOMAIN tasks \ Active |-> tasks[id]]
    /\ UNCHANGED <<source, client, request, faults, process, dead, signals>>

\* Or are given up after 8 seconds.
Abort ==
    /\ server \in {"own", "daemon"}
    /\ Active # {}
    /\ loose' = [id \in Active |-> tasks[id]]
    /\ tasks' = [id \in DOMAIN tasks |->
            IF id \in Active
              THEN [tasks[id] EXCEPT !.state = "pending", !.read = 0, !.dir = <<>>]
              ELSE tasks[id]]
    /\ UNCHANGED <<source, client, request, faults, process, dead, signals>>

-----------------------------------------------------------------------------
(* DaemonService.Shutdown, in main.                                        *)

\* HTTPHandler.Close.
CloseHandler == /\ main = "close"
                /\ Close
                /\ main' = "http"
                /\ UNCHANGED <<server, done, expired, dead, loose, signals>>

\* httpServer.Shutdown returns when no request runs, or at the deadline.
StopHTTP == /\ main = "http"
            /\ \/ \A r \in Requests : pc[r] \in {"idle", "ok", "error"}
               \/ expired
            /\ main' = "stop"
            /\ UNCHANGED <<vars, server, done, expired, dead, loose, signals>>

\* The goroutine's call of Server.Shutdown.
StopServer ==
    /\ main = "stop"
    /\ ~done
    /\ \/ server \in {"new", "own", "closed"} /\ done' = TRUE /\ UNCHANGED server
       \/ Serving /\ server' = "daemon" /\ UNCHANGED done
    /\ UNCHANGED <<vars, main, expired, dead, loose, signals>>

\* shutdownCtx, 30 seconds.
Expire == /\ main \in {"close", "http", "stop"}
          /\ ~expired
          /\ expired' = TRUE
          /\ UNCHANGED <<vars, main, server, done, dead, loose, signals>>

\* Mutant of Exit: asynq must be closed.
ExitClosed == /\ main = "stop"
              /\ server = "closed"
              /\ Gone
              /\ UNCHANGED faults

\* The select: done, or the deadline; main returns.
Exit == /\ main = "stop"
        /\ done \/ expired
        /\ Gone
        /\ UNCHANGED faults

Shutdown == CloseHandler \/ StopHTTP \/ StopServer \/ Expire \/ Exit

-----------------------------------------------------------------------------
(* Tasks that are not with a worker of this process.                       *)

\* Mutant of Recover: a handler that had removed its source is not missed.
RecoverSome(id) ==
    /\ id \in dead
    /\ Serving
    /\ tasks[id].state = "sync"
    /\ tasks' = [tasks EXCEPT ![id].state = "pending", ![id].retried = @ + 1]
    /\ dead' = dead \ {id}
    /\ UNCHANGED <<source, client, request, faults, process, loose, signals>>

\* asynq's recoverer: the lease of a task expired.
Recover(id) ==
    /\ id \in dead
    /\ Serving
    /\ dead' = dead \ {id}
    /\ \/ /\ tasks[id].retried < MaxRetry
          /\ tasks' = [tasks EXCEPT ![id].state = "pending", ![id].retried = @ + 1,
                                    ![id].read = 0, ![id].dir = <<>>]
          /\ UNCHANGED promise
       \/ /\ tasks[id].retried = MaxRetry
          /\ tasks' = [tasks EXCEPT ![id].state = "archived", ![id].dir = <<>>]
          /\ Kept(id)
    /\ UNCHANGED <<source, client, pc, body, at, todo, faults, process, loose, signals>>

\* Mutant of Loose: a handler ends where it is when its task is given back.
LooseQuits(id) ==
    /\ id \in DOMAIN loose
    /\ loose' = [i \in DOMAIN loose \ {id} |-> loose[i]]
    /\ UNCHANGED <<source, client, tasks, request, faults, process, dead, signals>>

\* A handler whose task was given back removes its source and directories, or ends.
Loose(id) ==
    LET t     == loose[id]
        Ends  == loose' = [i \in DOMAIN loose \ {id} |-> loose[i]]
        empty == t.state = "clean" /\ t.dir \in dirs /\ Empty(t.dir)
    IN  /\ id \in DOMAIN loose
        /\ \/ /\ t.state = "sync" /\ t.read # 0 /\ t.delete /\ disk[t.file] # 0
              /\ disk' = [disk EXCEPT ![t.file] = 0]
              /\ loose' = [loose EXCEPT ![id].state = "clean", ![id].dir = Dir(t.file)]
              /\ UNCHANGED <<dirs, left, faults>>
           \/ /\ empty
              /\ dirs' = dirs \ {t.dir}
              /\ loose' = [loose EXCEPT ![id].dir = Dir(@)]
              /\ UNCHANGED <<disk, left, faults>>
           \/ /\ empty
              /\ faults < MaxFaults
              /\ faults' = faults + 1
              /\ left' = left \cup {t.dir}
              /\ Ends
              /\ UNCHANGED <<disk, dirs>>
           \/ /\ ~empty
              /\ Ends
              /\ UNCHANGED <<disk, dirs, left, faults>>
        /\ UNCHANGED <<written, client, tasks, request, process, dead, signals>>

-----------------------------------------------------------------------------
(* Publisher's steps, in the process.                                      *)

Elsewhere == UNCHANGED <<process, dead, loose, signals>>

\* httpServer accepts connections until Shutdown is called.
Accept(r, b) == main \in {"up", "close"} /\ Receive(r, b) /\ Elsewhere

Serve(r) == main # "down" /\ RequestStep(r) /\ Elsewhere

Work(id) == \/ Serving /\ Take(id) /\ Elsewhere
            \/ /\ id \in Active
               /\ Sync(id) \/ Remove(id) \/ CleanUp(id) \/ Retry(id) \/ Archive(id)
               /\ Elsewhere

DNext == \/ Boot \/ Kill \/ Signal \/ Start \/ Drained \/ Abort \/ Shutdown
         \/ \E r \in Requests : Serve(r) \/ \E b \in Bodies : Accept(r, b)
         \/ \E id \in Ids : \/ Work(id) \/ Recover(id) \/ Loose(id)
                            \/ Forget(id) /\ Elsewhere
         \/ \E f \in Files : Write(f) /\ Elsewhere

DSpec == DInit /\ [][DNext]_dvars

\* systemd starts the process again; main, the server, requests and tasks run on;
\* a worker that does not end is given up; leases expire.
DFairness == /\ WF_dvars(Boot \/ Start \/ Shutdown)
             /\ WF_dvars(Drained \/ Abort)
             /\ WF_dvars(\E r \in Requests : Serve(r))
             /\ WF_dvars(\E id \in Ids : Work(id) \/ Recover(id))

DFairSpec == DSpec /\ DFairness

-----------------------------------------------------------------------------
(* Properties.                                                             *)

\* Every variable has its type.
DTypeOK ==
    /\ TypeOK
    /\ main \in {"down", "up", "close", "http", "stop"}
    /\ server \in {"new", "started", "ready", "told", "own", "daemon", "closed"}
    /\ done \in BOOLEAN /\ expired \in BOOLEAN
    /\ dead \subseteq DOMAIN tasks
    /\ DOMAIN loose \subseteq Ids
    /\ \A id \in DOMAIN loose : loose[id] \in Task
    /\ signals \in 0 .. MaxSignals

\* A task that asynq's shutdown gave back is not run a second time while its handler
\* still runs, whatever signals come and whichever call stopped the server.
OneHandler == Active \cap DOMAIN loose = {}

\* What DESIGN.md:284 says of the removal, in spite of shutdowns and crashes: an
\* empty directory is about to be looked at by a handler that runs, or it was left
\* because its reading or removal failed (filesync.go:255-263) or its cleanup ended
\* with the process, until it is filled again; the retried tasks find no source and
\* never come to the cleanup (filesync.go:250).
NoneLeft == \A d \in dirs : Empty(d) => d \in Looking \cup left

\* After a signal the process ends, and is started again (Signal and Kill are
\* bounded, so that it stays up in the end).
SignalEnds == []<>(main = "up")

\* What DESIGN.md:194 and the message of daemon.go:178 say: when the daemon's call
\* of Server.Shutdown has returned in time, and the server had been started, all
\* tasks are completed.
AllTasksCompleted ==
    main = "stop" /\ done /\ ~expired /\ ~Serving => Active = {}
=============================================================================
