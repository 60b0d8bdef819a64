----------------------------- MODULE SshDebounce -----------------------------
(***************************************************************************)
(* The debounced SSH command: Debouncer.TriggerSSH, called by every file   *)
(* sync task that succeeded, and SSHHandler.ProcessTask, the handler of    *)
(* the delayed task that runs the command.  They share one record in Redis *)
(* (last request time, pending flag), which both read, change and write    *)
(* back in separate calls, and the asynq queue of SSH tasks.               *)
(*                                                                         *)
(* Time is a tick; D ticks are the debounce period.  Times are kept        *)
(* relative to now: the age of the last request, the remaining life of the *)
(* record (2 * D from each write), the remaining delay of a task.  Ages    *)
(* above D are not told apart, since ShouldExecuteSSH only compares with   *)
(* D, so the model needs no bound on time.                                 *)
(*                                                                         *)
(* asynq is external: it delivers a task until its handler returned nil    *)
(* and that was recorded, and retries a failed one after some delay.  Its  *)
(* retry limit (25) is above MaxFaults and so is never reached.            *)
(***************************************************************************)
EXTENDS Integers, FiniteSets
LOCAL INSTANCE Functions

CONSTANTS
    Workers,        \* file sync handlers that call TriggerSSH
    Executors,      \* asynq workers that run ProcessTask
    D,              \* the debounce period in ticks
    MaxFaults,      \* bound on failed calls and crashes
    MaxOutstanding  \* bound: no new trigger with that many tasks and triggers

ASSUME DebounceAssumption ==
    /\ Workers \cap Executors = {}
    /\ IsFiniteSet(Executors)
    /\ D \in Nat \ {0}
    /\ MaxFaults \in Nat
    /\ MaxOutstanding \in Nat \ {0}

VARIABLES
    pending,    \* PendingTaskExists of the record, FALSE when it is absent
    age,        \* ticks since LastRequestTime, at most D; D when it is absent
    ttl,        \* remaining life of the record, 0 when it is absent
    waiting,    \* waiting[d]: number of SSH tasks due in d ticks
    pc,         \* where each worker and executor is
    lag,        \* age of the time each of them is about to write
    seen,       \* workers whose GET found the pending flag set
    failed,     \* executors whose command failed
    faults,     \* number of failures so far (bounded)
    owing,      \* ghost: workers no command has started since they triggered
    owed,       \* ghost: no command has started since some trigger returned
    covered,    \* ghost: that trigger returned with a task to count on
    orphaned,   \* ghost: the flag was set with nobody to clear it
    quiet,      \* ghost: ticks since the last request saved, at most D
    clobbered   \* ghost: an older time was written over a newer one

record == <<pending, age, ttl>>
local  == <<pc, lag, seen, failed>>
ghosts == <<owing, owed, covered, orphaned, quiet, clobbered>>
vars   == <<record, waiting, local, faults, ghosts>>

Procs     == Workers \cup Executors
WorkerPCs == {"idle", "get", "save", "enqueue"}
\* An executor whose task has yet to start its command,
Unstarted == {"decide", "reschedule", "start"}
\* and one that will still clear the flag, retry, or replace its task.
Marking   == Unstarted \cup {"running", "markget", "markset"}
ExecutorPCs == Marking \cup {"idle", "ack"}

MinOf(a, b) == IF a < b THEN a ELSE b
Goto(p, label) == pc' = [pc EXCEPT ![p] = label]
Fault == faults < MaxFaults /\ faults' = faults + 1

\* asynq.ProcessIn, or a retry delay chosen by asynq.
Schedule(d) == waiting' = [waiting EXCEPT ![d] = @ + 1]

TaskWaits    == \E d \in 0 .. D : waiting[d] > 0
HasUnstarted == TaskWaits \/ \E e \in Executors : pc[e] \in Unstarted
HasMarking   == TaskWaits \/ \E e \in Executors : pc[e] \in Marking

\* Mutant of SaveState: the record is written without a life.
SaveStateExpired(flag, since) ==
    /\ pending' = flag
    /\ age' = since
    /\ ttl' = 0

\* saveDebounceState: the record lives twice the debounce period.
SaveState(flag, since) ==
    /\ pending' = flag
    /\ age' = since
    /\ ttl' = 2 * D

-----------------------------------------------------------------------------
Init == /\ pending = FALSE /\ age = D /\ ttl = 0
        /\ waiting = [d \in 0 .. D |-> 0]
        /\ pc = [p \in Procs |-> "idle"]
        /\ lag = [p \in Procs |-> 0]
        /\ seen = {} /\ failed = {}
        /\ faults = 0
        /\ owing = {} /\ owed = FALSE /\ covered = FALSE
        /\ orphaned = FALSE
        /\ quiet = D /\ clobbered = FALSE

-----------------------------------------------------------------------------
(* TriggerSSH                                                              *)

Outstanding == FoldFunction(+, 0, waiting)
                 + Cardinality({p \in Procs : pc[p] # "idle"})

\* The upload is done and now := time.Now().
Trigger(w) ==
    /\ pc[w] = "idle"
    /\ Outstanding < MaxOutstanding
    /\ Goto(w, "get")
    /\ lag' = [lag EXCEPT ![w] = 0]
    /\ owing' = owing \cup {w}
    /\ UNCHANGED <<record, waiting, seen, failed, faults, owed, covered,
                   orphaned, quiet, clobbered>>

GetState(w) ==
    /\ pc[w] = "get"
    /\ Goto(w, "save")
    /\ seen' = IF pending THEN seen \cup {w} ELSE seen \ {w}
    /\ UNCHANGED <<record, waiting, lag, failed, faults, ghosts>>

\* TriggerSSH returns nil: unless a command started meanwhile, one is owed.
Returned(w, hasTask) ==
    /\ Goto(w, "idle")
    /\ owing' = owing \ {w}
    /\ owed' = (owed \/ w \in owing)
    /\ covered' = (covered \/ (w \in owing /\ hasTask))

\* A time written over a newer one, and the end of that state.
Rewrites(since) ==
    clobbered' = IF since > age THEN TRUE ELSE clobbered /\ quiet' < since

\* With the flag set at the GET, the trigger relies on the task that set it.
Save(w) ==
    /\ pc[w] = "save"
    /\ SaveState(TRUE, lag[w])
    /\ quiet' = MinOf(quiet, lag[w])
    /\ Rewrites(lag[w])
    /\ \/ /\ w \in seen
          /\ Returned(w, HasUnstarted)
          /\ orphaned' = (orphaned \/ ~pending)
       \/ /\ w \notin seen
          /\ Goto(w, "enqueue")
          /\ UNCHANGED <<owing, owed, covered, orphaned>>
    /\ UNCHANGED <<waiting, lag, seen, failed, faults>>

Enqueue(w) ==
    /\ pc[w] = "enqueue"
    /\ Schedule(D)
    /\ Returned(w, TRUE)
    /\ UNCHANGED <<record, lag, seen, failed, faults, orphaned, quiet,
                   clobbered>>

\* A call fails: TriggerSSH returns an error, which its caller ignores.
TriggerFails(w) ==
    /\ pc[w] \in {"get", "save", "enqueue"}
    /\ Fault
    /\ Goto(w, "idle")
    /\ owing' = owing \ {w}
    /\ orphaned' = (orphaned \/ pc[w] = "enqueue")
    /\ UNCHANGED <<record, waiting, lag, seen, failed, owed, covered, quiet,
                   clobbered>>

\* The SET took effect but its reply was lost: no task will be enqueued.
SaveReplyLost(w) ==
    /\ pc[w] = "save"
    /\ Fault
    /\ SaveState(TRUE, lag[w])
    /\ quiet' = MinOf(quiet, lag[w])
    /\ Rewrites(lag[w])
    /\ Goto(w, "idle")
    /\ owing' = owing \ {w}
    /\ orphaned' = (orphaned \/ ~pending)
    /\ UNCHANGED <<waiting, lag, seen, failed, owed, covered>>

-----------------------------------------------------------------------------
(* ProcessTask                                                             *)

Take(e) ==
    /\ pc[e] = "idle"
    /\ waiting[0] > 0
    /\ waiting' = [waiting EXCEPT ![0] = @ - 1]
    /\ Goto(e, "decide")
    /\ UNCHANGED <<record, lag, seen, failed, faults, ghosts>>

\* Mutant of Decide: the task does not ask whether requests went quiet.
DecideAtOnce(e) ==
    /\ pc[e] = "decide"
    /\ Goto(e, "start")
    /\ UNCHANGED <<record, waiting, lag, seen, failed, faults, ghosts>>

\* ShouldExecuteSSH
Decide(e) ==
    /\ pc[e] = "decide"
    /\ Goto(e, IF age < D THEN "reschedule" ELSE "start")
    /\ UNCHANGED <<record, waiting, lag, seen, failed, faults, ghosts>>

\* Mutant of Reschedule: the task returns without leaving another.
RescheduleForgets(e) ==
    /\ pc[e] = "reschedule"
    /\ Goto(e, "ack")
    /\ UNCHANGED <<record, waiting, lag, seen, failed, faults, ghosts>>

\* A new task replaces this one, which then returns nil.
Reschedule(e) ==
    /\ pc[e] = "reschedule"
    /\ Schedule(D)
    /\ Goto(e, "ack")
    /\ UNCHANGED <<record, lag, seen, failed, faults, ghosts>>

Start(e) ==
    /\ pc[e] = "start"
    /\ Goto(e, "running")
    /\ owing' = {} /\ owed' = FALSE /\ covered' = FALSE
    /\ UNCHANGED <<record, waiting, lag, seen, failed, faults, orphaned, quiet,
                   clobbered>>

Succeed(e) ==
    /\ pc[e] = "running"
    /\ Goto(e, "markget")
    /\ failed' = failed \ {e}
    /\ UNCHANGED <<record, waiting, lag, seen, faults, ghosts>>

\* A non-zero exit or the timeout of the command.
CommandFails(e) ==
    /\ pc[e] = "running"
    /\ Fault
    /\ Goto(e, "markget")
    /\ failed' = failed \cup {e}
    /\ UNCHANGED <<record, waiting, lag, seen, ghosts>>

\* MarkTaskCompleted reads the record and writes it back without the flag.
MarkGet(e) ==
    /\ pc[e] = "markget"
    /\ Goto(e, "markset")
    /\ lag' = [lag EXCEPT ![e] = age]
    /\ UNCHANGED <<record, waiting, seen, failed, faults, ghosts>>

\* An error return: asynq retries the task.
GiveBack(e) ==
    /\ Goto(e, "idle")
    /\ Schedule(0)

\* Mutant of MarkSet: the flag is written back as it was read.
MarkSetKeepsFlag(e) ==
    /\ pc[e] = "markset"
    /\ SaveState(pending, lag[e])
    /\ clobbered' = (clobbered \/ lag[e] > age)
    /\ \/ e \in failed /\ GiveBack(e)
       \/ e \notin failed /\ Goto(e, "ack") /\ UNCHANGED waiting
    /\ UNCHANGED <<lag, seen, failed, faults, owing, owed, covered, orphaned,
                   quiet>>

MarkSet(e) ==
    /\ pc[e] = "markset"
    /\ SaveState(FALSE, lag[e])
    /\ clobbered' = (clobbered \/ lag[e] > age)
    /\ orphaned' = FALSE
    /\ \/ e \in failed /\ GiveBack(e)
       \/ e \notin failed /\ Goto(e, "ack") /\ UNCHANGED waiting
    /\ UNCHANGED <<lag, seen, failed, faults, owing, owed, covered, quiet>>

\* asynq records that the task is done.
Ack(e) ==
    /\ pc[e] = "ack"
    /\ Goto(e, "idle")
    /\ UNCHANGED <<record, waiting, lag, seen, failed, faults, ghosts>>

\* Mutant of TaskFails: the error is not retried (asynq.SkipRetry).
TaskFailsForGood(e) ==
    /\ pc[e] \in {"decide", "reschedule", "markget", "markset", "ack"}
    /\ Fault
    /\ Goto(e, "idle")
    /\ UNCHANGED <<record, waiting, lag, seen, failed, ghosts>>

\* A call of ProcessTask, or the recording of its success, fails.
TaskFails(e) ==
    /\ pc[e] \in {"decide", "reschedule", "markget", "markset", "ack"}
    /\ Fault
    /\ GiveBack(e)
    /\ UNCHANGED <<record, lag, seen, failed, ghosts>>

\* The flag was cleared but the reply was lost: the command will run again.
MarkReplyLost(e) ==
    /\ pc[e] = "markset"
    /\ Fault
    /\ SaveState(FALSE, lag[e])
    /\ clobbered' = (clobbered \/ lag[e] > age)
    /\ orphaned' = FALSE
    /\ GiveBack(e)
    /\ UNCHANGED <<lag, seen, failed, owing, owed, covered, quiet>>

-----------------------------------------------------------------------------
Older(n) == MinOf(n + 1, D)

\* Mutant of Tick: the record is saved with no expiration.
TickWithoutExpiry ==
    /\ age' = IF ttl > 0 THEN Older(age) ELSE D
    /\ waiting' = [d \in 0 .. D |->
                      IF d = 0 THEN waiting[0] + waiting[1]
                      ELSE IF d = D THEN 0 ELSE waiting[d + 1]]
    /\ lag' = [p \in Procs |-> IF pc[p] \in {"get", "save", "markset"}
                               THEN Older(lag[p]) ELSE 0]
    /\ quiet' = Older(quiet)
    /\ UNCHANGED <<pending, ttl, pc, seen, failed, faults, owing, owed, covered,
                   orphaned, clobbered>>

\* A record whose life ends is absent from Redis.
Tick ==
    /\ ttl' = IF ttl = 0 THEN 0 ELSE ttl - 1
    /\ pending' = (pending /\ ttl > 1)
    /\ age' = IF ttl > 1 THEN Older(age) ELSE D
    /\ waiting' = [d \in 0 .. D |->
                      IF d = 0 THEN waiting[0] + waiting[1]
                      ELSE IF d = D THEN 0 ELSE waiting[d + 1]]
    /\ lag' = [p \in Procs |-> IF pc[p] \in {"get", "save", "markset"}
                               THEN Older(lag[p]) ELSE 0]
    /\ quiet' = Older(quiet)
    /\ orphaned' = (orphaned /\ ttl > 1)
    /\ UNCHANGED <<pc, seen, failed, faults, owing, owed, covered, clobbered>>

\* The daemon dies: asynq delivers again the tasks its executors held.
Crash ==
    /\ Fault
    /\ waiting' = [waiting EXCEPT
                     ![0] = @ + Cardinality({e \in Executors : pc[e] # "idle"})]
    /\ orphaned' = (orphaned \/ \E w \in Workers : pc[w] = "enqueue")
    /\ pc' = [p \in Procs |-> "idle"]
    /\ owing' = {}
    /\ UNCHANGED <<record, lag, seen, failed, owed, covered, quiet, clobbered>>

WorkerStep(w) == \/ GetState(w) \/ Save(w) \/ Enqueue(w)
                 \/ TriggerFails(w) \/ SaveReplyLost(w)

ExecutorStep(e) == \/ Take(e) \/ Decide(e) \/ Reschedule(e) \/ Start(e)
                   \/ Succeed(e) \/ CommandFails(e)
                   \/ MarkGet(e) \/ MarkSet(e) \/ Ack(e)
                   \/ TaskFails(e) \/ MarkReplyLost(e)

Next == \/ \E w \in Workers : Trigger(w) \/ WorkerStep(w)
        \/ \E e \in Executors : ExecutorStep(e)
        \/ Tick
        \/ Crash

Spec == Init /\ [][Next]_vars

\* Handlers that can run do run, a command ends (it has a timeout), an idle
\* executor takes a task that is due, and time passes.
Fairness == /\ \A w \in Workers : WF_vars(WorkerStep(w))
            /\ \A e \in Executors : WF_vars(ExecutorStep(e))
            /\ WF_vars(Tick)

FairSpec == Spec /\ Fairness

-----------------------------------------------------------------------------
(* Properties.                                                             *)

FlagsOK == /\ pending \in BOOLEAN
           /\ owed \in BOOLEAN /\ covered \in BOOLEAN
           /\ orphaned \in BOOLEAN /\ clobbered \in BOOLEAN

\* Every variable has its type; the flag is set only in a live record.
TypeOK == /\ FlagsOK
          /\ age \in 0 .. D /\ ttl \in 0 .. 2 * D /\ (pending => ttl > 0)
          /\ waiting \in [0 .. D -> Nat]
          /\ pc \in [Procs -> WorkerPCs \cup ExecutorPCs]
          /\ \A w \in Workers : pc[w] \in WorkerPCs
          /\ \A e \in Executors : pc[e] \in ExecutorPCs
          /\ lag \in [Procs -> 0 .. D]
          /\ seen \subseteq Workers /\ failed \subseteq Executors
          /\ faults \in 0 .. MaxFaults
          /\ owing \subseteq Workers
          /\ quiet \in 0 .. D

\* A trigger that returned while a task had yet to start its command keeps
\* such a task until a command starts: rescheduling, failed calls, retries
\* and crashes never lose it.
CoveredHasTask == covered => HasUnstarted

\* The flag that makes triggers rely on an existing task is set without one
\* (or a trigger about to enqueue it) only if the enqueue failed, a crash or a
\* lost reply prevented it, or a trigger wrote back a flag it had read before
\* the command's end cleared it.  Those cases are the code's (debouncer.go:59-76),
\* and orphaned holds them; that they end is OrphanedFlagEnds.
FlagHasTask == pending /\ ~orphaned =>
                 HasMarking \/ \E w \in Workers : pc[w] = "enqueue"

\* The decision to run the command is taken only when no request was saved for
\* the debounce period, unless two writers of the record overlapped and the
\* older time survived (debouncer.go:116-126, clobbered): neither expiry nor the
\* completion of a command that overlaps no trigger forgets a request.
DecidesWhenQuiet ==
    [][\A e \in Executors : pc[e] = "decide" /\ pc'[e] = "start"
                              => quiet = D \/ clobbered]_vars

UploadsStop == <>[](\A w \in Workers : pc[w] = "idle")

\* Once uploads stop, the command that covers them is started, in spite of
\* failed commands and calls, crashes and reschedulings.
CommandRuns == UploadsStop => (covered ~> ~covered)

\* Once uploads stop, a flag set without a task disappears: the record expires.  As
\* long as triggers come before that, each renews its life and relies on the flag.
OrphanedFlagEnds == UploadsStop => (orphaned ~> ~orphaned)

\* What README.md says ("Automatic SSH command execution after each successful
\* file upload"): while a command is owed to a trigger that returned nil,
\* there is a task that will start one.  The code does not keep it, see the
\* runs.
OwedHasTask == owed => HasUnstarted
=============================================================================
