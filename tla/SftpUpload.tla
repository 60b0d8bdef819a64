------------------------------- MODULE SftpUpload -------------------------------
(***************************************************************************)
(* SFTPBackend.UploadFile of pkg/storage/sftpbackend.go: under the lock of *)
(* the target, the source is measured and hashed, its bytes are written to *)
(* a temporary file named after target and hash, which a later upload      *)
(* resumes, and the temporary file is renamed over the target.             *)
(*                                                                         *)
(* A content is a sequence of blocks and a source is replaced as a whole:  *)
(* an upload goes on reading the file it opened.  Contents have different  *)
(* hashes, so a temporary file is named by target and content.  A call     *)
(* fails at any step (connection, server, source, context); the rename may *)
(* take effect although it fails.  A crash leaves the temporary files.     *)
(*                                                                         *)
(* One target has one spelling: the lock is chosen by the key as it was    *)
(* sent, the file on the server by its clean form (filepath.Clean), so two *)
(* spellings of one path would not exclude each other.  The server honours *)
(* the append flag.  opts is ignored, as the code does.                    *)
(***************************************************************************)
EXTENDS Naturals, Sequences

CONSTANTS
    Uploaders,      \* goroutines that call UploadFile
    Files,          \* source files
    Keys,           \* target paths
    Locks,          \* the stripes of the lock
    LockOf,         \* the stripe a key is hashed to
    Blocks,         \* the blocks files are made of
    Contents,       \* contents of the sources
    Absent,         \* there is no such file
    Nobody,         \* the lock is free
    EnableResume,   \* storage.sftp.enable_resume
    MaxFaults,      \* bound on failures and crashes
    MaxReplaced     \* bound on changes of the sources

ASSUME SftpUploadAssumption ==
    /\ LockOf \in [Keys -> Locks]
    /\ Contents \subseteq Seq(Blocks)
    /\ Absent \notin Seq(Blocks)
    /\ Nobody \notin Uploaders
    /\ EnableResume \in BOOLEAN
    /\ MaxFaults \in Nat /\ MaxReplaced \in Nat

VARIABLES
    source,     \* the source files
    final,      \* the target files on the server
    temp,       \* the temporary files, by target and hashed content
    lock,       \* holder of each stripe
    pc,         \* where each call is
    job,        \* its source and target
    size,       \* localSize
    hash,       \* the content it hashed
    data,       \* the content of the file it opened
    offset,     \* blocks of data it has skipped or written
    outcome,    \* "ok", "error", or "lost" (renamed, but reported as an error)
    answer,     \* what the last call returned
    seen,       \* ghost: contents the source had during the call
    doubt,      \* ghost: temporary files that may mix contents, see Doubt
    broken,     \* ghost: targets such a file was renamed over last
    faults, replaced    \* counters of the bounds

server == <<final, temp>>
call   == <<job, size, hash, data, offset>>
ghosts == <<seen, doubt, broken>>
bounds == <<faults, replaced>>
vars   == <<source, server, lock, pc, call, outcome, answer, ghosts, bounds>>

CallPCs == {"idle", "lock", "stat", "hash", "check", "open", "copy", "rename",
            "return"}

Init == /\ source \in [Files -> Contents]
        /\ final \in [Keys -> Contents \cup {Absent}]
        /\ temp = [k \in Keys |-> [c \in Contents |-> Absent]]
        /\ lock = [l \in Locks |-> Nobody]
        /\ pc = [u \in Uploaders |-> "idle"]
        /\ job \in {[u \in Uploaders |-> j] : j \in [file : Files, key : Keys]}
        /\ size = [u \in Uploaders |-> 0]
        /\ hash = [u \in Uploaders |-> source[job[u].file]]
        /\ data = hash
        /\ offset = [u \in Uploaders |-> 0]
        /\ outcome = [u \in Uploaders |-> "error"]
        /\ answer = [u \in Uploaders |-> "none"]
        /\ seen = [u \in Uploaders |-> {}]
        /\ doubt = {} /\ broken = {}
        /\ faults = 0 /\ replaced = 0

File(u) == job[u].file
Key(u)  == job[u].key
Pair(u) == <<Key(u), hash[u]>>
Temp(u) == temp[Key(u)][hash[u]]

Goto(u, label)  == pc' = [pc EXCEPT ![u] = label]
SetTemp(u, d)   == temp' = [temp EXCEPT ![Key(u)][hash[u]] = d]
End(u, o)       == Goto(u, "return") /\ outcome' = [outcome EXCEPT ![u] = o]
Trouble         == faults < MaxFaults /\ faults' = faults + 1 /\ UNCHANGED replaced

-----------------------------------------------------------------------------
(* UploadFile up to the decision to resume.                                *)

\* A call begins; its local variables have no values yet (any value stands for
\* none: each is set before it is read).
Begin(u, f, k) ==
    /\ pc[u] = "idle"
    /\ job' = [job EXCEPT ![u] = [file |-> f, key |-> k]]
    /\ seen' = [seen EXCEPT ![u] = {source[f]}]
    /\ answer' = [answer EXCEPT ![u] = "none"]
    /\ size' = [size EXCEPT ![u] = 0]
    /\ hash' = [hash EXCEPT ![u] = source[f]]
    /\ data' = [data EXCEPT ![u] = source[f]]
    /\ offset' = [offset EXCEPT ![u] = 0]
    /\ outcome' = [outcome EXCEPT ![u] = "error"]
    /\ Goto(u, "lock")
    /\ UNCHANGED <<source, server, lock, doubt, broken, bounds>>

Lock(u) ==
    /\ pc[u] = "lock"
    /\ lock[LockOf[Key(u)]] = Nobody
    /\ lock' = [lock EXCEPT ![LockOf[Key(u)]] = u]
    /\ Goto(u, "stat")
    /\ UNCHANGED <<source, server, call, outcome, answer, ghosts, bounds>>

Stat(u) ==
    /\ pc[u] = "stat"
    /\ size' = [size EXCEPT ![u] = Len(source[File(u)])]
    /\ Goto(u, "hash")
    /\ UNCHANGED <<source, server, lock, job, hash, data, offset, outcome,
                   answer, ghosts, bounds>>

Hash(u) ==
    /\ pc[u] = "hash"
    /\ hash' = [hash EXCEPT ![u] = source[File(u)]]
    /\ Goto(u, "check")
    /\ UNCHANGED <<source, server, lock, job, size, data, offset, outcome,
                   answer, ghosts, bounds>>

\* What a temporary file of d blocks is worth: all, a part, or nothing.
Whole(u, d)   == EnableResume /\ d # Absent /\ Len(d) = size[u]
Partial(u, d) == EnableResume /\ d # Absent /\ Len(d) > 0 /\ Len(d) < size[u]

\* Two measures of the source that disagree: the temporary file is taken to be
\* complete by the size of another content than the one hashed, ...
SizeDoubt(u) == doubt' = IF Whole(u, Temp(u)) /\ size[u] # Len(hash[u])
                         THEN doubt \cup {Pair(u)} ELSE doubt

\* ... or it is written from another content than the one hashed.  A temporary
\* file begun anew, from the content hashed, is beyond doubt again.
DataDoubt(u) ==
    doubt' = IF source[File(u)] # hash[u] THEN doubt \cup {Pair(u)}
             ELSE IF offset[u] = 0 THEN doubt \ {Pair(u)} ELSE doubt

\* Mutant of Check: a temporary file is taken to be complete.
CheckTrusts(u) ==
    /\ pc[u] = "check"
    /\ offset' = [offset EXCEPT ![u] = 0]
    /\ Goto(u, IF EnableResume /\ Temp(u) # Absent THEN "rename" ELSE "open")
    /\ SizeDoubt(u)
    /\ UNCHANGED <<source, server, lock, job, size, hash, data, outcome,
                   answer, seen, broken, bounds>>

Check(u) ==
    /\ pc[u] = "check"
    /\ offset' = [offset EXCEPT ![u] = IF Partial(u, Temp(u)) THEN Len(Temp(u)) ELSE 0]
    /\ Goto(u, IF Whole(u, Temp(u)) THEN "rename" ELSE "open")
    /\ SizeDoubt(u)
    /\ UNCHANGED <<source, server, lock, job, size, hash, data, outcome,
                   answer, seen, broken, bounds>>

-----------------------------------------------------------------------------
(* uploadWithResume and renameFile.                                        *)

\* Mutant of Open: the resumed source is read from its start.
OpenNoSeek(u) ==
    /\ pc[u] = "open"
    /\ data' = [data EXCEPT ![u] = source[File(u)]]
    /\ offset' = [offset EXCEPT ![u] = 0]
    /\ IF offset[u] > 0 THEN UNCHANGED temp ELSE SetTemp(u, <<>>)
    /\ DataDoubt(u)
    /\ Goto(u, "copy")
    /\ UNCHANGED <<source, final, lock, job, size, hash, outcome, answer,
                   seen, broken, bounds>>

\* The source is opened, and the temporary file to append or anew.
Open(u) ==
    /\ pc[u] = "open"
    /\ data' = [data EXCEPT ![u] = source[File(u)]]
    /\ IF offset[u] > 0 THEN UNCHANGED temp ELSE SetTemp(u, <<>>)
    /\ DataDoubt(u)
    /\ Goto(u, "copy")
    /\ UNCHANGED <<source, final, lock, job, size, hash, offset, outcome,
                   answer, seen, broken, bounds>>

\* copyWithContext writes a block.
Copy(u) ==
    /\ pc[u] = "copy"
    /\ offset[u] < Len(data[u])
    /\ SetTemp(u, Append(Temp(u), data[u][offset[u] + 1]))
    /\ offset' = [offset EXCEPT ![u] = @ + 1]
    /\ UNCHANGED <<source, final, lock, pc, job, size, hash, data, outcome,
                   answer, ghosts, bounds>>

\* The copy is at the end of the source.
Copied(u) ==
    /\ pc[u] = "copy"
    /\ offset[u] >= Len(data[u])
    /\ Goto(u, "rename")
    /\ UNCHANGED <<source, server, lock, call, outcome, answer, ghosts, bounds>>

Move(u) == /\ final' = [final EXCEPT ![Key(u)] = Temp(u)]
           /\ SetTemp(u, Absent)
           /\ broken' = IF Pair(u) \in doubt THEN broken \cup {Key(u)}
                                              ELSE broken \ {Key(u)}
           /\ doubt' = doubt \ {Pair(u)}

Rename(u) ==
    /\ pc[u] = "rename"
    /\ Move(u)
    /\ End(u, "ok")
    /\ UNCHANGED <<source, lock, call, answer, seen, bounds>>

\* Mutant of RenameLost: an error of the rename is not looked at.
RenameLostIsOk(u) ==
    /\ pc[u] = "rename"
    /\ Trouble
    /\ End(u, "ok")
    /\ UNCHANGED <<source, server, lock, call, answer, ghosts>>

\* The rename happens, its reply is lost.
RenameLost(u) ==
    /\ pc[u] = "rename"
    /\ Trouble
    /\ Move(u)
    /\ End(u, "lost")
    /\ UNCHANGED <<source, lock, call, answer, seen>>

\* A step fails.
Fails(u) ==
    /\ pc[u] \in {"stat", "hash", "check", "open", "copy", "rename"}
    /\ Trouble
    /\ End(u, "error")
    /\ UNCHANGED <<source, server, lock, call, answer, ghosts>>

\* Mutant of Return: the lock is kept when the upload failed.
ReturnKeepsLock(u) ==
    /\ pc[u] = "return"
    /\ answer' = [answer EXCEPT ![u] = IF outcome[u] = "ok" THEN "ok" ELSE "error"]
    /\ IF outcome[u] = "ok" THEN lock' = [lock EXCEPT ![LockOf[Key(u)]] = Nobody]
                            ELSE UNCHANGED lock
    /\ Goto(u, "idle")
    /\ UNCHANGED <<source, server, call, outcome, ghosts, bounds>>

\* The deferred unlock, and the return.
Return(u) ==
    /\ pc[u] = "return"
    /\ answer' = [answer EXCEPT ![u] = IF outcome[u] = "ok" THEN "ok" ELSE "error"]
    /\ lock' = [lock EXCEPT ![LockOf[Key(u)]] = Nobody]
    /\ Goto(u, "idle")
    /\ UNCHANGED <<source, server, call, outcome, ghosts, bounds>>

-----------------------------------------------------------------------------
(* The environment.                                                        *)

\* A source is replaced by another file.
Replace(f, c) ==
    /\ replaced < MaxReplaced
    /\ c # source[f]
    /\ source' = [source EXCEPT ![f] = c]
    /\ seen' = [u \in Uploaders |->
                   IF pc[u] # "idle" /\ File(u) = f THEN seen[u] \cup {c}
                                                    ELSE seen[u]]
    /\ replaced' = replaced + 1
    /\ UNCHANGED <<server, lock, pc, call, outcome, answer, doubt, broken, faults>>

\* The daemon dies: its locks go with it.
Crash ==
    /\ \E u \in Uploaders : pc[u] # "idle"
    /\ Trouble
    /\ lock' = [l \in Locks |-> Nobody]
    /\ pc' = [u \in Uploaders |-> "idle"]
    /\ answer' = [u \in Uploaders |-> "none"]
    /\ UNCHANGED <<source, server, call, outcome, ghosts>>

\* A step of a call that does not fail.
Progress(u) == \/ Stat(u) \/ Hash(u) \/ Check(u) \/ Open(u) \/ Copy(u)
               \/ Copied(u) \/ Rename(u) \/ Return(u)

Next == \/ \E u \in Uploaders : \/ \E f \in Files, k \in Keys : Begin(u, f, k)
                                \/ Lock(u) \/ Progress(u)
                                \/ RenameLost(u) \/ Fails(u)
        \/ \E f \in Files, c \in Contents : Replace(f, c)
        \/ Crash

Spec == Init /\ [][Next]_vars

\* A goroutine runs, a call to the server ends, and a mutex lets no waiter
\* starve (Go's starvation mode).
FairSpec == /\ Spec
            /\ \A u \in Uploaders : WF_vars(Progress(u)) /\ SF_vars(Lock(u))

-----------------------------------------------------------------------------
(* Properties.                                                             *)

TypeOK == /\ source \in [Files -> Contents]
          /\ final \in [Keys -> Seq(Blocks) \cup {Absent}]
          /\ temp \in [Keys -> [Contents -> Seq(Blocks) \cup {Absent}]]
          /\ lock \in [Locks -> Uploaders \cup {Nobody}]
          /\ pc \in [Uploaders -> CallPCs]
          /\ job \in [Uploaders -> [file : Files, key : Keys]]
          /\ size \in [Uploaders -> Nat]
          /\ hash \in [Uploaders -> Contents]
          /\ data \in [Uploaders -> Contents]
          /\ offset \in [Uploaders -> Nat]
          /\ outcome \in [Uploaders -> {"ok", "error", "lost"}]
          /\ answer \in [Uploaders -> {"none", "ok", "error"}]
          /\ seen \in [Uploaders -> SUBSET Contents]
          /\ doubt \subseteq Keys \X Contents
          /\ broken \subseteq Keys
          /\ faults \in 0..MaxFaults
          /\ replaced \in 0..MaxReplaced

Prefix(d, c) == /\ Len(d) <= Len(c)
                /\ \A i \in 1..Len(d) : d[i] = c[i]

\* Interrupted, resumed and concurrent uploads never leave a target that is a
\* part of a content or a mixture of two, unless the last upload renamed a
\* temporary file in doubt; the next one that does not makes it whole again
\* (sftpbackend.go:138-156).
WholeObjects == \A k \in Keys \ broken : final[k] \in Contents \cup {Absent}

\* What an interrupted upload leaves behind under a hash can be resumed: it is
\* a beginning of the content with that hash (sftpbackend.go:140-146), unless
\* a source changed between its hash and its opening (sftpbackend.go:128 and 227).
TempsResume ==
    \A k \in Keys, c \in Contents :
        <<k, c>> \notin doubt /\ temp[k][c] # Absent => Prefix(temp[k][c], c)

\* UploadFile implements an atomic put.
phase == [u \in Uploaders |->
             CASE pc[u] = "idle" -> "idle"
               [] pc[u] = "return" /\ outcome[u] # "error" -> "stored"
               [] OTHER -> "busy"]

Abstract == INSTANCE AtomicStore WITH Data <- Seq(Blocks), store <- final

\* Every call stores a content its source had during the call in one step or
\* nothing, answers success only if it did, and touches no other target.  Only
\* a call whose source changes while it runs casts doubt on a temporary file,
\* and only what is stored from such a file may be anything else.
AtomicUploads == Abstract!Spec

\* Every call returns and gives its lock back, also to the waiters behind it.
UploadsReturn == \A u \in Uploaders : (pc[u] # "idle") ~> (pc[u] = "idle")
=============================================================================
