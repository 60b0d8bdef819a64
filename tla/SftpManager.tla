------------------------------ MODULE SftpManager ------------------------------
(***************************************************************************)
(* The connection manager of pkg/storage/sftp_manager.go: one connection   *)
(* (SFTPConn) shared by all the SFTP backend's operations, and for every   *)
(* connection a goroutine, handleReconnects, that watches its SSH link and *)
(* replaces a lost one.                                                    *)
(*                                                                         *)
(* A connection outlives its links: a reconnect gives the same SFTPConn a  *)
(* new link.  A failed reconnect panics, which ends the daemon; systemd    *)
(* starts it again (module.nix:89).  Go collects a closed connection that  *)
(* nobody refers to, so a member of Conns stands for many connections one  *)
(* after the other; Conns bounds those alive at a time.                    *)
(*                                                                         *)
(* The SSH and SFTP handshakes of a dial are one step, which succeeds or   *)
(* fails.  The daemon never calls Close; the interface has it.             *)
(***************************************************************************)
EXTENDS Naturals

CONSTANTS
    Callers,    \* goroutines that call GetConnection
    Conns,      \* connections alive at a time
    None        \* no connection, and nobody

ASSUME SftpManagerAssumption == None \notin Callers \cup Conns

VARIABLES
    conn,       \* m.conn
    mutex,      \* holder of connMutex
    pc,         \* "idle", "new" (about to call NewClient), "dial"
    closed,     \* connections with closed set
    shutdown,   \* messages in the shutdown channel of each connection
    up,         \* connections whose current SSH link works
    monitor     \* handleReconnects of each connection; "none": not made yet

vars == <<conn, mutex, pc, closed, shutdown, up, monitor>>

Init == /\ conn = None
        /\ mutex = None
        /\ pc = [p \in Callers |-> "idle"]
        /\ closed = {}
        /\ shutdown = [c \in Conns |-> 0]
        /\ up = {}
        /\ monitor = [c \in Conns |-> "none"]

Goto(p, label)  == pc' = [pc EXCEPT ![p] = label]
Watch(c, label) == monitor' = [monitor EXCEPT ![c] = label]

\* The manager's connection, if it has one.
Managed == {conn} \ {None}

-----------------------------------------------------------------------------
(* SFTPConn.Close of the connections C: the lock of a connection makes it  *)
(* one step.  It waits for the link to end, which it has closed.           *)

\* Mutant of CloseConns: a connection closed before is closed again.
CloseAgain(C) ==
    /\ closed' = closed \cup C
    /\ shutdown' = [c \in Conns |-> IF c \in C THEN shutdown[c] + 1
                                               ELSE shutdown[c]]
    /\ up' = up \ C

\* Mutant of CloseConns: the link is closed, the monitor is not told.
CloseUntold(C) ==
    /\ closed' = closed \cup C
    /\ up' = up \ (C \ closed)
    /\ UNCHANGED shutdown

CloseConns(C) ==
    /\ closed' = closed \cup C
    /\ shutdown' = [c \in Conns |-> IF c \in C \ closed THEN shutdown[c] + 1
                                                        ELSE shutdown[c]]
    /\ up' = up \ (C \ closed)

-----------------------------------------------------------------------------
(* GetConnection and NewClient.                                            *)

\* The caller reads m.conn under the lock, and unlocks if there is none.
GetConnection(p) ==
    /\ pc[p] = "idle"
    /\ mutex = None
    /\ Goto(p, IF conn = None THEN "new" ELSE "idle")
    /\ UNCHANGED <<conn, mutex, closed, shutdown, up, monitor>>

\* Mutant of NewClient: the connection another caller made stays open.
NewClientKeepsOld(p) ==
    /\ pc[p] = "new"
    /\ mutex = None
    /\ mutex' = p
    /\ Goto(p, "dial")
    /\ UNCHANGED <<conn, closed, shutdown, up, monitor>>

\* NewClient locks again and closes the connection made in between, if any.
NewClient(p) ==
    /\ pc[p] = "new"
    /\ mutex = None
    /\ mutex' = p
    /\ CloseConns(Managed)
    /\ Goto(p, "dial")
    /\ UNCHANGED <<conn, monitor>>

\* The dial succeeds: a new connection and its monitor.
Connected(p, c) ==
    /\ pc[p] = "dial"
    /\ monitor[c] = "none"
    /\ conn' = c
    /\ Watch(c, "watch")
    /\ up' = up \cup {c}
    /\ mutex' = None
    /\ Goto(p, "idle")
    /\ UNCHANGED <<closed, shutdown>>

\* Mutant of DialFails: the lock is kept on the error path.
DialFailsLocked(p) ==
    /\ pc[p] = "dial"
    /\ Goto(p, "idle")
    /\ UNCHANGED <<conn, mutex, closed, shutdown, up, monitor>>

\* The dial fails: NewClient returns and leaves m.conn as it is.
DialFails(p) ==
    /\ pc[p] = "dial"
    /\ mutex' = None
    /\ Goto(p, "idle")
    /\ UNCHANGED <<conn, closed, shutdown, up, monitor>>

\* Close of the manager.
Close ==
    /\ mutex = None
    /\ conn # None
    /\ CloseConns(Managed)
    /\ conn' = None
    /\ UNCHANGED <<mutex, pc, monitor>>

-----------------------------------------------------------------------------
(* handleReconnects.                                                       *)

\* The server or the network ends the link.
LinkLost(c) ==
    /\ c \in up
    /\ up' = up \ {c}
    /\ UNCHANGED <<conn, mutex, pc, closed, shutdown, monitor>>

\* Mutant of Stopped: the link of a closed connection is left to itself.
StoppedLeavesLink(c) ==
    /\ monitor[c] = "watch"
    /\ shutdown[c] > 0
    /\ shutdown' = [shutdown EXCEPT ![c] = @ - 1]
    /\ Watch(c, "done")
    /\ UNCHANGED <<conn, mutex, pc, closed, up>>

\* The monitor is told to stop and closes the link, which may be a new one.
Stopped(c) ==
    /\ monitor[c] = "watch"
    /\ shutdown[c] > 0
    /\ shutdown' = [shutdown EXCEPT ![c] = @ - 1]
    /\ up' = up \ {c}
    /\ Watch(c, "done")
    /\ UNCHANGED <<conn, mutex, pc, closed>>

\* The monitor sees the link end.  If it was also told to stop, select takes
\* either case.
SeesLoss(c) ==
    /\ monitor[c] = "watch"
    /\ c \notin up
    /\ Watch(c, "dial")
    /\ UNCHANGED <<conn, mutex, pc, closed, shutdown, up>>

\* Mutant of Reconnected: the new link is not watched.
ReconnectedOnce(c) ==
    /\ monitor[c] = "dial"
    /\ up' = up \cup {c}
    /\ Watch(c, "done")
    /\ UNCHANGED <<conn, mutex, pc, closed, shutdown>>

\* The reconnect succeeds and the monitor starts over.
Reconnected(c) ==
    /\ monitor[c] = "dial"
    /\ up' = up \cup {c}
    /\ Watch(c, "watch")
    /\ UNCHANGED <<conn, mutex, pc, closed, shutdown>>

\* The reconnect fails: panic, and the daemon starts anew.
Panics(c) ==
    /\ monitor[c] = "dial"
    /\ conn' = None
    /\ mutex' = None
    /\ pc' = [p \in Callers |-> "idle"]
    /\ closed' = {}
    /\ shutdown' = [d \in Conns |-> 0]
    /\ up' = {}
    /\ monitor' = [d \in Conns |-> "none"]

\* A closed connection is collected when its monitor has ended.
Collect(c) ==
    /\ monitor[c] = "done"
    /\ c # conn
    /\ closed' = closed \ {c}
    /\ Watch(c, "none")
    /\ UNCHANGED <<conn, mutex, pc, shutdown, up>>

-----------------------------------------------------------------------------
CallerNext(p) == \/ GetConnection(p) \/ NewClient(p) \/ DialFails(p)
                 \/ \E c \in Conns : Connected(p, c)

MonitorNext(c) == \/ Stopped(c) \/ SeesLoss(c) \/ Reconnected(c) \/ Panics(c)

Next == \/ \E p \in Callers : CallerNext(p)
        \/ \E c \in Conns : MonitorNext(c) \/ LinkLost(c) \/ Collect(c)
        \/ Close

Spec == Init /\ [][Next]_vars

\* Every goroutine runs and a dial ends: the TCP connect after ConnectionTimeout,
\* the handshake, which has no deadline, when the server answers.  A mutex
\* lets no waiter starve (Go's starvation mode), and select, which chooses at
\* random, does not pass over a ready case for ever.
Fairness ==
    /\ \A p \in Callers :
         /\ SF_vars(NewClient(p))
         /\ WF_vars(DialFails(p) \/ \E c \in Conns : Connected(p, c))
    /\ \A c \in Conns : SF_vars(Stopped(c)) /\ WF_vars(MonitorNext(c))

FairSpec == Spec /\ Fairness

-----------------------------------------------------------------------------
(* Properties.                                                             *)

\* Types; a shutdown channel never needs room for a second message, so Close
\* does not block on it while it holds the connection's lock.
TypeOK == /\ conn \in Conns \cup {None}
          /\ mutex \in Callers \cup {None}
          /\ pc \in [Callers -> {"idle", "new", "dial"}]
          /\ closed \subseteq Conns
          /\ shutdown \in [Conns -> 0..1]
          /\ up \subseteq Conns
          /\ monitor \in [Conns -> {"none", "watch", "dial", "done"}]

Open == {c \in Conns : monitor[c] # "none" /\ c \notin closed}

\* However the first callers race, at most one connection is open, and it is
\* the one the manager hands out (NewClient, sftp_manager.go:206-209).
OneOpen == Open \subseteq Managed

\* An open connection has a monitor that is at work and not told to stop
\* ("ensures the underlying connection reconnects on failure",
\* sftp_manager.go:201).
OpenIsWatched ==
    \A c \in Open : monitor[c] \in {"watch", "dial"} /\ shutdown[c] = 0

\* A connection that nobody watches any more holds no SSH link, also when it
\* was closed while its monitor dialled (sftp_manager.go:160-164).
NoLinkLeaks == \A c \in Conns : monitor[c] \in {"none", "done"} => c \notin up

\* A lost link of an open connection is replaced, unless the connection is
\* closed or the reconnect fails and the daemon starts anew.
LinksRecover ==
    \A c \in Conns :
        (c \in Open /\ c \notin up) ~> (c \in up \/ c \notin Open)

\* The monitor of a closed connection ends.
MonitorsEnd == \A c \in Conns : (c \in closed) ~> (monitor[c] \in {"none", "done"})

\* Every call of GetConnection returns.
CallsReturn == \A p \in Callers : (pc[p] # "idle") ~> (pc[p] = "idle")

\* The connection GetConnection returns is a connection: a closed one is not
\* handed out ("returns the existing connection the manager knows about.  If
\* there is no connection, we create a new one instead", sftp_manager.go:230).
ManagedIsOpen == mutex = None => Managed \subseteq Open
=============================================================================
