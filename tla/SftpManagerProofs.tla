--------------------------- MODULE SftpManagerProofs ---------------------------
(***************************************************************************)
(* Proofs about SftpManager: types, at most one open connection, watched,  *)
(* and no link left behind.                                                *)
(*                                                                         *)
(* The inductive invariant says what the lock protects: while a caller     *)
(* dials it holds connMutex and no connection is open (DialIsAlone), so    *)
(* the one it makes is the only one; and it ties the shutdown message to   *)
(* the life of the monitor (ToldOnce): a closed connection has a message   *)
(* waiting as long as its monitor is at work, and an open one has none.    *)
(***************************************************************************)
EXTENDS SftpManager, TLAPS

\* Types without the bound on the shutdown channel, which needs ToldOnce.
Types == /\ conn \in Conns \cup {None}
         /\ mutex \in Callers \cup {None}
         /\ pc \in [Callers -> {"idle", "new", "dial"}]
         /\ closed \subseteq Conns
         /\ shutdown \in [Conns -> Nat]
         /\ up \subseteq Conns
         /\ monitor \in [Conns -> {"none", "watch", "dial", "done"}]

\* A dialling caller holds connMutex.
DialHasMutex == \A p \in Callers : pc[p] = "dial" => mutex = p

\* While a caller dials no connection is open.
DialIsAlone == \A p \in Callers : pc[p] = "dial" => Open = {}

\* The shutdown message of a connection that is not open any more is there as
\* long as its monitor can take it.
ToldOnce ==
    \A c \in Conns :
        shutdown[c] = IF c \in closed /\ monitor[c] \in {"watch", "dial"} THEN 1 ELSE 0

\* The monitor of an open connection is at work, and the manager's connection
\* and the closed ones have been made.
MonitorsMade ==
    /\ \A c \in Conns : c \in closed => monitor[c] # "none"
    /\ \A c \in Conns : monitor[c] = "done" => c \in closed
    /\ \A c \in Managed : monitor[c] # "none"

IInv == Types /\ DialHasMutex /\ DialIsAlone /\ ToldOnce /\ MonitorsMade
        /\ OneOpen /\ NoLinkLeaks

LEMMA InitInvariant == Init => IInv
  BY SftpManagerAssumption
  DEF Init, IInv, Types, DialHasMutex, DialIsAlone, ToldOnce, MonitorsMade,
      OneOpen, NoLinkLeaks, Open, Managed

\* Closing the manager's connection leaves none open, and tells its monitor.
LEMMA CloseLeavesNoneOpen ==
  ASSUME IInv, CloseConns(Managed), monitor' = monitor
  PROVE  /\ Open' = {}
         /\ closed' \subseteq Conns
         /\ up' \subseteq up
         /\ shutdown' \in [Conns -> Nat]
         /\ ToldOnce'
         /\ \A c \in Conns : c \in closed' => monitor[c] # "none"
         /\ closed \subseteq closed'
  <1> USE SftpManagerAssumption DEF IInv, Types, CloseConns, Managed
  <1>1. closed' \subseteq Conns /\ up' \subseteq up /\ closed \subseteq closed'
    OBVIOUS
  <1>2. Open' = {}
    BY DEF OneOpen, Open
  <1>3. shutdown' \in [Conns -> Nat]
    OBVIOUS
  <1>4. \A c \in Conns : c \in closed' => monitor[c] # "none"
    BY DEF MonitorsMade
  <1>5. ToldOnce'
    BY DEF ToldOnce, MonitorsMade
  <1> QED BY <1>1, <1>2, <1>3, <1>4, <1>5

LEMMA NextInvariant == IInv /\ [Next]_vars => IInv'
  <1> SUFFICES ASSUME IInv, [Next]_vars PROVE IInv'
    OBVIOUS
  <1> USE SftpManagerAssumption DEF IInv
  <1>1. ASSUME NEW p \in Callers, GetConnection(p) PROVE IInv'
    BY <1>1 DEF GetConnection, Goto, Types, DialHasMutex, DialIsAlone, ToldOnce,
                MonitorsMade, OneOpen, NoLinkLeaks, Open, Managed
  <1>2. ASSUME NEW p \in Callers, NewClient(p) PROVE IInv'
    <2>1. /\ Open' = {} /\ closed' \subseteq Conns /\ up' \subseteq up
          /\ shutdown' \in [Conns -> Nat] /\ ToldOnce'
          /\ \A c \in Conns : c \in closed' => monitor[c] # "none"
          /\ closed \subseteq closed'
      BY <1>2, CloseLeavesNoneOpen DEF NewClient
    <2>2. Types'
      BY <1>2, <2>1 DEF NewClient, Goto, Types
    <2>3. DialHasMutex' /\ DialIsAlone'
      BY <1>2, <2>1 DEF NewClient, Goto, Types, DialHasMutex, DialIsAlone
    <2>4. MonitorsMade' /\ OneOpen' /\ NoLinkLeaks'
      BY <1>2, <2>1 DEF NewClient, MonitorsMade, OneOpen, NoLinkLeaks, Managed
    <2> QED BY <2>1, <2>2, <2>3, <2>4
  <1>3. ASSUME NEW p \in Callers, NEW c \in Conns, Connected(p, c) PROVE IInv'
    <2>1. \A q \in Callers : pc'[q] # "dial"
      BY <1>3 DEF Connected, Goto, Types, DialHasMutex
    <2>2. Types'
      BY <1>3 DEF Connected, Goto, Watch, Types
    <2>3. c \notin closed
      BY <1>3 DEF Connected, MonitorsMade
    <2>4. OneOpen'
      BY <1>3 DEF Connected, Watch, Types, OneOpen, Open, Managed, DialIsAlone
    <2>5. ToldOnce'
      BY <1>3, <2>3 DEF Connected, Watch, Types, ToldOnce
    <2>6. MonitorsMade' /\ NoLinkLeaks'
      BY <1>3, <2>3 DEF Connected, Watch, Types, MonitorsMade, NoLinkLeaks, Managed
    <2> QED BY <2>1, <2>2, <2>4, <2>5, <2>6 DEF DialHasMutex, DialIsAlone
  <1>4. ASSUME NEW p \in Callers, DialFails(p) PROVE IInv'
    BY <1>4 DEF DialFails, Goto, Types, DialHasMutex, DialIsAlone, ToldOnce,
                MonitorsMade, OneOpen, NoLinkLeaks, Open, Managed
  <1>5. CASE Close
    <2>1. /\ Open' = {} /\ closed' \subseteq Conns /\ up' \subseteq up
          /\ shutdown' \in [Conns -> Nat] /\ ToldOnce'
          /\ \A c \in Conns : c \in closed' => monitor[c] # "none"
          /\ closed \subseteq closed'
      BY <1>5, CloseLeavesNoneOpen DEF Close
    <2>2. Types' /\ DialHasMutex' /\ DialIsAlone'
      BY <1>5, <2>1 DEF Close, Types, DialHasMutex, DialIsAlone
    <2>3. MonitorsMade' /\ OneOpen' /\ NoLinkLeaks'
      BY <1>5, <2>1 DEF Close, MonitorsMade, OneOpen, NoLinkLeaks, Managed
    <2> QED BY <2>1, <2>2, <2>3
  <1>6. ASSUME NEW c \in Conns, LinkLost(c) PROVE IInv'
    BY <1>6 DEF LinkLost, Types, DialHasMutex, DialIsAlone, ToldOnce,
                MonitorsMade, OneOpen, NoLinkLeaks, Open, Managed
  <1>7. ASSUME NEW c \in Conns, Stopped(c) PROVE IInv'
    <2>1. c \in closed /\ shutdown[c] = 1 /\ shutdown'[c] = 0
      BY <1>7 DEF Stopped, Types, ToldOnce
    <2>2. Types'
      BY <1>7, <2>1 DEF Stopped, Watch, Types
    <2>3. Open' = Open
      BY <1>7, <2>1 DEF Stopped, Watch, Types, Open
    <2>4. ToldOnce'
      BY <1>7, <2>1 DEF Stopped, Watch, Types, ToldOnce
    <2>5. MonitorsMade' /\ NoLinkLeaks'
      BY <1>7, <2>1 DEF Stopped, Watch, Types, MonitorsMade, NoLinkLeaks, Managed
    <2> QED
      BY <1>7, <2>2, <2>3, <2>4, <2>5
      DEF Stopped, DialHasMutex, DialIsAlone, OneOpen, Managed
  <1>8. ASSUME NEW c \in Conns, SeesLoss(c) PROVE IInv'
    BY <1>8 DEF SeesLoss, Watch, Types, DialHasMutex, DialIsAlone, ToldOnce,
                MonitorsMade, OneOpen, NoLinkLeaks, Open, Managed
  <1>9. ASSUME NEW c \in Conns, Reconnected(c) PROVE IInv'
    BY <1>9 DEF Reconnected, Watch, Types, DialHasMutex, DialIsAlone, ToldOnce,
                MonitorsMade, OneOpen, NoLinkLeaks, Open, Managed
  <1>10. ASSUME NEW c \in Conns, Panics(c) PROVE IInv'
    BY <1>10 DEF Panics, Types, DialHasMutex, DialIsAlone, ToldOnce,
                 MonitorsMade, OneOpen, NoLinkLeaks, Open, Managed
  <1>11. ASSUME NEW c \in Conns, Collect(c) PROVE IInv'
    <2>1. Types'
      BY <1>11 DEF Collect, Watch, Types
    <2>2. Open' = Open
      BY <1>11 DEF Collect, Watch, Types, Open, MonitorsMade
    <2>3. ToldOnce' /\ NoLinkLeaks'
      BY <1>11 DEF Collect, Watch, Types, ToldOnce, NoLinkLeaks
    <2>4. MonitorsMade'
      BY <1>11 DEF Collect, Watch, Types, MonitorsMade, Managed
    <2> QED
      BY <1>11, <2>1, <2>2, <2>3, <2>4
      DEF Collect, DialHasMutex, DialIsAlone, OneOpen, Managed
  <1>12. CASE UNCHANGED vars
    BY <1>12 DEF vars, Types, DialHasMutex, DialIsAlone, ToldOnce,
                 MonitorsMade, OneOpen, NoLinkLeaks, Open, Managed
  <1> QED
    BY <1>1, <1>2, <1>3, <1>4, <1>5, <1>6, <1>7, <1>8, <1>9, <1>10, <1>11, <1>12
    DEF Next, CallerNext, MonitorNext

LEMMA Invariant == Spec => []IInv
  BY InitInvariant, NextInvariant, PTL DEF Spec

\* Types, and a Close never waits for room in the shutdown channel, whatever
\* the number of callers, connections and lost links.
THEOREM TypeCorrect == Spec => []TypeOK
  <1>1. IInv => TypeOK
    BY DEF IInv, Types, ToldOnce, TypeOK
  <1> QED BY <1>1, Invariant, PTL

\* The race of first callers and every other history end with one open
\* connection at most, the manager's.
THEOREM ConnectionsAreUnique == Spec => []OneOpen
  <1>1. IInv => OneOpen
    BY DEF IInv
  <1> QED BY <1>1, Invariant, PTL

\* An open connection always has a monitor that will replace a lost link.
THEOREM OpenConnectionsAreWatched == Spec => []OpenIsWatched
  <1>1. IInv => OpenIsWatched
    BY DEF IInv, Types, ToldOnce, MonitorsMade, OpenIsWatched, Open
  <1> QED BY <1>1, Invariant, PTL

\* No SSH link outlives the monitor that could close it.
THEOREM LinksAreReleased == Spec => []NoLinkLeaks
  <1>1. IInv => NoLinkLeaks
    BY DEF IInv
  <1> QED BY <1>1, Invariant, PTL
=============================================================================
