---------------------------- MODULE TcpListening ----------------------------
(***************************************************************************)
(* The listeners of TcpListening.cpp, as the children of one process: each *)
(* accepts the connections to its port and queues their descriptors in     *)
(* ppPeerFd, from where the parent takes them.  Who waits in which queue   *)
(* is the position of the connection; the order of a queue makes no        *)
(* difference here.  Also: the stages of a process that its parent drives, *)
(* treeTick() of Processing.cpp with one step per tick.                    *)
(***************************************************************************)
EXTENDS Naturals, FiniteSets

CONSTANTS
  Conns,        \* the connections of one program run
  Kind,         \* the port each of them goes to
  Fam,          \* its address family
  MaxConn,      \* mMaxConn of each listener
  CntSkipMax,   \* dCntSkipMax
  MayFail       \* pairs of kind and family: sockets that may not be created

Kinds == {"proc", "log", "cmd", "auto"}
Fams  == {"v4", "v6"}

ASSUME ListeningAssumption ==
  /\ IsFiniteSet(Conns)
  /\ Kind \in [Conns -> Kinds] /\ Fam \in [Conns -> Fams]
  /\ MaxConn \in [Kinds -> Nat \ {0}]
  /\ CntSkipMax \in Nat \ {0}
  /\ MayFail \subseteq Kinds \X Fams

VARIABLES
  lst,          \* the listener of each kind, as a process
  open,         \* its listening sockets: mFdLstIPv4, mFdLstIPv6
  cntSkip,      \* mCntSkip
  at,           \* where each connection is
  fd            \* its descriptor in this program

lstVars == <<lst, open, cntSkip, at, fd>>

-----------------------------------------------------------------------------
(***************************************************************************)
(* A process and its ticks.                                                *)
(***************************************************************************)
Stages == {"none", "Existent", "Initializing", "Processing", "DownShutting",
           "ChildrenUnusedSet", "FinishedPrepare", "Finished", "deleted"}

\* begun: the first call of process() is done; over: success() # Pending.
Process == [stage : Stages, canceled : BOOLEAN, unused : BOOLEAN,
            begun : BOOLEAN, over : BOOLEAN]

Absent == [stage |-> "none", canceled |-> FALSE, unused |-> FALSE,
           begun |-> FALSE, over |-> FALSE]
Created == [Absent EXCEPT !.stage = "Existent"]

\* treeTick() calls process() of p.
CallsProcess(p) == p.stage = "Processing" /\ ~p.canceled

\* p after its switch in treeTick(); ends: process() did not return Pending.
Ticked(p, ends) ==
  CASE p.stage = "Existent" ->
         [p EXCEPT !.stage = IF p.canceled THEN "FinishedPrepare"
                                           ELSE "Initializing"]
    [] p.stage = "Initializing" ->
         [p EXCEPT !.stage = IF p.canceled THEN "DownShutting"
                                           ELSE "Processing"]
    [] p.stage = "Processing" ->
         IF p.canceled THEN [p EXCEPT !.stage = "DownShutting"]
         ELSE IF ends
         THEN [p EXCEPT !.stage = "DownShutting", !.begun = TRUE, !.over = TRUE]
         ELSE [p EXCEPT !.begun = TRUE]
    [] p.stage = "DownShutting"      -> [p EXCEPT !.stage = "ChildrenUnusedSet"]
    [] p.stage = "ChildrenUnusedSet" -> [p EXCEPT !.stage = "FinishedPrepare"]
    [] p.stage = "FinishedPrepare"   -> [p EXCEPT !.stage = "Finished"]
    [] OTHER -> p

\* The parent removes a child that has finished, together with its own
\* children, and that nobody uses.
Swept(p, childless) ==
  IF p.stage = "Finished" /\ childless /\ p.unused
  THEN [Absent EXCEPT !.stage = "deleted"] ELSE p

UnusedSet(p) ==
  IF p.stage \in {"none", "deleted"} THEN p
  ELSE [p EXCEPT !.canceled = TRUE, !.unused = TRUE]

-----------------------------------------------------------------------------
TypeListening ==
  /\ lst \in [Kinds -> Process]
  /\ open \in [Kinds -> SUBSET Fams]
  /\ cntSkip \in [Kinds -> 0 .. CntSkipMax - 1]
  /\ at \in [Conns -> {"away", "backlog", "pipe", "peer", "dropped"}]
  /\ fd \in [Conns -> {"none", "open", "closed"}]
  /\ \A k \in Kinds :
       Cardinality({c \in Conns : at[c] = "pipe" /\ Kind[c] = k}) <= MaxConn[k]

InitListening ==
  /\ lst = [k \in Kinds |-> Absent]
  /\ open = [k \in Kinds |-> {}]
  /\ cntSkip = [k \in Kinds |-> 0]
  /\ at = [c \in Conns |-> "away"]
  /\ fd = [c \in Conns |-> "none"]

In(place, k) == {c \in Conns : at[c] = place /\ Kind[c] = k}

\* A peer connects: the kernel queues it, if the port is open.
PeerConnects(c) ==
  /\ at[c] = "away" /\ Fam[c] \in open[Kind[c]]
  /\ at' = [at EXCEPT ![c] = "backlog"]
  /\ UNCHANGED <<lst, open, cntSkip, fd>>

-----------------------------------------------------------------------------
(***************************************************************************)
(* process() of the listeners.                                             *)
(***************************************************************************)
Starts(k) == CallsProcess(lst[k]) /\ ~lst[k].begun
\* Accepts the connections, every CntSkipMax ticks.
Looks(k)  == CallsProcess(lst[k]) /\ lst[k].begun /\ cntSkip[k] + 1 = CntSkipMax

\* socketCreate(): up is what the kernel allows.  Without IPv4 the listener
\* fails, and has not tried IPv6; without IPv6 it goes on.
socketsCreated(k, up) ==
  IF <<k, "v4">> \in up THEN {f \in Fams : <<k, f>> \in up} ELSE {}

Less(x, y) == IF x < y THEN x ELSE y
Size(S) == Cardinality(S)

\* Mutant: the length of the queue is not looked at.
connectionsAccept_NoLimit(k, taken, drop) ==
  taken = {c \in In("backlog", k) : Fam[c] \in open[k]} /\ drop = {}

\* connectionsAccept() until there is nothing more, for IPv4 and then IPv6:
\* what finds the queue full is dropped, and ends the loop.
connectionsAccept(k, taken, drop) ==
  LET waiting(f) == {c \in In("backlog", k) : Fam[c] = f /\ f \in open[k]}
      queued(f)  == Size(In("pipe", k))
                      + (IF f = "v6" THEN Size(taken \cap waiting("v4")) ELSE 0)
      room(f)    == MaxConn[k] - Less(queued(f), MaxConn[k])
  IN /\ taken \cup drop \subseteq waiting("v4") \cup waiting("v6")
     /\ taken \cap drop = {}
     /\ \A f \in Fams :
          /\ Size(taken \cap waiting(f)) = Less(Size(waiting(f)), room(f))
          /\ Size(drop \cap waiting(f)) =
               IF Size(waiting(f)) > room(f) THEN 1 ELSE 0

\* Mutant: the queued descriptors are left open.
ShutdownCloses_SocketsOnly == {}

\* shutdown() closes what is in the queue.
ShutdownCloses ==
  {c \in Conns : at[c] = "pipe" /\ lst[Kind[c]].stage = "DownShutting"}

\* One tick of every listener, but for the descriptors; closing a port drops who
\* waits there.
ListenersTick(up, taken, drop) ==
  LET closing == {k \in Kinds : lst[k].stage = "DownShutting"}
      refused == {c \in Conns : at[c] = "backlog" /\ Kind[c] \in closing}
  IN
  /\ \A k \in Kinds :
       IF Looks(k)
       THEN connectionsAccept(k, {c \in taken : Kind[c] = k},
                                 {c \in drop : Kind[c] = k})
       ELSE \A c \in taken \cup drop : Kind[c] # k
  /\ lst' = [k \in Kinds |->
       Swept(Ticked(lst[k], Starts(k) /\ <<k, "v4">> \notin up), TRUE)]
  /\ open' = [k \in Kinds |->
       IF Starts(k) THEN socketsCreated(k, up)
       ELSE IF k \in closing THEN {} ELSE open[k]]
  /\ cntSkip' = [k \in Kinds |->
       IF CallsProcess(lst[k]) /\ lst[k].begun
       THEN (cntSkip[k] + 1) % CntSkipMax ELSE cntSkip[k]]
  /\ at' = [c \in Conns |->
       IF c \in taken THEN "pipe"
       ELSE IF c \in drop \cup refused \cup ShutdownCloses THEN "dropped"
       ELSE at[c]]

\* The descriptors after that.
FdAccepted(taken, drop) == [c \in Conns |->
  IF c \in taken THEN "open"
  ELSE IF c \in drop \cup ShutdownCloses THEN "closed" ELSE fd[c]]
=============================================================================
