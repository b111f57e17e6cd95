-------------------------- MODULE SystemDebugging --------------------------
(***************************************************************************)
(* The debugging server of the desktop build, SystemDebugging.cpp: four    *)
(* listeners, a process for each connection they accept, and what is sent  *)
(* to the peers, the process tree and the log.  One driver ticks all of    *)
(* them: the listeners, then the processes of the connections, then the    *)
(* server itself.  Peers, other threads that log, the process tree and the *)
(* clock change between its steps.                                         *)
(*                                                                         *)
(* A connection to the ports "proc" and "log" has a TcpTransfering as a    *)
(* child of the server, one to "cmd" and "auto" a SystemCommanding that    *)
(* creates its own TcpTransfering.                                         *)
(***************************************************************************)
EXTENDS TcpListening, Sequences

CONSTANTS
  Stalls,       \* connections whose peer may stop to read
  Runs          \* what may happen in one run of the program: the connections,
                \* how many entries are logged elsewhere, states of the tree

ASSUME DebuggingAssumption ==
  /\ Stalls \subseteq Conns
  /\ \A r \in Runs : r.conns \subseteq Conns /\ r.entries \in Nat
                      /\ r.trees \in Nat \ {0}

VARIABLES
  server,               \* the process, and the position of its driver
  pc,
  trans, mDone,         \* TcpTransfering of each connection, doneSet()
  commander,            \* SystemCommanding
  mPeerList, mPeerLogOnceConnected,
  mProcTree, mProcTreeChanged, mProcTreePeerAdded, due,
  qLogEntries, msg,     \* the log queue, the entry taken from it
  listening,            \* entryLogCreateSet() was called
  net,                  \* state of the peers; quit: Ctrl-C or Ctrl-D typed
  tree, logged,         \* state of the process tree, entries logged
  shown, heard,         \* what the peers have got
  may,                  \* the element of Runs: bounds of the environment
  owed                  \* history: peers that must get the marked entry

srvVars  == <<server, pc>>
procVars == <<trans, mDone, commander>>
peerVars == <<mPeerList, mPeerLogOnceConnected>>
treeVars == <<mProcTree, mProcTreeChanged, mProcTreePeerAdded, due>>
logVars  == <<qLogEntries, msg, listening, logged, owed>>
envVars  == <<net, tree, may>>
outVars  == <<shown, heard>>
vars == <<lstVars, srvVars, procVars, peerVars, treeVars, logVars, envVars,
          outVars>>

Commanded(c) == Kind[c] \in {"cmd", "auto"}
Peers(k) == {c \in mPeerList : Kind[c] = k}

TypeOK ==
  /\ TypeListening
  /\ server \in Process
  /\ pc \in {"idle", "own", "tree", "log", "send"}
  /\ trans \in [Conns -> Process] /\ mDone \in [Conns -> BOOLEAN]
  /\ commander \in [Conns -> Process]
  /\ mPeerList \subseteq {c \in Conns : Kind[c] \in {"proc", "log"}}
  /\ {mPeerLogOnceConnected, mProcTreeChanged, mProcTreePeerAdded, due,
      listening} \subseteq BOOLEAN
  /\ mProcTree \in 0 .. tree /\ tree \in 1 .. may.trees
  /\ may \in Runs
  /\ \A i \in DOMAIN qLogEntries : qLogEntries[i] \in {"entry", "marked"}
  /\ msg \in {"none", "entry", "marked"}
  /\ logged \in 0 .. may.entries
  /\ net \in [Conns -> {"open", "stalled", "quit", "gone"}]
  /\ shown \in [Conns -> 0 .. tree]
  /\ heard \cup owed \subseteq {c \in Conns : Kind[c] = "log"}

Init ==
  /\ InitListening /\ may \in Runs
  /\ server = Created /\ pc = "idle"
  /\ trans = [c \in Conns |-> Absent] /\ mDone = [c \in Conns |-> FALSE]
  /\ commander = [c \in Conns |-> Absent]
  /\ mPeerList = {} /\ mPeerLogOnceConnected = FALSE
  /\ mProcTree = 0 /\ tree = 1
  /\ mProcTreeChanged = FALSE /\ mProcTreePeerAdded = FALSE /\ due = FALSE
  /\ qLogEntries = << >> /\ msg = "none" /\ listening = FALSE /\ logged = 0
  /\ net = [c \in Conns |-> "open"]
  /\ shown = [c \in Conns |-> 0] /\ heard = {} /\ owed = {}

-----------------------------------------------------------------------------
(***************************************************************************)
(* A tick of the children.                                                 *)
(***************************************************************************)

\* process() of a TcpTransfering finds the connection closed or done.  The
\* kernel accepts the options of a connected socket (socketOptionsSet()).
TransEnds(c) ==
  \/ fd[c] = "closed"
  \/ trans[c].begun /\ (mDone[c] \/ net[c] = "gone")

\* The descriptor is closed by the look at a connection that is gone, and by
\* shutdown().
TransCloses(c) ==
  \/ trans[c].stage = "DownShutting"
  \/ CallsProcess(trans[c]) /\ trans[c].begun /\ ~mDone[c]
       /\ net[c] = "gone"

TransTicked(c) == Ticked(trans[c], TransEnds(c))

\* SystemCommanding creates its TcpTransfering at its first call, asks it to
\* end when it shuts down, and marks it afterwards.
CommandedTrans(c) ==
  LET sc == commander[c]
      t == TransTicked(c) IN
  IF CallsProcess(sc) /\ ~sc.begun THEN Created
  ELSE IF sc.stage = "ChildrenUnusedSet" THEN UnusedSet(t)
  ELSE Swept(t, TRUE)

\* ... it ends when the connection does, or when the user wants; it was told
\* to be repelled when finished.
CommanderTicked(c, leaves) ==
  LET sc == commander[c]
      next == Ticked(sc, sc.begun /\ (leaves \/ TransTicked(c).over)) IN
  Swept(IF sc.stage = "FinishedPrepare" THEN UnusedSet(next) ELSE next,
        CommandedTrans(c).stage \in {"none", "deleted"})

\* The listeners, then the processes of the connections.  leave: the users who
\* leave their command line; failed: sockets that cannot be created.
ChildrenTick(leave, failed, taken, drop) ==
  /\ pc = "idle" /\ server.stage # "deleted"
  /\ pc' = "own"
  /\ ListenersTick((Kinds \X Fams) \ failed, taken, drop)
  /\ trans' = [c \in Conns |->
       IF Commanded(c) THEN CommandedTrans(c) ELSE Swept(TransTicked(c), TRUE)]
  /\ commander' = [c \in Conns |-> CommanderTicked(c, c \in leave)]
  /\ mDone' = [c \in Conns |-> mDone[c] \/
       (commander[c].stage = "DownShutting" /\ trans[c].stage # "none")]
  /\ fd' = [c \in Conns |->
       IF TransCloses(c) THEN "closed" ELSE FdAccepted(taken, drop)[c]]
  /\ UNCHANGED <<server, peerVars, treeVars, logVars, envVars, outVars>>

-----------------------------------------------------------------------------
(***************************************************************************)
(* The server's own step.                                                  *)
(***************************************************************************)
Childless ==
  /\ \A k \in Kinds : lst[k].stage \in {"none", "deleted"}
  /\ \A c \in Conns : trans[c].stage \in {"none", "deleted"}
                        /\ commander[c].stage \in {"none", "deleted"}

\* treeTick() when process() is not called.
OwnStep ==
  /\ pc = "own" /\ ~CallsProcess(server)
  /\ server' = Swept(Ticked(server, FALSE), Childless)
  /\ pc' = "idle"
  /\ IF server.stage = "ChildrenUnusedSet"
     THEN /\ lst' = [k \in Kinds |-> UnusedSet(lst[k])]
          /\ trans' = [c \in Conns |->
               IF Commanded(c) THEN trans[c] ELSE UnusedSet(trans[c])]
          /\ commander' = [c \in Conns |-> UnusedSet(commander[c])]
     ELSE UNCHANGED <<lst, trans, commander>>
  /\ UNCHANGED <<open, cntSkip, at, fd, mDone, peerVars, treeVars, logVars,
                 envVars, outVars>>

\* StStart: the listeners are created, the log is told where to send entries.
listenersStart ==
  /\ pc = "own" /\ CallsProcess(server) /\ ~server.begun
  /\ server' = Ticked(server, FALSE)
  /\ pc' = "idle"
  /\ lst' = [k \in Kinds |-> Created]
  /\ listening' = TRUE
  /\ UNCHANGED <<open, cntSkip, at, fd, procVars, peerVars, treeVars,
                 qLogEntries, msg, logged, owed, envVars, outVars>>

\* disconnectRequestedCheck(): the read says end, or Ctrl-C has been typed.
\* The process of the connection is not ready to read before its first call.
DisconnectRequested(c) ==
  trans[c].begun /\ (net[c] \in {"quit", "gone"} \/ fd[c] = "closed")

\* Mutant: a peer leaves when its process has ended.
Leaving_Ended == {c \in mPeerList : trans[c].over}

Leaving == {c \in mPeerList : trans[c].over \/ DisconnectRequested(c)}

\* peerCheck() repels the peers that leave, its read() closes what is gone.
\* peerAdd() and commandAutoProcess() create a process for each queued
\* connection; a new viewer of the tree gets it at once.
peerListUpdate ==
  /\ pc = "own" /\ CallsProcess(server) /\ server.begun
  /\ LET queued == {c \in Conns : at[c] = "pipe"}
         quiet  == {c \in Leaving : trans[c].begun /\ net[c] # "quit"} IN
       /\ at' = [c \in Conns |-> IF c \in queued THEN "peer" ELSE at[c]]
       /\ trans' = [c \in Conns |->
            IF c \in Leaving THEN UnusedSet(trans[c])
            ELSE IF c \in queued /\ ~Commanded(c) THEN Created ELSE trans[c]]
       /\ commander' = [c \in Conns |->
            IF c \in queued /\ Commanded(c) THEN Created ELSE commander[c]]
       /\ fd' = [c \in Conns |-> IF c \in quiet THEN "closed" ELSE fd[c]]
       /\ mPeerList' = (mPeerList \ Leaving)
                         \cup {c \in queued : ~Commanded(c)}
       /\ LET new == \E c \in queued : Kind[c] = "proc" IN
            /\ mProcTreePeerAdded' = (mProcTreePeerAdded \/ new)
            /\ due' = (due \/ new)
  /\ mPeerLogOnceConnected' = (mPeerLogOnceConnected \/ Peers("log") # {})
  /\ pc' = "tree"
  /\ UNCHANGED <<server, lst, open, cntSkip, mDone, mProcTree,
                 mProcTreeChanged, logVars, envVars, outVars>>

-----------------------------------------------------------------------------
(***************************************************************************)
(* Sending.  send() to a peer that does not read logs a warning; to one    *)
(* that is gone it may work, or close the socket and log an error; to a    *)
(* closed socket it says nothing.                                          *)
(***************************************************************************)

Entries(n) == [i \in 1 .. n |-> "entry"]

\* The peers in S for which send() logs something; broken: errors.
SendLogs(S, broken) ==
  {c \in S : fd[c] = "open" /\ net[c] = "stalled"} \cup broken

\* The peers in S that get what is sent.
SendReaches(S) == {c \in S : fd[c] = "open" /\ net[c] \in {"open", "quit"}}

\* Peers in S whose send() finds an error.
MayBreak(S) == {c \in S : fd[c] = "open" /\ net[c] = "gone"}

Broken(broken) == [c \in Conns |-> IF c \in broken THEN "closed" ELSE fd[c]]

\* After a change the tree is looked at when mUpdateMs have passed.
TreeLooked == mProcTreeChanged => due

\* Mutant: only a change is sent, whoever came in between.
TreeToSend_Changed == tree # mProcTree

\* What is sent: a change, and the same again for a new viewer.
TreeToSend == tree # mProcTree \/ mProcTreePeerAdded

processTreeSend(broken) ==
  /\ pc = "tree"
  /\ pc' = "log"
  /\ IF TreeLooked /\ TreeToSend
     THEN LET S == Peers("proc") IN
          /\ broken \subseteq MayBreak(S)
          /\ shown' = [c \in Conns |->
               IF c \in SendReaches(S) THEN tree ELSE shown[c]]
          /\ fd' = Broken(broken)
          /\ qLogEntries' = qLogEntries \o Entries(Size(SendLogs(S, broken)))
          /\ mProcTree' = tree
          /\ mProcTreePeerAdded' = FALSE
          /\ mProcTreeChanged' = TRUE /\ due' = FALSE
     ELSE /\ broken = {}
          /\ mProcTreeChanged' = (mProcTreeChanged /\ ~due)
          /\ UNCHANGED <<shown, fd, qLogEntries, mProcTree,
                         mProcTreePeerAdded, due>>
  /\ UNCHANGED <<server, lst, open, cntSkip, at, procVars, peerVars,
                 msg, listening, logged, owed, envVars, heard>>

\* logEntriesSend(): one entry after the other is taken from the queue, under
\* its mutex ...
LogEntryTaken ==
  /\ pc = "log" /\ qLogEntries # << >>
  /\ msg' = Head(qLogEntries) /\ qLogEntries' = Tail(qLogEntries)
  /\ pc' = "send"
  /\ UNCHANGED <<server, lstVars, procVars, peerVars, treeVars, listening,
                 logged, owed, envVars, outVars>>

\* Mutant: only peers whose process has begun get the entry.
LogPeers_Begun == {c \in Peers("log") : trans[c].begun}

LogPeers == Peers("log")

\* ... and is sent, which may log more ...
logEntriesSend(broken) ==
  /\ pc = "send" /\ broken \subseteq MayBreak(LogPeers)
  /\ heard' = IF msg = "marked" THEN heard \cup SendReaches(LogPeers) ELSE heard
  /\ fd' = Broken(broken)
  /\ qLogEntries' = qLogEntries \o Entries(Size(SendLogs(LogPeers, broken)))
  /\ msg' = "none" /\ pc' = "log"
  /\ UNCHANGED <<server, lst, open, cntSkip, at, procVars, peerVars, treeVars,
                 listening, logged, owed, envVars, shown>>

\* ... until there is none; process() returns Pending.
LogEntriesSent ==
  /\ pc = "log" /\ qLogEntries = << >>
  /\ pc' = "idle"
  /\ UNCHANGED <<server, lstVars, procVars, peerVars, treeVars, logVars,
                 envVars, outVars>>

-----------------------------------------------------------------------------
(***************************************************************************)
(* Other threads, the peers and the clock.                                 *)
(***************************************************************************)

\* entryLogCreate() anywhere in the program: entryLogEnqueue() takes what is
\* not filtered by levelLog, once the server has said so.  The first entry after
\* a log peer has made ready() true is followed.
entryLogEnqueue ==
  /\ listening /\ logged < may.entries
  /\ logged' = logged + 1
  /\ LET mark == mPeerLogOnceConnected /\ owed = {} IN
       /\ qLogEntries' = Append(qLogEntries, IF mark THEN "marked" ELSE "entry")
       /\ owed' = IF mark THEN Peers("log") ELSE owed
  /\ UNCHANGED <<lstVars, srvVars, procVars, peerVars, treeVars, msg, listening,
                 envVars, outVars>>

NetChanges(c, from, to) ==
  /\ net[c] = from
  /\ net' = [net EXCEPT ![c] = to]
  /\ UNCHANGED <<lstVars, srvVars, procVars, peerVars, treeVars, logVars,
                 tree, may, outVars>>

\* A peer that does not read stalls the connection when its socket is full: what
\* is sent before the first tick, while the socket still blocks, is taken.
PeerStalls(c) ==
  /\ c \in Stalls /\ fd[c] = "open" /\ trans[c].begun
  /\ NetChanges(c, "open", "stalled")
PeerReads(c)  == fd[c] = "open" /\ NetChanges(c, "stalled", "open")
PeerLeaves(c) == fd[c] = "open" /\ NetChanges(c, "open", "gone")

\* Ctrl-C or Ctrl-D, at the start of what read() returns.
PeerQuits(c) == fd[c] = "open" /\ ~Commanded(c) /\ NetChanges(c, "open", "quit")

Connects(c) ==
  /\ c \in may.conns /\ PeerConnects(c)
  /\ UNCHANGED <<srvVars, procVars, peerVars, treeVars, logVars, envVars, outVars>>

TreeChanges ==
  /\ pc = "idle" /\ CallsProcess(server) /\ tree < may.trees
  /\ tree' = tree + 1
  /\ UNCHANGED <<lstVars, srvVars, procVars, peerVars, treeVars, logVars,
                 net, may, outVars>>

\* mUpdateMs have passed since the last change was sent.
TimePasses ==
  /\ CallsProcess(server) /\ mProcTreeChanged /\ ~due
  /\ due' = TRUE
  /\ UNCHANGED <<lstVars, srvVars, procVars, peerVars, mProcTree,
                 mProcTreeChanged, mProcTreePeerAdded, logVars, envVars, outVars>>

\* The parent of the server repels it.
Cancel ==
  /\ pc = "idle" /\ ~server.canceled
  /\ server' = UnusedSet(server)
  /\ UNCHANGED <<lstVars, pc, procVars, peerVars, treeVars, logVars, envVars,
                 outVars>>

Terminated == server.stage = "deleted" /\ UNCHANGED vars

-----------------------------------------------------------------------------
Leavers == {c \in Conns : Commanded(c) /\ CallsProcess(commander[c])}

Waiting == {c \in Conns : at[c] = "backlog"}

Driver ==
  \/ \E leave \in SUBSET Leavers, failed \in SUBSET MayFail :
       \E taken \in SUBSET Waiting : \E drop \in SUBSET (Waiting \ taken) :
         ChildrenTick(leave, failed, taken, drop)
  \/ OwnStep \/ listenersStart \/ peerListUpdate
  \/ \E broken \in SUBSET mPeerList :
       processTreeSend(broken) \/ logEntriesSend(broken)
  \/ LogEntryTaken \/ LogEntriesSent

Environment ==
  \/ entryLogEnqueue
  \/ \E c \in Conns : Connects(c) \/ PeerStalls(c) \/ PeerReads(c)
                        \/ PeerLeaves(c) \/ PeerQuits(c)
  \/ TreeChanges \/ TimePasses \/ Cancel

Next == Driver \/ Environment \/ Terminated

Spec == Init /\ [][Next]_vars

\* The driver ticks and the clock runs.  Peers and other threads owe nothing.
FairSpec == Spec /\ WF_vars(Driver) /\ WF_vars(TimePasses)

-----------------------------------------------------------------------------
\* Every accepted connection is closed when the server and its children are
\* deleted, whatever the queue, the peer list and the processes held when it
\* was repelled: no destructor closes a socket, so each of them must have had
\* the ticks to get to its shutdown().
NothingLeftOpen == server.stage = "deleted" => \A c \in Conns : fd[c] # "open"

\* A connection whose peer is gone or has typed Ctrl-C is closed while the server
\* works on, whoever noticed it first: the process of the connection, the read of
\* peerCheck() or a send.
Left == {c \in Conns : fd[c] = "open" /\ net[c] \in {"quit", "gone"}}
LeaverIsClosed == (Left # {}) ~> (Left = {})

\* The parent of the server has repelled it.
Repelled == server.canceled \/ server.stage = "deleted"

\* An entry that is logged when ready() says that the log can be seen stays in
\* the queue until each log peer of that moment has got it, unless the peer
\* leaves or is one that may stop to read, or the server is repelled.
NoEntryIsLost ==
  \A c \in owed \ Stalls :
    \/ c \in heard \/ net[c] # "open" \/ Repelled
    \/ msg = "marked"
    \/ \E i \in DOMAIN qLogEntries : qLogEntries[i] = "marked"

\* A viewer of the process tree that stays and reads sees its last state: each
\* change falls into the period after another one or not, and a viewer may come
\* while nothing changes.
TreeReachesPeers ==
  \A c \in {c \in Conns \ Stalls : Kind[c] = "proc"} :
    <>[](c \in mPeerList /\ net[c] = "open" /\ ~Repelled)
      => <>[](shown[c] = tree)

\* The loop that sends the log ends: sending must not log without end ("DO NOT
\* SEND AN ERROR MESSAGE AT THIS POINT! Reason: Otherwise we have an endless
\* loop for the SystemDebugging() log peers", TcpTransfering.cpp).
LogLoopEnds == (pc = "log") ~> (pc = "idle")
=============================================================================
