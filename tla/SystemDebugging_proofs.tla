----------------------- MODULE SystemDebugging_proofs -----------------------
(***************************************************************************)
(* Theorems about SystemDebugging, for any connections, listeners, peers   *)
(* and entries: types and queue limits, every accepted descriptor is       *)
(* closed when the server is deleted, and no entry is lost that a log peer *)
(* was promised.                                                           *)
(***************************************************************************)
EXTENDS SystemDebugging, SequenceTheorems, FiniteSetTheorems, TLAPS

USE DEF lstVars, srvVars, procVars, peerVars, treeVars, logVars, envVars, outVars

-----------------------------------------------------------------------------
(***************************************************************************)
(* Processes.                                                              *)
(***************************************************************************)
LEMMA ProcessTypes ==
  /\ Absent \in Process /\ Created \in Process
  /\ Absent.stage = "none" /\ Created.stage = "Existent"
  /\ ~Created.canceled /\ ~Created.unused /\ ~Created.begun /\ ~Created.over
  /\ ~Absent.canceled /\ ~Absent.unused /\ ~Absent.begun /\ ~Absent.over
BY DEF Absent, Created, Process, Stages

\* A tick takes a process from stage to stage; only one that is canceled leaves
\* out a stage, and only its process() begins and ends it.
LEMMA TickedIs ==
  ASSUME NEW p \in Process, NEW ends
  PROVE  LET q == Ticked(p, ends) IN
         /\ q \in Process /\ q.canceled = p.canceled /\ q.unused = p.unused
         /\ p.stage = "Existent" =>
              q.stage = IF p.canceled THEN "FinishedPrepare" ELSE "Initializing"
         /\ p.stage = "Initializing" =>
              q.stage = IF p.canceled THEN "DownShutting" ELSE "Processing"
         /\ p.stage = "Processing" =>
              q.stage = IF p.canceled \/ ends THEN "DownShutting" ELSE "Processing"
         /\ p.stage = "DownShutting" => q.stage = "ChildrenUnusedSet"
         /\ p.stage = "ChildrenUnusedSet" => q.stage = "FinishedPrepare"
         /\ p.stage = "FinishedPrepare" => q.stage = "Finished"
         /\ p.stage \in {"none", "Finished", "deleted"} => q = p
         /\ CallsProcess(p) => q.begun
         /\ ~CallsProcess(p) => q.begun = p.begun /\ q.over = p.over
         /\ ~ends => q.over = p.over
BY DEF Ticked, Process, Stages, CallsProcess

LEMMA SweptIs ==
  ASSUME NEW p \in Process, NEW childless
  PROVE  LET q == Swept(p, childless) IN
         /\ q \in Process
         /\ p.stage # "Finished" => q = p
         /\ p.stage = "Finished" =>
              \/ q = p
              \/ q = [Absent EXCEPT !.stage = "deleted"] /\ childless
BY DEF Swept, Process, Stages, Absent

LEMMA UnusedSetIs ==
  ASSUME NEW p \in Process
  PROVE  LET q == UnusedSet(p) IN
         /\ q \in Process /\ q.stage = p.stage
         /\ q.begun = p.begun /\ q.over = p.over
         /\ p.stage \in {"none", "deleted"} => q = p
BY DEF UnusedSet, Process, Stages

\* What the stages allow from one tick to the next.
Moves(p, q) ==
  /\ q \in Process
  /\ p.stage = "none" => q = p
  /\ p.stage = "Existent" /\ ~p.canceled => q.stage = "Initializing"
  /\ p.stage = "Initializing" => q.stage \in {"Processing", "DownShutting"}
  /\ p.stage = "Processing" => q.stage \in {"Processing", "DownShutting"}
  /\ p.stage = "Processing" /\ p.canceled => q.stage = "DownShutting"
  /\ p.stage = "DownShutting" => q.stage = "ChildrenUnusedSet"
  /\ p.stage \in {"ChildrenUnusedSet", "FinishedPrepare", "Finished", "deleted"}
       => q.stage \in {"FinishedPrepare", "Finished", "deleted"}
  /\ p.stage # "none" => q.stage \notin {"none", "Existent"}
  /\ p.stage # "Existent" => q.stage # "Initializing"

\* A tick of p as ticked, and with it the marks and the sweep.
LEMMA TickedMoves ==
  ASSUME NEW p \in Process, NEW ends, NEW childless
  PROVE  LET r == Ticked(p, ends) IN
         /\ Moves(p, r) /\ Moves(p, Swept(r, childless))
         /\ Moves(p, UnusedSet(r)) /\ Moves(p, Swept(UnusedSet(r), childless))
<1> DEFINE r == Ticked(p, ends)
           u == UnusedSet(r)
<1>1. /\ r \in Process /\ r.canceled = p.canceled
      /\ p.stage = "Existent" =>
           r.stage = IF p.canceled THEN "FinishedPrepare" ELSE "Initializing"
      /\ p.stage = "Initializing" =>
           r.stage = IF p.canceled THEN "DownShutting" ELSE "Processing"
      /\ p.stage = "Processing" =>
           r.stage = IF p.canceled \/ ends THEN "DownShutting" ELSE "Processing"
      /\ p.stage = "DownShutting" => r.stage = "ChildrenUnusedSet"
      /\ p.stage = "ChildrenUnusedSet" => r.stage = "FinishedPrepare"
      /\ p.stage = "FinishedPrepare" => r.stage = "Finished"
      /\ p.stage \in {"none", "Finished", "deleted"} => r = p
  BY TickedIs
<1>2. u \in Process /\ u.stage = r.stage
      /\ (r.stage = "none" => u = r)
  BY <1>1, UnusedSetIs
<1>3. ASSUME NEW s \in Process
      PROVE  /\ Swept(s, childless) \in Process
             /\ s.stage # "Finished" => Swept(s, childless) = s
             /\ s.stage = "Finished" =>
                  Swept(s, childless).stage \in {"Finished", "deleted"}
  <2>1. [Absent EXCEPT !.stage = "deleted"].stage = "deleted"
    BY DEF Absent
  <2>2. QED BY <2>1, SweptIs
<1>4. p.stage \in Stages
  BY DEF Process
<1> HIDE DEF r, u
<1>5. Moves(p, r)
  BY <1>1, <1>4 DEF Moves, Stages
<1>6. Moves(p, u)
  BY <1>1, <1>2, <1>4 DEF Moves, Stages
<1>7. Moves(p, Swept(r, childless))
  BY <1>1, <1>3, <1>4 DEF Moves, Stages
<1>8. Moves(p, Swept(u, childless))
  BY <1>1, <1>2, <1>3, <1>4 DEF Moves, Stages
<1>9. QED BY <1>5, <1>6, <1>7, <1>8 DEF r, u

-----------------------------------------------------------------------------
(***************************************************************************)
(* The inductive invariant.                                                *)
(***************************************************************************)
Live == {"Existent", "Initializing", "Processing", "DownShutting"}

\* A command line that has not yet created its transfer.
Unbegun(w) ==
  \/ w.stage \in {"Existent", "Initializing"}
  \/ w.stage = "Processing" /\ ~w.begun

TypeInv == TypeOK /\ qLogEntries \in Seq({"entry", "marked"})

\* The server ends only when repelled, is deleted only without children, and
\* has no listeners before its first call.
ServerInv ==
  /\ server.stage # "none"
  /\ server.stage \notin {"Existent", "Initializing", "Processing"} => Repelled
  /\ server.stage = "deleted" => Childless /\ pc = "idle"
  /\ pc \in {"tree", "log", "send"} => server.stage = "Processing"
  /\ msg # "none" <=> pc = "send"
  /\ ~server.begun /\ server.stage # "deleted" => \A k \in Kinds : lst[k] = Absent

\* Where a connection is, its descriptor and who must close it: in the queue the
\* listener, which has not shut down ...
PlaceInv(c) ==
  /\ at[c] \in {"away", "backlog"} => fd[c] = "none"
  /\ at[c] # "peer" => trans[c] = Absent /\ commander[c] = Absent
  /\ at[c] = "dropped" => fd[c] # "open"
  /\ at[c] = "pipe" => /\ fd[c] = "open"
                       /\ lst[Kind[c]].stage \in {"Processing", "DownShutting"}
  /\ ~Commanded(c) => commander[c] = Absent /\ ~mDone[c]

\* ... then its transfer, which was never canceled before its first tick ...
TransInv(c) ==
  ~Commanded(c) =>
    /\ at[c] = "peer" /\ fd[c] = "open" => trans[c].stage \in Live
    /\ trans[c].stage = "Existent" => ~trans[c].canceled /\ pc # "own"

\* ... and a command line, which creates the transfer, and does so before the
\* server can cancel it: they shut down one stage per tick.
CommandInv(c) ==
  Commanded(c) =>
    LET sc == commander[c] IN
    /\ at[c] = "peer" /\ fd[c] = "open" => trans[c].stage \in Live \/ Unbegun(sc)
    /\ Unbegun(sc) => ~sc.canceled /\ trans[c] = Absent
    /\ sc.stage \in {"Existent", "Initializing"} => ~sc.begun
    /\ sc.stage = "Existent" => pc # "own" /\ server.stage = "Processing"
    /\ sc.stage = "Initializing" =>
         \/ server.stage = "Processing"
         \/ server.stage = "DownShutting" /\ pc # "own"
    /\ sc.stage = "Processing" /\ ~sc.begun =>
         \/ server.stage \in {"Processing", "DownShutting"}
         \/ server.stage = "ChildrenUnusedSet" /\ pc # "own"
    /\ trans[c].stage = "Existent" => ~trans[c].canceled /\ sc.stage = "Processing"

\* A peer that stays is in good order while the server is.
PeerInv(c) ==
  c \in mPeerList =>
    /\ at[c] = "peer"
    /\ net[c] \in {"open", "stalled"} /\ ~Repelled =>
         /\ fd[c] = "open" /\ ~trans[c].over /\ ~trans[c].canceled
         /\ trans[c].stage \in {"Existent", "Initializing", "Processing"}

\* A peer to which an entry is owed remains one.
OwedInv(c) ==
  /\ net[c] = "stalled" => c \in Stalls
  /\ c \in owed \ Stalls /\ net[c] = "open" /\ ~Repelled => c \in mPeerList

ConnInv(c) ==
  PlaceInv(c) /\ TransInv(c) /\ CommandInv(c) /\ PeerInv(c) /\ OwedInv(c)

DebugInv ==
  /\ TypeInv /\ ServerInv /\ NoEntryIsLost
  /\ \A c \in Conns : ConnInv(c)

\* The queue of a port is as full as its peers in it.
LEMMA QueuesKept ==
  ASSUME TypeListening, at' = at
  PROVE  \A k \in Kinds :
           Cardinality({c \in Conns : at'[c] = "pipe" /\ Kind[c] = k}) <= MaxConn[k]
<1>1. ASSUME NEW k \in Kinds
      PROVE  {c \in Conns : at'[c] = "pipe" /\ Kind[c] = k}
               = {c \in Conns : at[c] = "pipe" /\ Kind[c] = k}
  OBVIOUS
<1>2. QED BY <1>1 DEF TypeListening

LEMMA InitHolds == Init => DebugInv
<1> SUFFICES ASSUME Init PROVE DebugInv
  OBVIOUS
<1> USE DebuggingAssumption, ListeningAssumption
<1>1. TypeListening
  <2>1. ASSUME NEW k \in Kinds
        PROVE  Cardinality({c \in Conns : at[c] = "pipe" /\ Kind[c] = k}) <= MaxConn[k]
    <3>1. {c \in Conns : at[c] = "pipe" /\ Kind[c] = k} = {}
      BY DEF Init, InitListening
    <3>2. Cardinality({c \in Conns : at[c] = "pipe" /\ Kind[c] = k}) = 0
      BY <3>1, FS_EmptySet
    <3>3. QED BY <3>2
  <2>2. QED BY <2>1, ProcessTypes DEF Init, InitListening, TypeListening
<1>2. TypeInv
  <2>1. << >> \in Seq({"entry", "marked"})
    OBVIOUS
  <2>2. may.trees \in Nat \ {0} /\ may.entries \in Nat
    BY DEF Init
  <2>3. /\ mProcTree = 0 /\ tree = 1 /\ logged = 0 /\ may \in Runs
        /\ shown \in [Conns -> 0 .. tree]
    BY DEF Init
  <2>4. mProcTree \in 0 .. tree /\ tree \in 1 .. may.trees /\ logged \in 0 .. may.entries
    BY <2>2, <2>3
  <2>5. /\ server \in Process /\ trans \in [Conns -> Process]
        /\ mDone \in [Conns -> BOOLEAN] /\ commander \in [Conns -> Process]
    BY ProcessTypes DEF Init
  <2>6. {mPeerLogOnceConnected, mProcTreeChanged, mProcTreePeerAdded, due,
         listening} \subseteq BOOLEAN
    BY DEF Init
  <2>7. /\ pc = "idle" /\ mPeerList = {} /\ qLogEntries = << >> /\ msg = "none"
        /\ net \in [Conns -> {"open", "stalled", "quit", "gone"}]
        /\ heard = {} /\ owed = {}
    BY DEF Init
  <2>8. TypeOK
    BY <1>1, <2>3, <2>4, <2>5, <2>6, <2>7 DEF TypeOK
  <2>9. QED BY <2>1, <2>7, <2>8 DEF TypeInv
<1>3. ServerInv
  BY ProcessTypes DEF Init, InitListening, ServerInv
<1>4. NoEntryIsLost
  BY DEF Init, NoEntryIsLost
<1>5. ASSUME NEW c \in Conns PROVE ConnInv(c)
  <2>1. at[c] = "away" /\ fd[c] = "none" /\ trans[c] = Absent /\ commander[c] = Absent
        /\ ~mDone[c] /\ net[c] = "open" /\ mPeerList = {} /\ owed = {}
    BY DEF Init, InitListening
  <2>2. QED
    BY <2>1, ProcessTypes DEF ConnInv, PlaceInv, TransInv, CommandInv, PeerInv,
          OwedInv, Unbegun
<1>6. QED BY <1>2, <1>3, <1>4, <1>5 DEF DebugInv

-----------------------------------------------------------------------------
(***************************************************************************)
(* Steps that leave the processes alone.                                   *)
(***************************************************************************)

\* Nothing of a connection changes but that a send to a peer that is gone may
\* close its descriptor.
LEMMA PeersKept ==
  ASSUME DebugInv, NEW c \in Conns,
         UNCHANGED <<server, lst, at, trans, mDone, commander, mPeerList>>,
         pc' # "own",
         \/ fd'[c] = fd[c]
         \/ c \in mPeerList /\ net[c] = "gone" /\ fd'[c] = "closed",
         net'[c] \in {"open", "stalled"} => net[c] \in {"open", "stalled"}
  PROVE  PlaceInv(c)' /\ TransInv(c)' /\ CommandInv(c)' /\ PeerInv(c)'
<1> PlaceInv(c) /\ TransInv(c) /\ CommandInv(c) /\ PeerInv(c)
  BY DEF DebugInv, ConnInv
<1>0. Commanded(c)' = Commanded(c) /\ Unbegun(commander[c])' = Unbegun(commander[c])
      /\ Repelled' = Repelled
  BY DEF Commanded, Unbegun, Repelled
<1>1. PlaceInv(c)'
  <2>1. fd'[c] # fd[c] => at[c] = "peer" /\ fd'[c] = "closed"
    BY DEF PeerInv
  <2>2. QED BY <1>0, <2>1 DEF PlaceInv
<1>2. TransInv(c)'
  BY <1>0 DEF TransInv
<1>3. CommandInv(c)'
  BY <1>0 DEF CommandInv
<1>4. PeerInv(c)'
  BY <1>0 DEF PeerInv
<1>5. QED BY <1>1, <1>2, <1>3, <1>4

\* The descriptors after a send.
LEMMA BrokenIs ==
  ASSUME TypeOK, NEW S, S \subseteq mPeerList, NEW broken, broken \subseteq MayBreak(S),
         fd' = Broken(broken)
  PROVE  /\ fd' \in [Conns -> {"none", "open", "closed"}]
         /\ \A c \in Conns :
              \/ fd'[c] = fd[c]
              \/ c \in mPeerList /\ net[c] = "gone" /\ fd'[c] = "closed"
BY DEF TypeOK, TypeListening, Broken, MayBreak

\* What is logged by it is no marked entry, and the queue remains one.
LEMMA EntriesFollow ==
  ASSUME TypeInv, NEW S \in SUBSET Conns, NEW broken \in SUBSET Conns,
         qLogEntries' = qLogEntries \o Entries(Size(SendLogs(S, broken)))
  PROVE  /\ qLogEntries' \in Seq({"entry", "marked"})
         /\ \A i \in DOMAIN qLogEntries :
              i \in DOMAIN qLogEntries' /\ qLogEntries'[i] = qLogEntries[i]
<1> DEFINE n == Size(SendLogs(S, broken))
<1>1. n \in Nat
  <2>1. SendLogs(S, broken) \subseteq Conns
    BY DEF SendLogs
  <2>2. IsFiniteSet(SendLogs(S, broken))
    BY <2>1, FS_Subset, ListeningAssumption
  <2>3. QED BY <2>2, FS_CardinalityType DEF Size
<1> HIDE DEF n
<1>2. Entries(n) \in Seq({"entry", "marked"})
  BY <1>1 DEF Entries
<1>3. qLogEntries \in Seq({"entry", "marked"})
  BY DEF TypeInv
<1>4. qLogEntries' = qLogEntries \o Entries(n)
  BY DEF n
<1>5. QED BY <1>2, <1>3, <1>4


LEMMA ServerKept ==
  ASSUME ServerInv, UNCHANGED <<server, lst, trans, commander>>,
         server.stage = "deleted" => pc' = "idle",
         pc' \in {"tree", "log", "send"} => server.stage = "Processing",
         msg' # "none" <=> pc' = "send"
  PROVE  ServerInv'
BY DEF ServerInv, Repelled, Childless

\* No entry gets lost while the queue grows and its peers do not stop to read.
LEMMA EntriesKept ==
  ASSUME NoEntryIsLost, Repelled => Repelled', owed' = owed, heard \subseteq heard',
         \A c \in owed \ Stalls : net'[c] = "open" => net[c] = "open",
         msg' = msg,
         \A i \in DOMAIN qLogEntries :
           i \in DOMAIN qLogEntries' /\ qLogEntries'[i] = qLogEntries[i]
  PROVE  NoEntryIsLost'
<1> SUFFICES ASSUME NEW c \in owed \ Stalls,
                    c \notin heard', net'[c] = "open", ~Repelled', msg' # "marked"
             PROVE  \E i \in DOMAIN qLogEntries' : qLogEntries'[i] = "marked"
  BY DEF NoEntryIsLost
<1>1. \E i \in DOMAIN qLogEntries : qLogEntries[i] = "marked"
  BY DEF NoEntryIsLost
<1>2. QED BY <1>1

LEMMA OwedKept ==
  ASSUME NEW c \in Conns, OwedInv(c), UNCHANGED <<server, mPeerList, net>>, owed' = owed
  PROVE  OwedInv(c)'
BY DEF OwedInv, Repelled

-----------------------------------------------------------------------------
(***************************************************************************)
(* The server sends the tree and the log.                                  *)
(***************************************************************************)
LEMMA SendsTree ==
  ASSUME DebugInv, NEW broken \in SUBSET mPeerList, processTreeSend(broken)
  PROVE  DebugInv'
<1> TypeOK /\ TypeInv /\ ServerInv /\ NoEntryIsLost
  BY DEF DebugInv, TypeInv
<1> mPeerList \subseteq Conns /\ Peers("proc") \subseteq mPeerList
  BY DEF TypeOK, Peers
<1>1. /\ UNCHANGED <<server, lst, open, cntSkip, at, trans, mDone, commander, mPeerList,
                      mPeerLogOnceConnected, msg, listening, logged, owed, net, tree,
                      may, heard>>
      /\ pc = "tree" /\ pc' = "log"
  BY DEF processTreeSend
<1>2. /\ fd' \in [Conns -> {"none", "open", "closed"}]
      /\ \A c \in Conns :
           \/ fd'[c] = fd[c]
           \/ c \in mPeerList /\ net[c] = "gone" /\ fd'[c] = "closed"
      /\ qLogEntries' \in Seq({"entry", "marked"})
      /\ \A i \in DOMAIN qLogEntries :
           i \in DOMAIN qLogEntries' /\ qLogEntries'[i] = qLogEntries[i]
      /\ shown' \in [Conns -> 0 .. tree] /\ mProcTree' \in 0 .. tree
      /\ {mProcTreeChanged', mProcTreePeerAdded', due'} \subseteq BOOLEAN
  <2>1. CASE TreeLooked /\ TreeToSend
    <3>1. /\ broken \subseteq MayBreak(Peers("proc")) /\ fd' = Broken(broken)
          /\ qLogEntries' = qLogEntries \o Entries(Size(SendLogs(Peers("proc"), broken)))
          /\ shown' = [c \in Conns |->
               IF c \in SendReaches(Peers("proc")) THEN tree ELSE shown[c]]
          /\ mProcTree' = tree
          /\ mProcTreePeerAdded' = FALSE /\ mProcTreeChanged' = TRUE /\ due' = FALSE
      BY <2>1 DEF processTreeSend
    <3>2. /\ fd' \in [Conns -> {"none", "open", "closed"}]
          /\ \A c \in Conns :
               \/ fd'[c] = fd[c]
               \/ c \in mPeerList /\ net[c] = "gone" /\ fd'[c] = "closed"
      BY <3>1, BrokenIs
    <3>3. /\ qLogEntries' \in Seq({"entry", "marked"})
          /\ \A i \in DOMAIN qLogEntries :
               i \in DOMAIN qLogEntries' /\ qLogEntries'[i] = qLogEntries[i]
      BY <3>1, EntriesFollow
    <3>4. tree \in Nat
      BY DebuggingAssumption DEF TypeOK
    <3>5. shown' \in [Conns -> 0 .. tree]
      BY <3>1, <3>4 DEF TypeOK
    <3>6. mProcTree' \in 0 .. tree
      BY <3>1, <3>4
    <3>7. {mProcTreeChanged', mProcTreePeerAdded', due'} \subseteq BOOLEAN
      BY <3>1
    <3>8. QED BY <3>2, <3>3, <3>5, <3>6, <3>7
  <2>2. CASE ~(TreeLooked /\ TreeToSend)
    <3>1. /\ mProcTreeChanged' = (mProcTreeChanged /\ ~due)
          /\ UNCHANGED <<shown, fd, qLogEntries, mProcTree, mProcTreePeerAdded, due>>
      BY <2>2 DEF processTreeSend
    <3>2. mProcTreeChanged' \in BOOLEAN
      BY <3>1
    <3>3. QED BY <3>1, <3>2 DEF TypeOK, TypeListening, TypeInv
  <2>3. QED BY <2>1, <2>2
<1>3. TypeListening'
  BY <1>1, <1>2, QueuesKept DEF TypeOK, TypeListening
<1>4. TypeInv'
  BY <1>1, <1>2, <1>3 DEF TypeOK, TypeInv
<1>5. ServerInv'
  BY <1>1, ServerKept DEF ServerInv
<1>6. NoEntryIsLost'
  BY <1>1, <1>2, EntriesKept DEF Repelled
<1>7. ASSUME NEW c \in Conns PROVE ConnInv(c)'
  <2>1. PlaceInv(c)' /\ TransInv(c)' /\ CommandInv(c)' /\ PeerInv(c)'
    BY <1>1, <1>2, PeersKept
  <2>2. OwedInv(c)'
    BY <1>1, OwedKept DEF DebugInv, ConnInv
  <2>3. QED BY <2>1, <2>2 DEF ConnInv
<1>8. QED BY <1>4, <1>5, <1>6, <1>7 DEF DebugInv

LEMMA TakesEntry == DebugInv /\ LogEntryTaken => DebugInv'
<1> SUFFICES ASSUME DebugInv, LogEntryTaken PROVE DebugInv'
  OBVIOUS
<1> TypeOK /\ TypeInv /\ ServerInv /\ NoEntryIsLost
  BY DEF DebugInv, TypeInv
<1>1. /\ UNCHANGED <<server, lst, open, cntSkip, at, fd, trans, mDone, commander,
                      mPeerList, mPeerLogOnceConnected, listening, logged, owed, net,
                      mProcTree, mProcTreeChanged, mProcTreePeerAdded, due, tree,
                      may, shown, heard>>
      /\ pc = "log" /\ pc' = "send"
      /\ qLogEntries # << >> /\ msg' = Head(qLogEntries)
      /\ qLogEntries' = Tail(qLogEntries)
  BY DEF LogEntryTaken
<1>2. /\ msg' \in {"entry", "marked"} /\ qLogEntries' \in Seq({"entry", "marked"})
      /\ \A i \in DOMAIN qLogEntries :
           \/ qLogEntries[i] = msg'
           \/ i - 1 \in DOMAIN qLogEntries' /\ qLogEntries'[i - 1] = qLogEntries[i]
  <2>1. qLogEntries \in Seq({"entry", "marked"})
    BY DEF TypeInv
  <2>2. QED BY <1>1, <2>1
<1>3. TypeListening'
  BY <1>1, QueuesKept DEF TypeOK, TypeListening
<1>4. TypeInv'
  BY <1>1, <1>2, <1>3 DEF TypeOK, TypeInv
<1>5. ServerInv'
  BY <1>1, <1>2, ServerKept DEF ServerInv
<1>6. NoEntryIsLost'
  <2>1. SUFFICES ASSUME NEW c \in owed \ Stalls,
                    c \notin heard, net[c] = "open", ~Repelled, msg' # "marked"
             PROVE  \E i \in DOMAIN qLogEntries' : qLogEntries'[i] = "marked"
    BY <1>1 DEF NoEntryIsLost, Repelled
  <2>2. msg # "marked"
    BY <1>1 DEF ServerInv
  <2>3. PICK i \in DOMAIN qLogEntries : qLogEntries[i] = "marked"
    BY <2>1, <2>2 DEF NoEntryIsLost
  <2>4. QED BY <1>2, <2>1, <2>3
<1>7. ASSUME NEW c \in Conns PROVE ConnInv(c)'
  <2>1. PlaceInv(c)' /\ TransInv(c)' /\ CommandInv(c)' /\ PeerInv(c)'
    BY <1>1, PeersKept
  <2>2. OwedInv(c)'
    BY <1>1, OwedKept DEF DebugInv, ConnInv
  <2>3. QED BY <2>1, <2>2 DEF ConnInv
<1>8. QED BY <1>4, <1>5, <1>6, <1>7 DEF DebugInv

\* The peers to which the entry is owed are there, open and get it.
LEMMA SendsEntry ==
  ASSUME DebugInv, NEW broken \in SUBSET mPeerList, logEntriesSend(broken)
  PROVE  DebugInv'
<1> TypeOK /\ TypeInv /\ ServerInv /\ NoEntryIsLost
  BY DEF DebugInv, TypeInv
<1> mPeerList \subseteq Conns /\ LogPeers \subseteq mPeerList
  BY DEF TypeOK, LogPeers, Peers
<1>1. /\ UNCHANGED <<server, lst, open, cntSkip, at, trans, mDone, commander, mPeerList,
                      mPeerLogOnceConnected, listening, logged, owed, net, mProcTree,
                      mProcTreeChanged, mProcTreePeerAdded, due, tree, may, shown>>
      /\ pc = "send" /\ pc' = "log" /\ msg' = "none"
      /\ broken \subseteq MayBreak(LogPeers) /\ fd' = Broken(broken)
      /\ heard' = IF msg = "marked" THEN heard \cup SendReaches(LogPeers) ELSE heard
      /\ qLogEntries' = qLogEntries \o Entries(Size(SendLogs(LogPeers, broken)))
  BY DEF logEntriesSend
<1>2. /\ fd' \in [Conns -> {"none", "open", "closed"}]
      /\ \A c \in Conns :
           \/ fd'[c] = fd[c]
           \/ c \in mPeerList /\ net[c] = "gone" /\ fd'[c] = "closed"
  BY <1>1, BrokenIs
<1>3. /\ qLogEntries' \in Seq({"entry", "marked"})
      /\ \A i \in DOMAIN qLogEntries :
           i \in DOMAIN qLogEntries' /\ qLogEntries'[i] = qLogEntries[i]
  BY <1>1, EntriesFollow
<1>4. heard' \subseteq {c \in Conns : Kind[c] = "log"}
  BY <1>1 DEF TypeOK, SendReaches, LogPeers, Peers
<1>5. TypeListening'
  BY <1>1, <1>2, QueuesKept DEF TypeOK, TypeListening
<1>6. TypeInv'
  BY <1>1, <1>2, <1>3, <1>4, <1>5 DEF TypeOK, TypeInv
<1>7. ServerInv'
  BY <1>1, ServerKept DEF ServerInv
<1>8. NoEntryIsLost'
  <2>1. SUFFICES ASSUME NEW c \in owed \ Stalls,
                    c \notin heard', net[c] = "open", ~Repelled
             PROVE  \E i \in DOMAIN qLogEntries' : qLogEntries'[i] = "marked"
    BY <1>1 DEF NoEntryIsLost, Repelled
  <2>2. c \in Conns /\ Kind[c] = "log" /\ c \notin heard
    BY <1>1, <2>1 DEF TypeOK
  <2>3. c \in mPeerList /\ fd[c] = "open"
    BY <2>1, <2>2 DEF DebugInv, ConnInv, OwedInv, PeerInv
  <2>4. c \in SendReaches(LogPeers)
    BY <2>1, <2>2, <2>3 DEF SendReaches, LogPeers, Peers
  <2>5. msg # "marked"
    BY <1>1, <2>1, <2>4
  <2>6. \E i \in DOMAIN qLogEntries : qLogEntries[i] = "marked"
    BY <2>1, <2>2, <2>5 DEF NoEntryIsLost
  <2>7. QED BY <1>3, <2>6
<1>9. ASSUME NEW c \in Conns PROVE ConnInv(c)'
  <2>1. PlaceInv(c)' /\ TransInv(c)' /\ CommandInv(c)' /\ PeerInv(c)'
    BY <1>1, <1>2, PeersKept
  <2>2. OwedInv(c)'
    BY <1>1, OwedKept DEF DebugInv, ConnInv
  <2>3. QED BY <2>1, <2>2 DEF ConnInv
<1>10. QED BY <1>6, <1>7, <1>8, <1>9 DEF DebugInv

LEMMA LogSent == DebugInv /\ LogEntriesSent => DebugInv'
<1> SUFFICES ASSUME DebugInv, LogEntriesSent PROVE DebugInv'
  OBVIOUS
<1> TypeOK /\ TypeInv /\ ServerInv /\ NoEntryIsLost
  BY DEF DebugInv, TypeInv
<1>1. /\ UNCHANGED <<server, lst, open, cntSkip, at, fd, trans, mDone, commander,
                      mPeerList, mPeerLogOnceConnected, listening, logged, owed, net,
                      mProcTree, mProcTreeChanged, mProcTreePeerAdded, due, tree,
                      may, shown, heard, msg, qLogEntries>>
      /\ pc = "log" /\ pc' = "idle"
  BY DEF LogEntriesSent
<1>3. TypeListening'
  BY <1>1, QueuesKept DEF TypeOK, TypeListening
<1>4. TypeInv'
  BY <1>1, <1>3 DEF TypeOK, TypeInv
<1>5. ServerInv'
  BY <1>1, ServerKept DEF ServerInv
<1>6. NoEntryIsLost'
  BY <1>1, EntriesKept DEF Repelled
<1>7. ASSUME NEW c \in Conns PROVE ConnInv(c)'
  <2>1. PlaceInv(c)' /\ TransInv(c)' /\ CommandInv(c)' /\ PeerInv(c)'
    BY <1>1, PeersKept
  <2>2. OwedInv(c)'
    BY <1>1, OwedKept DEF DebugInv, ConnInv
  <2>3. QED BY <2>1, <2>2 DEF ConnInv
<1>8. QED BY <1>4, <1>5, <1>6, <1>7 DEF DebugInv

-----------------------------------------------------------------------------
(***************************************************************************)
(* The environment.                                                        *)
(***************************************************************************)
LEMMA Enqueues == DebugInv /\ entryLogEnqueue => DebugInv'
<1> SUFFICES ASSUME DebugInv, entryLogEnqueue PROVE DebugInv'
  OBVIOUS
<1> TypeOK /\ TypeInv /\ ServerInv /\ NoEntryIsLost
  BY DEF DebugInv, TypeInv
<1> DEFINE mark == mPeerLogOnceConnected /\ owed = {}
           e == IF mark THEN "marked" ELSE "entry"
<1>1. /\ UNCHANGED <<server, pc, lst, open, cntSkip, at, fd, trans, mDone, commander,
                      mPeerList, mPeerLogOnceConnected, listening, net,
                      mProcTree, mProcTreeChanged, mProcTreePeerAdded, due, tree,
                      may, shown, heard, msg>>
      /\ logged < may.entries /\ logged' = logged + 1
      /\ qLogEntries' = Append(qLogEntries, e)
      /\ owed' = IF mark THEN Peers("log") ELSE owed
  BY DEF entryLogEnqueue
<1>2. e \in {"entry", "marked"} /\ (mark => e = "marked")
  OBVIOUS
<1> HIDE DEF mark, e
<1>3. /\ qLogEntries' \in Seq({"entry", "marked"})
      /\ \A i \in DOMAIN qLogEntries :
           i \in DOMAIN qLogEntries' /\ qLogEntries'[i] = qLogEntries[i]
      /\ \E i \in DOMAIN qLogEntries' : qLogEntries'[i] = e
  <2>1. qLogEntries \in Seq({"entry", "marked"})
    BY DEF TypeInv
  <2> DEFINE n == Len(qLogEntries) + 1
  <2>2. /\ qLogEntries' \in Seq({"entry", "marked"}) /\ Len(qLogEntries') = n
        /\ \A i \in 1 .. Len(qLogEntries) : qLogEntries'[i] = qLogEntries[i]
        /\ qLogEntries'[n] = e
    BY <1>1, <1>2, <2>1
  <2>3. n \in DOMAIN qLogEntries'
    BY <2>1, <2>2
  <2>4. QED BY <2>1, <2>2, <2>3
<1>4. TypeListening'
  BY <1>1, QueuesKept DEF TypeOK, TypeListening
<1>5. TypeInv'
  <2>1. may.entries \in Nat
    BY DebuggingAssumption DEF TypeOK
  <2>2. logged' \in 0 .. may.entries
    BY <1>1, <2>1 DEF TypeOK
  <2>3. heard \cup owed' \subseteq {c \in Conns : Kind[c] = "log"}
    BY <1>1 DEF TypeOK, Peers
  <2>4. QED BY <1>1, <1>3, <1>4, <2>2, <2>3 DEF TypeOK, TypeInv
<1>6. ServerInv'
  BY <1>1, ServerKept DEF ServerInv
<1>7. NoEntryIsLost'
  <2>1. CASE mark
    BY <1>2, <1>3, <2>1 DEF NoEntryIsLost
  <2>2. CASE ~mark
    BY <1>1, <1>3, <2>2, EntriesKept DEF Repelled
  <2>3. QED BY <2>1, <2>2
<1>8. ASSUME NEW c \in Conns PROVE ConnInv(c)'
  <2>1. PlaceInv(c)' /\ TransInv(c)' /\ CommandInv(c)' /\ PeerInv(c)'
    <3>1. CASE pc = "own"
      <4>1. PlaceInv(c) /\ TransInv(c) /\ CommandInv(c) /\ PeerInv(c)
        BY DEF DebugInv, ConnInv
      <4>2. QED
        BY <1>1, <4>1 DEF PlaceInv, TransInv, CommandInv, PeerInv, Commanded,
              Unbegun, Repelled
    <3>2. CASE pc # "own"
      BY <1>1, <3>2, PeersKept
    <3>3. QED BY <3>1, <3>2
  <2>2. OwedInv(c)
    BY DEF DebugInv, ConnInv
  <2>3. OwedInv(c)'
    BY <1>1, <2>2 DEF OwedInv, Repelled, Peers
  <2>4. QED BY <2>1, <2>3 DEF ConnInv
<1>9. QED BY <1>5, <1>6, <1>7, <1>8 DEF DebugInv

\* Whatever a peer does, only one that may stall is stalled.
LEMMA PeerChanges ==
  ASSUME DebugInv, NEW d \in Conns,
         PeerStalls(d) \/ PeerReads(d) \/ PeerLeaves(d) \/ PeerQuits(d)
  PROVE  DebugInv'
<1> TypeOK /\ TypeInv /\ ServerInv /\ NoEntryIsLost
  BY DEF DebugInv, TypeInv
<1>1. PICK to \in {"open", "stalled", "quit", "gone"} :
        /\ net' = [net EXCEPT ![d] = to]
        /\ to = "stalled" => d \in Stalls
        /\ to = "stalled" => net[d] = "open"
        /\ to = "open" => net[d] = "stalled"
  BY DEF PeerStalls, PeerReads, PeerLeaves, PeerQuits, NetChanges
<1>2. UNCHANGED <<server, pc, lst, open, cntSkip, at, fd, trans, mDone, commander,
                  mPeerList, mPeerLogOnceConnected, listening, logged, owed,
                  mProcTree, mProcTreeChanged, mProcTreePeerAdded, due, tree,
                  may, shown, heard, msg, qLogEntries>>
  BY DEF PeerStalls, PeerReads, PeerLeaves, PeerQuits, NetChanges
<1>3. /\ net' \in [Conns -> {"open", "stalled", "quit", "gone"}]
      /\ \A c \in Conns : net'[c] = IF c = d THEN to ELSE net[c]
  BY <1>1 DEF TypeOK
<1>4. TypeListening'
  BY <1>2, QueuesKept DEF TypeOK, TypeListening
<1>5. TypeInv'
  BY <1>2, <1>3, <1>4 DEF TypeOK, TypeInv
<1>6. ServerInv'
  BY <1>2, ServerKept DEF ServerInv
<1>7. d \in Conns \ Stalls => net[d] # "stalled"
  BY DEF DebugInv, ConnInv, OwedInv
<1>8. NoEntryIsLost'
  <2>1. ASSUME NEW c \in owed \ Stalls, net'[c] = "open" PROVE net[c] = "open"
    <3>1. c \in Conns
      BY DEF TypeOK
    <3>2. QED BY <1>1, <1>3, <1>7, <2>1, <3>1
  <2>2. QED BY <1>2, <2>1, EntriesKept DEF Repelled
<1>9. ASSUME NEW c \in Conns PROVE ConnInv(c)'
  <2>0. PlaceInv(c) /\ TransInv(c) /\ CommandInv(c) /\ PeerInv(c) /\ OwedInv(c)
    BY DEF DebugInv, ConnInv
  <2>1. PlaceInv(c)' /\ TransInv(c)' /\ CommandInv(c)'
    BY <1>2, <2>0 DEF PlaceInv, TransInv, CommandInv, Commanded, Unbegun
  <2>2. PeerInv(c)'
    BY <1>1, <1>2, <1>3, <2>0 DEF PeerInv, Repelled
  <2>3. OwedInv(c)'
    BY <1>1, <1>2, <1>3, <1>7, <2>0 DEF OwedInv, Repelled
  <2>4. QED BY <2>1, <2>2, <2>3 DEF ConnInv
<1>10. QED BY <1>5, <1>6, <1>8, <1>9 DEF DebugInv

LEMMA PeerComes == ASSUME DebugInv, NEW d \in Conns, Connects(d) PROVE DebugInv'
<1> TypeOK /\ TypeInv /\ ServerInv /\ NoEntryIsLost
  BY DEF DebugInv, TypeInv
<1>1. /\ UNCHANGED <<server, pc, lst, open, cntSkip, fd, trans, mDone, commander,
                     mPeerList, mPeerLogOnceConnected, listening, logged, owed,
                     mProcTree, mProcTreeChanged, mProcTreePeerAdded, due, tree, net,
                     may, shown, heard, msg, qLogEntries>>
      /\ at[d] = "away" /\ at' = [at EXCEPT ![d] = "backlog"]
  BY DEF Connects, PeerConnects
<1>2. /\ at' \in [Conns -> {"away", "backlog", "pipe", "peer", "dropped"}]
      /\ \A c \in Conns : at'[c] = IF c = d THEN "backlog" ELSE at[c]
  BY <1>1 DEF TypeOK, TypeListening
<1>3. TypeListening'
  <2>1. ASSUME NEW k \in Kinds
        PROVE  Cardinality({c \in Conns : at'[c] = "pipe" /\ Kind[c] = k}) <= MaxConn[k]
    <3>1. {c \in Conns : at'[c] = "pipe" /\ Kind[c] = k}
            = {c \in Conns : at[c] = "pipe" /\ Kind[c] = k}
      BY <1>1, <1>2
    <3>2. QED BY <3>1 DEF TypeOK, TypeListening
  <2>2. QED BY <1>1, <1>2, <2>1 DEF TypeOK, TypeListening
<1>4. TypeInv'
  BY <1>1, <1>3 DEF TypeOK, TypeInv
<1>5. ServerInv'
  BY <1>1, ServerKept DEF ServerInv
<1>6. NoEntryIsLost'
  BY <1>1, EntriesKept DEF Repelled
<1>7. ASSUME NEW c \in Conns PROVE ConnInv(c)'
  <2>0. PlaceInv(c) /\ TransInv(c) /\ CommandInv(c) /\ PeerInv(c) /\ OwedInv(c)
    BY DEF DebugInv, ConnInv
  <2>1. PlaceInv(c)' /\ PeerInv(c)'
    BY <1>1, <1>2, <2>0 DEF PlaceInv, PeerInv, Commanded, Repelled
  <2>2. TransInv(c)' /\ CommandInv(c)'
    BY <1>1, <1>2, <2>0 DEF TransInv, CommandInv, Commanded, Unbegun
  <2>3. OwedInv(c)'
    BY <1>1, <2>0, OwedKept
  <2>4. QED BY <2>1, <2>2, <2>3 DEF ConnInv
<1>8. QED BY <1>4, <1>5, <1>6, <1>7 DEF DebugInv

\* The tree and the clock.
LEMMA TreeMoves == DebugInv /\ (TreeChanges \/ TimePasses) => DebugInv'
<1> SUFFICES ASSUME DebugInv, TreeChanges \/ TimePasses PROVE DebugInv'
  OBVIOUS
<1> TypeOK /\ TypeInv /\ ServerInv /\ NoEntryIsLost
  BY DEF DebugInv, TypeInv
<1>1. UNCHANGED <<server, pc, lst, open, cntSkip, at, fd, trans, mDone, commander,
                  mPeerList, mPeerLogOnceConnected, listening, logged, owed,
                  mProcTree, mProcTreeChanged, mProcTreePeerAdded, net,
                  may, shown, heard, msg, qLogEntries>>
  BY DEF TreeChanges, TimePasses
<1>2. /\ tree' \in 1 .. may.trees /\ tree <= tree' /\ due' \in BOOLEAN
      /\ mProcTree \in 0 .. tree' /\ shown \in [Conns -> 0 .. tree']
  <2>1. may.trees \in Nat
    BY DebuggingAssumption DEF TypeOK
  <2>2. \/ tree' = tree /\ due' = TRUE
        \/ tree' = tree + 1 /\ tree < may.trees /\ due' = due
    BY DEF TreeChanges, TimePasses
  <2>3. tree' \in 1 .. may.trees /\ tree <= tree'
    BY <2>1, <2>2 DEF TypeOK
  <2>4. due' \in BOOLEAN
    BY <2>2 DEF TypeOK
  <2>5. 0 .. tree \subseteq 0 .. tree'
    BY <2>1, <2>3 DEF TypeOK
  <2>6. QED BY <2>3, <2>4, <2>5 DEF TypeOK
<1>3. TypeListening'
  BY <1>1, QueuesKept DEF TypeOK, TypeListening
<1>4. TypeInv'
  BY <1>1, <1>2, <1>3 DEF TypeOK, TypeInv
<1>5. ServerInv'
  BY <1>1, ServerKept DEF ServerInv
<1>6. NoEntryIsLost'
  BY <1>1, EntriesKept DEF Repelled
<1>7. ASSUME NEW c \in Conns PROVE ConnInv(c)'
  <2>0. PlaceInv(c) /\ TransInv(c) /\ CommandInv(c) /\ PeerInv(c) /\ OwedInv(c)
    BY DEF DebugInv, ConnInv
  <2>1. PlaceInv(c)' /\ TransInv(c)' /\ CommandInv(c)'
    BY <1>1, <2>0 DEF PlaceInv, TransInv, CommandInv, Commanded, Unbegun
  <2>2. PeerInv(c)' /\ OwedInv(c)'
    BY <1>1, <2>0 DEF PeerInv, OwedInv, Repelled
  <2>3. QED BY <2>1, <2>2 DEF ConnInv
<1>8. QED BY <1>4, <1>5, <1>6, <1>7 DEF DebugInv

\* The server is repelled.
LEMMA Cancels == DebugInv /\ Cancel => DebugInv'
<1> SUFFICES ASSUME DebugInv, Cancel PROVE DebugInv'
  OBVIOUS
<1> TypeOK /\ TypeInv /\ ServerInv /\ NoEntryIsLost
  BY DEF DebugInv, TypeInv
<1>1. UNCHANGED <<pc, lst, open, cntSkip, at, fd, trans, mDone, commander,
                  mPeerList, mPeerLogOnceConnected, listening, logged, owed,
                  mProcTree, mProcTreeChanged, mProcTreePeerAdded, due, tree, net,
                  may, shown, heard, msg, qLogEntries>>
  BY DEF Cancel
<1>2. /\ server' \in Process /\ server'.stage = server.stage
      /\ server'.begun = server.begun /\ (server.stage # "none" => Repelled')
  BY ProcessTypes DEF Cancel, UnusedSet, Repelled, TypeOK, Process, Stages
<1>3. TypeListening'
  BY <1>1, QueuesKept DEF TypeOK, TypeListening
<1>4. TypeInv'
  BY <1>1, <1>2, <1>3 DEF TypeOK, TypeInv
<1>5. Repelled'
  BY <1>2 DEF ServerInv
<1>6. ServerInv'
  BY <1>1, <1>2, <1>5 DEF ServerInv, Childless
<1>7. NoEntryIsLost'
  BY <1>5 DEF NoEntryIsLost
<1>8. ASSUME NEW c \in Conns PROVE ConnInv(c)'
  <2>0. PlaceInv(c) /\ TransInv(c) /\ CommandInv(c) /\ PeerInv(c) /\ OwedInv(c)
    BY DEF DebugInv, ConnInv
  <2>1. PlaceInv(c)' /\ TransInv(c)' /\ CommandInv(c)'
    BY <1>1, <1>2, <2>0 DEF PlaceInv, TransInv, CommandInv, Commanded, Unbegun
  <2>2. PeerInv(c)' /\ OwedInv(c)'
    BY <1>1, <1>5, <2>0 DEF PeerInv, OwedInv
  <2>3. QED BY <2>1, <2>2 DEF ConnInv
<1>9. QED BY <1>4, <1>6, <1>7, <1>8 DEF DebugInv

-----------------------------------------------------------------------------
(***************************************************************************)
(* The server's own step.                                                  *)
(***************************************************************************)
LEMMA ListenersStarted == DebugInv /\ listenersStart => DebugInv'
<1> SUFFICES ASSUME DebugInv, listenersStart PROVE DebugInv'
  OBVIOUS
<1> TypeOK /\ TypeInv /\ ServerInv /\ NoEntryIsLost
  BY DEF DebugInv, TypeInv
<1>1. /\ UNCHANGED <<open, cntSkip, at, fd, trans, mDone, commander,
                     mPeerList, mPeerLogOnceConnected, logged, owed,
                     mProcTree, mProcTreeChanged, mProcTreePeerAdded, due, tree, net,
                     may, shown, heard, msg, qLogEntries>>
      /\ pc = "own" /\ pc' = "idle" /\ CallsProcess(server) /\ ~server.begun
      /\ server' = Ticked(server, FALSE) /\ lst' = [k \in Kinds |-> Created]
      /\ listening' = TRUE
  BY DEF listenersStart
<1>2. /\ server.stage = "Processing" /\ ~server.canceled
      /\ server' \in Process /\ server'.stage = "Processing" /\ ~server'.canceled
      /\ server'.begun
  <2>1. server.stage = "Processing" /\ ~server.canceled /\ server \in Process
    BY <1>1 DEF CallsProcess, TypeOK
  <2>2. QED BY <1>1, <2>1, TickedIs
<1>3. lst' \in [Kinds -> Process] /\ \A k \in Kinds : lst[k] = Absent
  BY <1>1, <1>2, ProcessTypes DEF ServerInv
<1>4. TypeListening'
  BY <1>1, <1>3, QueuesKept DEF TypeOK, TypeListening
<1>5. TypeInv'
  BY <1>1, <1>2, <1>4 DEF TypeOK, TypeInv
<1>6. ServerInv'
  BY <1>1, <1>2 DEF ServerInv
<1>7. NoEntryIsLost'
  BY <1>1, <1>2, EntriesKept DEF Repelled
<1>8. ASSUME NEW c \in Conns PROVE ConnInv(c)'
  <2>0. PlaceInv(c) /\ TransInv(c) /\ CommandInv(c) /\ PeerInv(c) /\ OwedInv(c)
    BY DEF DebugInv, ConnInv
  <2>1. at[c] # "pipe"
    BY <1>3, <2>0, ProcessTypes, ListeningAssumption DEF PlaceInv
  <2>2. PlaceInv(c)'
    BY <1>1, <2>0, <2>1 DEF PlaceInv, Commanded
  <2>3. TransInv(c)' /\ CommandInv(c)'
    BY <1>1, <1>2, <2>0 DEF TransInv, CommandInv, Commanded, Unbegun
  <2>4. PeerInv(c)' /\ OwedInv(c)'
    BY <1>1, <1>2, <2>0 DEF PeerInv, OwedInv, Repelled
  <2>5. QED BY <2>2, <2>3, <2>4 DEF ConnInv
<1>9. QED BY <1>5, <1>6, <1>7, <1>8 DEF DebugInv

\* The stages of the server when its process() is not called.
LEMMA ServerMoves ==
  ASSUME TypeOK, ServerInv, server.stage # "deleted", ~CallsProcess(server),
         server' = Swept(Ticked(server, FALSE), Childless)
  PROVE  /\ server' \in Process /\ server'.stage \notin {"none", "Existent"}
         /\ server.stage = "Processing" => server'.stage = "DownShutting"
         /\ server.stage = "DownShutting" => server'.stage = "ChildrenUnusedSet"
         /\ server'.stage \notin {"Existent", "Initializing", "Processing"} => Repelled'
         /\ server'.stage = "deleted" =>
              Childless /\ server.stage # "ChildrenUnusedSet"
         /\ server'.stage # "deleted" => server'.begun = server.begun
         /\ Repelled => Repelled'
<1> DEFINE r == Ticked(server, FALSE)
<1>1. /\ r \in Process /\ r.canceled = server.canceled
      /\ server.stage = "Existent" =>
           r.stage = IF server.canceled THEN "FinishedPrepare" ELSE "Initializing"
      /\ server.stage = "Initializing" =>
           r.stage = IF server.canceled THEN "DownShutting" ELSE "Processing"
      /\ server.stage = "Processing" =>
           r.stage = IF server.canceled \/ FALSE THEN "DownShutting" ELSE "Processing"
      /\ server.stage = "DownShutting" => r.stage = "ChildrenUnusedSet"
      /\ server.stage = "ChildrenUnusedSet" => r.stage = "FinishedPrepare"
      /\ server.stage = "FinishedPrepare" => r.stage = "Finished"
      /\ server.stage \in {"none", "Finished", "deleted"} => r = server
      /\ r.begun = server.begun
  <2>1. server \in Process
    BY DEF TypeOK
  <2>2. QED BY <2>1, TickedIs
<1>2. /\ server' \in Process
      /\ r.stage # "Finished" => server' = r
      /\ r.stage = "Finished" =>
           server' = r \/ (server'.stage = "deleted" /\ Childless)
  <2>1. [Absent EXCEPT !.stage = "deleted"].stage = "deleted"
    BY DEF Absent
  <2>2. server' = Swept(r, Childless)
    OBVIOUS
  <2> HIDE DEF r
  <2>3. Swept(r, Childless) \in Process
    BY <1>1 DEF Swept, Process, Stages, Absent
  <2>4. Swept(r, Childless) =
          IF r.stage = "Finished" /\ Childless /\ r.unused
          THEN [Absent EXCEPT !.stage = "deleted"] ELSE r
    BY Zenon DEF Swept
  <2>5. CASE r.stage = "Finished" /\ Childless /\ r.unused
    BY <2>1, <2>2, <2>3, <2>4, <2>5
  <2>6. CASE ~(r.stage = "Finished" /\ Childless /\ r.unused)
    <3>1. server' = r
      BY <2>2, <2>4, <2>6
    <3>2. QED BY <1>1, <3>1
  <2>7. QED BY <2>5, <2>6
<1>3. server.stage \in Stages /\ server.stage # "none"
  BY DEF TypeOK, ServerInv, Process
<1>4. server.stage = "Processing" => server.canceled
  BY DEF CallsProcess
<1> HIDE DEF r
<1>5. server.stage \notin {"Existent", "Initializing", "Processing"} => server.canceled
  BY DEF ServerInv, Repelled
<1>6. Repelled' <=> server'.canceled \/ server'.stage = "deleted"
  BY DEF Repelled
<1>7. Repelled <=> server.canceled
  BY DEF Repelled
<1>8. server'.stage # "deleted" => server' = r
  BY <1>2
<1>9. r.stage \notin {"Existent", "Initializing", "Processing"} => r.canceled
  BY <1>1, <1>3, <1>4, <1>5 DEF Stages
<1>10. QED BY <1>1, <1>2, <1>3, <1>4, <1>6, <1>7, <1>8, <1>9 DEF Stages

\* Only when all its command lines have begun, or are not yet there, the server
\* asks its children to end.
LEMMA OwnSteps == DebugInv /\ OwnStep => DebugInv'
<1> SUFFICES ASSUME DebugInv, OwnStep PROVE DebugInv'
  OBVIOUS
<1> TypeOK /\ TypeInv /\ ServerInv /\ NoEntryIsLost
  BY DEF DebugInv, TypeInv
<1>1. /\ UNCHANGED <<open, cntSkip, at, fd, mDone, listening,
                     mPeerList, mPeerLogOnceConnected, logged, owed,
                     mProcTree, mProcTreeChanged, mProcTreePeerAdded, due, tree, net,
                     may, shown, heard, msg, qLogEntries>>
      /\ pc = "own" /\ pc' = "idle" /\ ~CallsProcess(server)
      /\ server' = Swept(Ticked(server, FALSE), Childless)
      /\ server.stage # "ChildrenUnusedSet" => UNCHANGED <<lst, trans, commander>>
      /\ server.stage = "ChildrenUnusedSet" =>
           /\ lst' = [k \in Kinds |-> UnusedSet(lst[k])]
           /\ trans' = [c \in Conns |->
                IF Commanded(c) THEN trans[c] ELSE UnusedSet(trans[c])]
           /\ commander' = [c \in Conns |-> UnusedSet(commander[c])]
  BY DEF OwnStep
<1>2. server.stage # "deleted"
  BY <1>1 DEF ServerInv
<1>3. /\ server' \in Process /\ server'.stage \notin {"none", "Existent"}
      /\ server.stage = "Processing" => server'.stage = "DownShutting"
      /\ server.stage = "DownShutting" => server'.stage = "ChildrenUnusedSet"
      /\ server'.stage \notin {"Existent", "Initializing", "Processing"} => Repelled'
      /\ server'.stage = "deleted" =>
           Childless /\ server.stage # "ChildrenUnusedSet"
      /\ server'.stage # "deleted" => server'.begun = server.begun
      /\ Repelled => Repelled'
  BY <1>1, <1>2, ServerMoves
<1>4. ASSUME NEW k \in Kinds
      PROVE  /\ lst'[k] \in Process /\ lst'[k].stage = lst[k].stage
             /\ lst[k] = Absent => lst'[k] = Absent
  BY <1>1, UnusedSetIs, ProcessTypes DEF TypeOK, TypeListening
<1>5. ASSUME NEW c \in Conns
      PROVE  /\ trans'[c] \in Process /\ commander'[c] \in Process
             /\ trans'[c].stage = trans[c].stage /\ trans'[c].over = trans[c].over
             /\ commander'[c].stage = commander[c].stage
             /\ commander'[c].begun = commander[c].begun
             /\ trans[c] = Absent => trans'[c] = Absent
             /\ commander[c] = Absent => commander'[c] = Absent
             /\ Commanded(c) => trans'[c] = trans[c]
             /\ server.stage # "ChildrenUnusedSet" =>
                  trans'[c] = trans[c] /\ commander'[c] = commander[c]
  BY <1>1, UnusedSetIs, ProcessTypes DEF TypeOK
<1>6. /\ lst' \in [Kinds -> Process] /\ trans' \in [Conns -> Process]
      /\ commander' \in [Conns -> Process]
  <2>1. CASE server.stage = "ChildrenUnusedSet"
    <3>1. /\ \A k \in Kinds : UnusedSet(lst[k]) \in Process
          /\ \A c \in Conns : UnusedSet(trans[c]) \in Process
                                /\ UnusedSet(commander[c]) \in Process
      BY UnusedSetIs DEF TypeOK, TypeListening
    <3>2. QED BY <1>1, <2>1, <3>1 DEF TypeOK
  <2>2. CASE server.stage # "ChildrenUnusedSet"
    BY <1>1, <2>2 DEF TypeOK, TypeListening
  <2>3. QED BY <2>1, <2>2
<1>7. TypeListening'
  BY <1>1, <1>6, QueuesKept DEF TypeOK, TypeListening
<1>8. TypeInv'
  BY <1>1, <1>3, <1>6, <1>7 DEF TypeOK, TypeInv
<1>9. ServerInv'
  <2>1. server'.stage = "deleted" => Childless' /\ pc' = "idle"
    BY <1>1, <1>3 DEF Childless
  <2>2. ~server'.begun /\ server'.stage # "deleted" => \A k \in Kinds : lst'[k] = Absent
    BY <1>2, <1>3, <1>4 DEF ServerInv
  <2>3. QED BY <1>1, <1>3, <2>1, <2>2 DEF ServerInv
<1>10. NoEntryIsLost'
  BY <1>1, <1>3, EntriesKept
<1>11. ASSUME NEW c \in Conns PROVE ConnInv(c)'
  <2>0. PlaceInv(c) /\ TransInv(c) /\ CommandInv(c) /\ PeerInv(c) /\ OwedInv(c)
    BY DEF DebugInv, ConnInv
  <2>1. PlaceInv(c)'
    BY <1>1, <1>4, <1>5, <2>0, ListeningAssumption DEF PlaceInv, Commanded
  <2>2. TransInv(c)'
    BY <1>1, <1>5, <2>0 DEF TransInv, Commanded
  <2>3. CommandInv(c)'
    BY <1>1, <1>3, <1>5, <2>0 DEF CommandInv, Commanded, Unbegun
  <2>4. server.stage = "ChildrenUnusedSet" => Repelled
    BY DEF ServerInv
  <2>5. PeerInv(c)' /\ OwedInv(c)'
    BY <1>1, <1>3, <1>5, <2>0, <2>4 DEF PeerInv, OwedInv
  <2>6. QED BY <2>1, <2>2, <2>3, <2>5 DEF ConnInv
<1>12. QED BY <1>8, <1>9, <1>10, <1>11 DEF DebugInv

\* Queued connections get their process, peers that leave are given up.
LEMMA PeersUpdated == DebugInv /\ peerListUpdate => DebugInv'
<1> SUFFICES ASSUME DebugInv, peerListUpdate PROVE DebugInv'
  OBVIOUS
<1> TypeOK /\ TypeInv /\ ServerInv /\ NoEntryIsLost
  BY DEF DebugInv, TypeInv
<1> DEFINE queued == {c \in Conns : at[c] = "pipe"}
           quiet  == {c \in Leaving : trans[c].begun /\ net[c] # "quit"}
           new    == \E c \in queued : Kind[c] = "proc"
<1>1. /\ UNCHANGED <<server, lst, open, cntSkip, mDone, listening, logged, owed,
                     mProcTree, mProcTreeChanged, tree, net,
                     may, shown, heard, msg, qLogEntries>>
      /\ pc = "own" /\ pc' = "tree" /\ CallsProcess(server) /\ server.begun
      /\ at' = [c \in Conns |-> IF c \in queued THEN "peer" ELSE at[c]]
      /\ trans' = [c \in Conns |->
            IF c \in Leaving THEN UnusedSet(trans[c])
            ELSE IF c \in queued /\ ~Commanded(c) THEN Created ELSE trans[c]]
      /\ commander' = [c \in Conns |->
            IF c \in queued /\ Commanded(c) THEN Created ELSE commander[c]]
      /\ fd' = [c \in Conns |-> IF c \in quiet THEN "closed" ELSE fd[c]]
      /\ mPeerList' = (mPeerList \ Leaving) \cup {c \in queued : ~Commanded(c)}
      /\ mProcTreePeerAdded' = (mProcTreePeerAdded \/ new)
      /\ due' = (due \/ new)
      /\ mPeerLogOnceConnected' = (mPeerLogOnceConnected \/ Peers("log") # {})
  BY DEF peerListUpdate
<1>2. server.stage = "Processing" /\ ~server.canceled /\ ~Repelled
  BY <1>1 DEF CallsProcess, Repelled
<1>3. {mProcTreePeerAdded', due', mPeerLogOnceConnected'} \subseteq BOOLEAN
  <2>1. mProcTreePeerAdded' \in BOOLEAN
    BY <1>1
  <2>2. due' \in BOOLEAN
    BY <1>1
  <2>3. mPeerLogOnceConnected' \in BOOLEAN
    BY <1>1
  <2>4. QED BY <2>1, <2>2, <2>3
<1>4. Leaving \subseteq mPeerList /\ quiet \subseteq Leaving /\ mPeerList \subseteq Conns
  BY DEF Leaving, TypeOK
<1>5. ASSUME NEW c \in Conns
      PROVE  /\ at[c] = "pipe" =>
                  /\ at'[c] = "peer" /\ fd'[c] = "open" /\ c \notin mPeerList
                  /\ trans'[c] = (IF Commanded(c) THEN Absent ELSE Created)
                  /\ commander'[c] = (IF Commanded(c) THEN Created ELSE Absent)
                  /\ c \in mPeerList' <=> ~Commanded(c)
             /\ at[c] # "pipe" => at'[c] = at[c] /\ commander'[c] = commander[c]
             /\ c \in Leaving =>
                  /\ at[c] = "peer" /\ c \notin mPeerList' /\ ~Commanded(c)
                  /\ trans'[c] = UnusedSet(trans[c])
                  /\ fd'[c] \in {"closed", fd[c]}
             /\ at[c] # "pipe" /\ c \notin Leaving =>
                  /\ trans'[c] = trans[c] /\ fd'[c] = fd[c]
                  /\ c \in mPeerList' <=> c \in mPeerList
  <2>1. PlaceInv(c) /\ PeerInv(c)
    BY DEF DebugInv, ConnInv
  <2>2. c \in mPeerList => ~Commanded(c)
    BY DEF TypeOK, Commanded
  <2>3. QED BY <1>1, <1>4, <2>1, <2>2 DEF PlaceInv, PeerInv
<1>6. /\ at' \in [Conns -> {"away", "backlog", "pipe", "peer", "dropped"}]
      /\ fd' \in [Conns -> {"none", "open", "closed"}]
      /\ trans' \in [Conns -> Process] /\ commander' \in [Conns -> Process]
      /\ mPeerList' \subseteq {c \in Conns : Kind[c] \in {"proc", "log"}}
  <2>1. \A c \in Conns : UnusedSet(trans[c]) \in Process
    BY UnusedSetIs DEF TypeOK
  <2>2. trans' \in [Conns -> Process] /\ commander' \in [Conns -> Process]
    BY <1>1, <2>1, ProcessTypes DEF TypeOK
  <2>3. mPeerList' \subseteq {c \in Conns : Kind[c] \in {"proc", "log"}}
    BY <1>1, ListeningAssumption DEF TypeOK, Commanded, Kinds
  <2>4. QED BY <1>1, <2>2, <2>3 DEF TypeOK, TypeListening
<1>7. TypeListening'
  <2>1. ASSUME NEW k \in Kinds
        PROVE  Cardinality({c \in Conns : at'[c] = "pipe" /\ Kind[c] = k}) <= MaxConn[k]
    <3>1. {c \in Conns : at'[c] = "pipe" /\ Kind[c] = k} = {}
      BY <1>5
    <3>2. Cardinality({}) = 0
      BY FS_EmptySet
    <3>3. MaxConn[k] \in Nat
      BY ListeningAssumption
    <3>4. QED BY <3>1, <3>2, <3>3
  <2>2. QED BY <1>1, <1>6, <2>1 DEF TypeOK, TypeListening
<1>8. TypeInv'
  BY <1>1, <1>3, <1>6, <1>7 DEF TypeOK, TypeInv
<1>9. ServerInv'
  BY <1>1, <1>2 DEF ServerInv
<1>10. NoEntryIsLost'
  BY <1>1, EntriesKept DEF Repelled
<1>11. ASSUME NEW c \in Conns PROVE ConnInv(c)'
  <2>0. PlaceInv(c) /\ TransInv(c) /\ CommandInv(c) /\ PeerInv(c) /\ OwedInv(c)
    BY DEF DebugInv, ConnInv
  <2>1. CASE at[c] = "pipe"
    <3>1. c \notin owed \ Stalls \/ net[c] # "open"
      BY <1>2, <1>5, <2>0, <2>1 DEF OwedInv
    <3>2. PlaceInv(c)' /\ TransInv(c)' /\ CommandInv(c)'
      BY <1>1, <1>2, <1>5, <2>0, <2>1, ProcessTypes
         DEF PlaceInv, TransInv, CommandInv, Commanded, Unbegun, Live
    <3>3. PeerInv(c)' /\ OwedInv(c)'
      BY <1>1, <1>2, <1>5, <2>0, <2>1, <3>1, ProcessTypes DEF PeerInv, OwedInv
    <3>4. QED BY <3>2, <3>3 DEF ConnInv
  <2>2. CASE c \in Leaving
    <3>1. /\ trans'[c].stage = trans[c].stage
          /\ trans[c] = Absent => trans'[c] = Absent
      BY <1>5, <2>2, UnusedSetIs, ProcessTypes DEF TypeOK
    <3>2. fd[c] # "open" \/ net[c] # "open" \/ trans[c].over
      BY <2>2 DEF Leaving, DisconnectRequested
    <3>3. PlaceInv(c)' /\ TransInv(c)' /\ CommandInv(c)'
      BY <1>1, <1>5, <2>0, <2>2, <3>1 DEF PlaceInv, TransInv, CommandInv, Commanded
    <3>4. net[c] # "open"
      BY <1>2, <1>4, <2>0, <2>2, <3>2 DEF PeerInv
    <3>5. PeerInv(c)' /\ OwedInv(c)'
      BY <1>1, <1>5, <2>0, <2>2, <3>4 DEF PeerInv, OwedInv
    <3>6. QED BY <3>3, <3>5 DEF ConnInv
  <2>3. CASE at[c] # "pipe" /\ c \notin Leaving
    <3>1. PlaceInv(c)' /\ TransInv(c)' /\ CommandInv(c)'
      BY <1>1, <1>2, <1>5, <2>0, <2>3
         DEF PlaceInv, TransInv, CommandInv, Commanded, Unbegun
    <3>2. PeerInv(c)' /\ OwedInv(c)'
      BY <1>1, <1>5, <2>0, <2>3 DEF PeerInv, OwedInv, Repelled
    <3>3. QED BY <3>1, <3>2 DEF ConnInv
  <2>4. QED BY <2>1, <2>2, <2>3
<1>12. QED BY <1>8, <1>9, <1>10, <1>11 DEF DebugInv

-----------------------------------------------------------------------------
(***************************************************************************)
(* The listeners.                                                          *)
(***************************************************************************)
LEMMA ModIs == \A x \in Nat, n \in Nat \ {0} : x % n \in 0 .. n - 1
OBVIOUS

\* What a listener accepts fits into its queue, from both sockets together.
LEMMA QueueFits ==
  ASSUME TypeListening, NEW k \in Kinds, NEW T, NEW D, connectionsAccept(k, T, D)
  PROVE  Cardinality(In("pipe", k) \cup T) <= MaxConn[k]
<1> DEFINE w4 == {c \in In("backlog", k) : Fam[c] = "v4" /\ "v4" \in open[k]}
           w6 == {c \in In("backlog", k) : Fam[c] = "v6" /\ "v6" \in open[k]}
           M == MaxConn[k]
           P == In("pipe", k)
           p == Cardinality(P)
           t4 == Cardinality(T \cap w4)
           t6 == Cardinality(T \cap w6)
<1>1. /\ T \subseteq w4 \cup w6
      /\ t4 = Less(Cardinality(w4), M - Less(p, M))
      /\ t6 = Less(Cardinality(w6), M - Less(p + t4, M))
  <2>1. T \subseteq w4 \cup w6
    BY DEF connectionsAccept
  <2>2. \A f \in Fams :
          Size(T \cap {c \in In("backlog", k) : Fam[c] = f /\ f \in open[k]})
            = Less(Size({c \in In("backlog", k) : Fam[c] = f /\ f \in open[k]}),
                   MaxConn[k] - Less(Size(In("pipe", k))
                     + (IF f = "v6" THEN Size(T \cap w4) ELSE 0), MaxConn[k]))
    BY DEF connectionsAccept
  <2>3. Size(T \cap w4) = Less(Size(w4), MaxConn[k] - Less(Size(In("pipe", k)) + 0, MaxConn[k]))
    BY <2>2 DEF Fams
  <2>4. Size(T \cap w6) = Less(Size(w6),
          MaxConn[k] - Less(Size(In("pipe", k)) + Size(T \cap w4), MaxConn[k]))
    BY <2>2 DEF Fams
  <2>5. Size(In("pipe", k)) + 0 = Size(In("pipe", k))
    <3>1. IsFiniteSet(In("pipe", k))
      <4>1. In("pipe", k) \subseteq Conns
        BY DEF In
      <4>2. QED BY <4>1, FS_Subset, ListeningAssumption
    <3>2. Size(In("pipe", k)) \in Nat
      BY <3>1, FS_CardinalityType DEF Size
    <3>3. QED BY <3>2
  <2>6. QED BY <2>1, <2>3, <2>4, <2>5 DEF Size
<1>2. IsFiniteSet(w4) /\ IsFiniteSet(w6) /\ IsFiniteSet(P)
  <2>1. w4 \subseteq Conns /\ w6 \subseteq Conns /\ P \subseteq Conns
    BY DEF In
  <2>2. QED BY <2>1, FS_Subset, ListeningAssumption
<1>3. p <= M /\ M \in Nat
  BY ListeningAssumption DEF TypeListening, In
<1> HIDE DEF w4, w6, P, M
<1>4. IsFiniteSet(T \cap w4) /\ IsFiniteSet(T \cap w6)
  BY <1>2, FS_Intersection
<1>5. p \in Nat /\ t4 \in Nat /\ t6 \in Nat /\ Cardinality(w4) \in Nat
      /\ Cardinality(w6) \in Nat
  BY <1>2, <1>4, FS_CardinalityType
<1>6. T = (T \cap w4) \cup (T \cap w6)
  BY <1>1
<1>7. IsFiniteSet(T) /\ Cardinality(T) <= t4 + t6
  <2>1. /\ IsFiniteSet((T \cap w4) \cup (T \cap w6))
        /\ Cardinality((T \cap w4) \cup (T \cap w6))
             = t4 + t6 - Cardinality((T \cap w4) \cap (T \cap w6))
    BY <1>4, FS_Union
  <2>2. Cardinality((T \cap w4) \cap (T \cap w6)) \in Nat
    BY <1>4, FS_Intersection, FS_CardinalityType
  <2> DEFINE x == Cardinality((T \cap w4) \cap (T \cap w6))
  <2> HIDE DEF x, t4, t6
  <2>3. t4 + t6 - x <= t4 + t6
    BY <1>5, <2>2 DEF x
  <2>4. QED BY <1>6, <2>1, <2>3 DEF x
<1>8. Cardinality(P \cup T) <= p + Cardinality(T) /\ Cardinality(T) \in Nat
      /\ Cardinality(P \cup T) \in Nat
  <2>1. /\ Cardinality(P \cup T) = p + Cardinality(T) - Cardinality(P \cap T)
        /\ IsFiniteSet(P \cup T)
    BY <1>2, <1>7, FS_Union
  <2>2. /\ Cardinality(P \cap T) \in Nat /\ Cardinality(T) \in Nat
        /\ Cardinality(P \cup T) \in Nat
    BY <1>2, <1>7, <2>1, FS_Intersection, FS_CardinalityType
  <2> DEFINE x == Cardinality(P \cap T)
             y == Cardinality(T)
  <2> HIDE DEF x, y, p
  <2>3. p + y - x <= p + y
    BY <1>5, <2>2 DEF x, y
  <2>4. QED BY <2>1, <2>2, <2>3 DEF x, y
<1> DEFINE n == Cardinality(P \cup T)
           y == Cardinality(T)
           a == Cardinality(w4)
           b == Cardinality(w6)
<1>9. n \in Nat /\ y \in Nat /\ n <= p + y /\ y <= t4 + t6 /\ a \in Nat /\ b \in Nat
      /\ t4 = Less(a, M - Less(p, M)) /\ t6 = Less(b, M - Less(p + t4, M))
  BY <1>1, <1>5, <1>7, <1>8
<1> HIDE DEF n, y, a, b, p, t4, t6
<1>10. t4 <= M - p
  BY <1>3, <1>5, <1>9 DEF Less
<1>11. t6 <= M - (p + t4)
  BY <1>3, <1>5, <1>9, <1>10 DEF Less
<1>12. n <= M
  BY <1>3, <1>5, <1>9, <1>10, <1>11
<1>13. QED BY <1>12 DEF n, P, M

LEMMA ListenersTicked ==
  ASSUME TypeListening, NEW up, NEW taken \in SUBSET Waiting,
         NEW drop \in SUBSET (Waiting \ taken), ListenersTick(up, taken, drop)
  PROVE  /\ lst' \in [Kinds -> Process] /\ open' \in [Kinds -> SUBSET Fams]
         /\ cntSkip' \in [Kinds -> 0 .. CntSkipMax - 1]
         /\ at' \in [Conns -> {"away", "backlog", "pipe", "peer", "dropped"}]
         /\ \A k \in Kinds :
              /\ Moves(lst[k], lst'[k])
              /\ Looks(k) => lst'[k].stage = "Processing"
              /\ Cardinality({c \in Conns : at'[c] = "pipe" /\ Kind[c] = k}) <= MaxConn[k]
         /\ \A c \in taken \cup drop : Looks(Kind[c])
<1>1. /\ \A k \in Kinds :
           IF Looks(k)
           THEN connectionsAccept(k, {c \in taken : Kind[c] = k},
                                     {c \in drop : Kind[c] = k})
           ELSE \A c \in taken \cup drop : Kind[c] # k
      /\ lst' = [k \in Kinds |->
           Swept(Ticked(lst[k], Starts(k) /\ <<k, "v4">> \notin up), TRUE)]
      /\ open' = [k \in Kinds |->
           IF Starts(k) THEN socketsCreated(k, up)
           ELSE IF k \in {x \in Kinds : lst[x].stage = "DownShutting"}
                THEN {} ELSE open[k]]
      /\ cntSkip' = [k \in Kinds |->
           IF CallsProcess(lst[k]) /\ lst[k].begun
           THEN (cntSkip[k] + 1) % CntSkipMax ELSE cntSkip[k]]
      /\ at' = [c \in Conns |->
           IF c \in taken THEN "pipe"
           ELSE IF c \in drop
                     \cup {x \in Conns : at[x] = "backlog" /\
                             Kind[x] \in {k \in Kinds : lst[k].stage = "DownShutting"}}
                     \cup ShutdownCloses
                THEN "dropped" ELSE at[c]]
  BY DEF ListenersTick
<1>2. \A c \in Conns : Kind[c] \in Kinds
  BY ListeningAssumption
<1>3. taken \subseteq Conns /\ drop \subseteq Conns
      /\ \A c \in taken \cup drop : at[c] = "backlog"
  BY DEF Waiting
<1>4. ASSUME NEW k \in Kinds
      PROVE  /\ Moves(lst[k], lst'[k]) /\ lst'[k] \in Process
             /\ Looks(k) => lst'[k].stage = "Processing"
  <2> DEFINE ends == Starts(k) /\ <<k, "v4">> \notin up
  <2>1. lst[k] \in Process
    BY DEF TypeListening
  <2>2. lst'[k] = Swept(Ticked(lst[k], ends), TRUE)
    BY <1>1
  <2>3. Moves(lst[k], lst'[k])
    <3>1. CASE ends
      <4>1. Ticked(lst[k], ends) = Ticked(lst[k], TRUE)
        BY <3>1 DEF Ticked
      <4>2. QED BY <2>1, <2>2, <4>1, TickedMoves
    <3>2. CASE ~ends
      <4>1. Ticked(lst[k], ends) = Ticked(lst[k], FALSE)
        BY <3>2 DEF Ticked
      <4>2. QED BY <2>1, <2>2, <4>1, TickedMoves
    <3>3. QED BY <3>1, <3>2
  <2>4. Looks(k) => lst'[k].stage = "Processing"
    <3>1. SUFFICES ASSUME Looks(k) PROVE lst'[k].stage = "Processing"
      OBVIOUS
    <3>2. ~ends /\ lst[k].stage = "Processing" /\ ~lst[k].canceled
      BY <3>1 DEF Looks, Starts, CallsProcess
    <3>3. Ticked(lst[k], ends) = [lst[k] EXCEPT !.begun = TRUE]
      BY <3>2 DEF Ticked
    <3>4. Ticked(lst[k], ends).stage = "Processing"
      BY <2>1, <3>2, <3>3 DEF Process
    <3>5. QED BY <2>2, <3>4 DEF Swept
  <2>5. QED BY <2>3, <2>4 DEF Moves
<1>5. lst' \in [Kinds -> Process]
  BY <1>1, <1>4
<1>6. open' \in [Kinds -> SUBSET Fams]
  <2>1. ASSUME NEW k \in Kinds PROVE socketsCreated(k, up) \in SUBSET Fams
    BY DEF socketsCreated
  <2>2. QED BY <1>1, <2>1 DEF TypeListening
<1>7. cntSkip' \in [Kinds -> 0 .. CntSkipMax - 1]
  <2>1. ASSUME NEW k \in Kinds
        PROVE (cntSkip[k] + 1) % CntSkipMax \in 0 .. CntSkipMax - 1
    <3>1. cntSkip[k] + 1 \in Nat
      BY ListeningAssumption DEF TypeListening
    <3>2. QED BY <3>1, ModIs, ListeningAssumption
  <2>2. QED BY <1>1, <2>1 DEF TypeListening
<1>8. at' \in [Conns -> {"away", "backlog", "pipe", "peer", "dropped"}]
  BY <1>1 DEF TypeListening
<1>9. \A c \in taken \cup drop : Looks(Kind[c])
  BY <1>1, <1>2, <1>3
<1>10. ASSUME NEW k \in Kinds
       PROVE  Cardinality({c \in Conns : at'[c] = "pipe" /\ Kind[c] = k}) <= MaxConn[k]
  <2> DEFINE T == {c \in taken : Kind[c] = k}
  <2>1. CASE Looks(k)
    <3>1. lst[k].stage = "Processing"
      BY <2>1 DEF Looks, CallsProcess
    <3>2. {c \in Conns : at'[c] = "pipe" /\ Kind[c] = k} = In("pipe", k) \cup T
      BY <1>1, <1>3, <3>1 DEF In, ShutdownCloses
    <3>3. connectionsAccept(k, T, {c \in drop : Kind[c] = k})
      BY <1>1, <2>1
    <3>4. QED BY <3>2, <3>3, QueueFits
  <2>2. CASE ~Looks(k)
    <3>1. {c \in Conns : at'[c] = "pipe" /\ Kind[c] = k} \subseteq In("pipe", k)
      BY <1>1, <2>2 DEF In
    <3>2. In("pipe", k) \subseteq Conns
      BY DEF In
    <3>3. IsFiniteSet(In("pipe", k))
      BY <3>2, FS_Subset, ListeningAssumption
    <3> DEFINE x == Cardinality({c \in Conns : at'[c] = "pipe" /\ Kind[c] = k})
               y == Cardinality(In("pipe", k))
    <3>4. x <= y /\ x \in Nat /\ y \in Nat
      BY <3>1, <3>3, FS_Subset, FS_CardinalityType
    <3>5. y <= MaxConn[k] /\ MaxConn[k] \in Nat
      BY ListeningAssumption DEF TypeListening, In
    <3> HIDE DEF x, y
    <3>6. x <= MaxConn[k]
      BY <3>4, <3>5
    <3>7. QED BY <3>6 DEF x
  <2>3. QED BY <2>1, <2>2
<1>11. QED BY <1>4, <1>5, <1>6, <1>7, <1>8, <1>9, <1>10

-----------------------------------------------------------------------------
(***************************************************************************)
(* The processes of the connections.                                       *)
(***************************************************************************)

\* A transfer moves on, but for the one that its command line creates.
LEMMA TransMoves ==
  ASSUME TypeOK, NEW c \in Conns,
         trans'[c] = IF Commanded(c) THEN CommandedTrans(c)
                                     ELSE Swept(TransTicked(c), TRUE)
  PROVE  /\ Commanded(c) /\ CallsProcess(commander[c]) /\ ~commander[c].begun =>
              trans'[c] = Created
         /\ ~(Commanded(c) /\ CallsProcess(commander[c]) /\ ~commander[c].begun) =>
              Moves(trans[c], trans'[c])
         /\ trans'[c] \in Process
         /\ ~Commanded(c) /\ ~TransEnds(c) /\ ~trans[c].canceled
              /\ trans[c].stage \in {"Existent", "Initializing", "Processing"} =>
              /\ trans'[c].stage \in {"Initializing", "Processing"}
              /\ ~trans'[c].canceled /\ trans'[c].over = trans[c].over
<1> DEFINE t == trans[c]
           first == Commanded(c) /\ CallsProcess(commander[c]) /\ ~commander[c].begun
<1>1. t \in Process
  BY DEF TypeOK
<1>2. PICK e \in BOOLEAN : TransTicked(c) = Ticked(t, e) /\ (e <=> TransEnds(c))
  <2>1. CASE TransEnds(c)
    <3>1. TransTicked(c) = Ticked(t, TRUE)
      BY <2>1 DEF TransTicked, Ticked
    <3>2. QED BY <2>1, <3>1
  <2>2. CASE ~TransEnds(c)
    <3>1. TransTicked(c) = Ticked(t, FALSE)
      BY <2>2 DEF TransTicked, Ticked
    <3>2. QED BY <2>2, <3>1
  <2>3. QED BY <2>1, <2>2
<1>3. first => trans'[c] = Created
  BY DEF CommandedTrans
<1>4. ~first => \/ trans'[c] = UnusedSet(Ticked(t, e)) /\ Commanded(c)
                \/ trans'[c] = Swept(Ticked(t, e), TRUE)
  BY <1>2 DEF CommandedTrans
<1>5. ~Commanded(c) => trans'[c] = Swept(Ticked(t, e), TRUE)
  BY <1>2
<1>6. /\ Moves(t, UnusedSet(Ticked(t, e))) /\ Moves(t, Swept(Ticked(t, e), TRUE))
  BY <1>1, TickedMoves
<1> HIDE DEF first
<1>7. ~first => Moves(t, trans'[c])
  BY <1>4, <1>6
<1>8. trans'[c] \in Process
  BY <1>3, <1>7, ProcessTypes DEF Moves
<1>9. ASSUME ~Commanded(c), ~TransEnds(c), ~t.canceled,
             t.stage \in {"Existent", "Initializing", "Processing"}
      PROVE  /\ trans'[c].stage \in {"Initializing", "Processing"}
             /\ ~trans'[c].canceled /\ trans'[c].over = t.over
  <2>1. /\ Ticked(t, FALSE).stage \in {"Initializing", "Processing"}
        /\ Ticked(t, FALSE).over = t.over /\ ~Ticked(t, FALSE).canceled
    BY <1>1, <1>9, TickedIs
  <2>2. e = FALSE
    BY <1>2, <1>9
  <2>3. trans'[c] = Swept(Ticked(t, FALSE), TRUE)
    BY <1>5, <1>9, <2>2
  <2>4. trans'[c] = Ticked(t, FALSE)
    BY <2>1, <2>3 DEF Swept
  <2>5. QED BY <2>1, <2>4
<1>10. QED BY <1>3, <1>7, <1>8, <1>9 DEF first

LEMMA CommanderMoves ==
  ASSUME TypeOK, NEW c \in Conns, NEW S \in SUBSET Conns,
         commander'[c] = CommanderTicked(c, c \in S)
  PROVE  LET sc == commander[c]
             next == commander'[c] IN
         /\ Moves(sc, next) /\ next \in Process
         /\ sc.stage \in {"Existent", "Initializing"} =>
              /\ next.stage \in {"Initializing", "Processing"} =>
                   next.begun = sc.begun /\ next.canceled = sc.canceled
              /\ sc.stage = "Initializing" /\ ~sc.canceled =>
                   next.stage = "Processing"
         /\ sc.stage = "Processing" /\ next.stage = "Processing" => next.begun
         /\ CallsProcess(sc) /\ ~sc.begun => next.stage = "Processing"
<1> DEFINE sc == commander[c]
           next == commander'[c]
           ends == sc.begun /\ (c \in S \/ TransTicked(c).over)
           childless == CommandedTrans(c).stage \in {"none", "deleted"}
<1>1. sc \in Process
  BY DEF TypeOK
<1>2. PICK e \in BOOLEAN : Ticked(sc, ends) = Ticked(sc, e) /\ (e <=> ends)
  <2>1. CASE ends
    <3>1. Ticked(sc, ends) = Ticked(sc, TRUE)
      BY <2>1 DEF Ticked
    <3>2. QED BY <2>1, <3>1
  <2>2. CASE ~ends
    <3>1. Ticked(sc, ends) = Ticked(sc, FALSE)
      BY <2>2 DEF Ticked
    <3>2. QED BY <2>2, <3>1
  <2>3. QED BY <2>1, <2>2
<1> DEFINE r == Ticked(sc, e)
           u == IF sc.stage = "FinishedPrepare" THEN UnusedSet(r) ELSE r
<1>3. next = Swept(u, childless)
  BY <1>2 DEF CommanderTicked
<1>4. ~sc.begun => ~e
  BY <1>2
<1> HIDE DEF ends, childless
<1>5. next = Swept(u, TRUE) \/ next = u
  BY <1>3 DEF Swept
<1>6. /\ Moves(sc, r) /\ Moves(sc, Swept(r, TRUE))
      /\ Moves(sc, UnusedSet(r)) /\ Moves(sc, Swept(UnusedSet(r), TRUE))
  BY <1>1, TickedMoves
<1>7. Moves(sc, next)
  BY <1>5, <1>6
<1>8. /\ r.canceled = sc.canceled
      /\ sc.stage = "Existent" =>
           r.stage = IF sc.canceled THEN "FinishedPrepare" ELSE "Initializing"
      /\ sc.stage = "Initializing" =>
           r.stage = IF sc.canceled THEN "DownShutting" ELSE "Processing"
      /\ sc.stage = "Processing" =>
           r.stage = IF sc.canceled \/ e THEN "DownShutting" ELSE "Processing"
      /\ CallsProcess(sc) => r.begun
      /\ ~CallsProcess(sc) => r.begun = sc.begun
  BY <1>1, TickedIs
<1>9. sc.stage \in {"Existent", "Initializing", "Processing"} => next = r
  <2>1. SUFFICES ASSUME sc.stage \in {"Existent", "Initializing", "Processing"}
                 PROVE  next = r
    OBVIOUS
  <2>2. u = r
    BY <2>1
  <2>3. r.stage # "Finished"
    BY <1>8, <2>1
  <2>4. QED BY <1>3, <2>2, <2>3 DEF Swept
<1> HIDE DEF r, u
<1>10. sc.stage \in {"Existent", "Initializing"} =>
         /\ next.begun = sc.begun /\ next.canceled = sc.canceled
         /\ sc.stage = "Initializing" /\ ~sc.canceled => next.stage = "Processing"
  BY <1>8, <1>9 DEF CallsProcess
<1>11. sc.stage = "Processing" /\ next.stage = "Processing" => next.begun
  BY <1>8, <1>9 DEF CallsProcess
<1>12. CallsProcess(sc) /\ ~sc.begun => next.stage = "Processing"
  BY <1>4, <1>8, <1>9 DEF CallsProcess
<1>13. QED BY <1>7, <1>10, <1>11, <1>12 DEF Moves

\* A tick of the children: what is open is still closed by somebody.
LEMMA ChildrenTicked ==
  ASSUME DebugInv, NEW leave \in SUBSET Leavers, NEW failed \in SUBSET MayFail,
         NEW taken \in SUBSET Waiting, NEW drop \in SUBSET (Waiting \ taken),
         ChildrenTick(leave, failed, taken, drop)
  PROVE  DebugInv'
<1> TypeOK /\ TypeInv /\ ServerInv /\ NoEntryIsLost /\ TypeListening
  BY DEF DebugInv, TypeInv, TypeOK
<1> DEFINE up == (Kinds \X Fams) \ failed
<1>1. /\ UNCHANGED <<server, listening, logged, owed, mPeerList, mPeerLogOnceConnected,
                     mProcTree, mProcTreeChanged, mProcTreePeerAdded, due, tree, net,
                     may, shown, heard, msg, qLogEntries>>
      /\ pc = "idle" /\ pc' = "own" /\ server.stage # "deleted"
      /\ ListenersTick(up, taken, drop)
      /\ trans' = [c \in Conns |->
           IF Commanded(c) THEN CommandedTrans(c) ELSE Swept(TransTicked(c), TRUE)]
      /\ commander' = [c \in Conns |-> CommanderTicked(c, c \in leave)]
      /\ mDone' = [c \in Conns |-> mDone[c] \/
           (commander[c].stage = "DownShutting" /\ trans[c].stage # "none")]
      /\ fd' = [c \in Conns |->
           IF TransCloses(c) THEN "closed" ELSE FdAccepted(taken, drop)[c]]
  BY DEF ChildrenTick
<1>2. leave \in SUBSET Conns
  BY DEF Leavers
<1>3. /\ lst' \in [Kinds -> Process] /\ open' \in [Kinds -> SUBSET Fams]
      /\ cntSkip' \in [Kinds -> 0 .. CntSkipMax - 1]
      /\ at' \in [Conns -> {"away", "backlog", "pipe", "peer", "dropped"}]
      /\ \A k \in Kinds :
           /\ Moves(lst[k], lst'[k])
           /\ Looks(k) => lst'[k].stage = "Processing"
           /\ Cardinality({c \in Conns : at'[c] = "pipe" /\ Kind[c] = k}) <= MaxConn[k]
      /\ \A c \in taken \cup drop : Looks(Kind[c])
  BY <1>1, ListenersTicked
<1>4. ASSUME NEW c \in Conns
      PROVE  /\ Commanded(c) /\ CallsProcess(commander[c]) /\ ~commander[c].begun =>
                  trans'[c] = Created
             /\ ~(Commanded(c) /\ CallsProcess(commander[c]) /\ ~commander[c].begun) =>
                  Moves(trans[c], trans'[c])
             /\ trans'[c] \in Process
             /\ ~Commanded(c) /\ ~TransEnds(c) /\ ~trans[c].canceled
                  /\ trans[c].stage \in {"Existent", "Initializing", "Processing"} =>
                  /\ trans'[c].stage \in {"Initializing", "Processing"}
                  /\ ~trans'[c].canceled /\ trans'[c].over = trans[c].over
  <2>1. trans'[c] = IF Commanded(c) THEN CommandedTrans(c)
                                    ELSE Swept(TransTicked(c), TRUE)
    BY <1>1
  <2>2. QED BY <2>1, TransMoves
<1>5. ASSUME NEW c \in Conns
      PROVE  /\ Moves(commander[c], commander'[c]) /\ commander'[c] \in Process
             /\ commander[c].stage \in {"Existent", "Initializing"} =>
                  /\ commander'[c].stage \in {"Initializing", "Processing"} =>
                       /\ commander'[c].begun = commander[c].begun
                       /\ commander'[c].canceled = commander[c].canceled
                  /\ commander[c].stage = "Initializing" /\ ~commander[c].canceled =>
                       commander'[c].stage = "Processing"
             /\ commander[c].stage = "Processing" /\ commander'[c].stage = "Processing"
                  => commander'[c].begun
             /\ CallsProcess(commander[c]) /\ ~commander[c].begun =>
                  commander'[c].stage = "Processing"
  <2>1. commander'[c] = CommanderTicked(c, c \in leave)
    BY <1>1
  <2>2. QED BY <1>2, <2>1, CommanderMoves
\* What becomes of the connection.
<1>6. ASSUME NEW c \in Conns
      PROVE  /\ c \in taken => at[c] = "backlog" /\ at'[c] = "pipe" /\ Looks(Kind[c])
             /\ c \in drop => at[c] = "backlog" /\ at'[c] = "dropped" /\ c \notin taken
             /\ c \in ShutdownCloses => at[c] = "pipe" /\ at'[c] = "dropped"
             /\ c \notin taken \cup drop \cup ShutdownCloses =>
                  at'[c] = at[c] \/ (at[c] = "backlog" /\ at'[c] = "dropped")
             /\ at[c] = "pipe" /\ c \notin ShutdownCloses =>
                  lst[Kind[c]].stage # "DownShutting"
             /\ fd'[c] = IF TransCloses(c) THEN "closed"
                         ELSE IF c \in taken THEN "open"
                         ELSE IF c \in drop \cup ShutdownCloses THEN "closed" ELSE fd[c]
             /\ mDone'[c] <=> mDone[c] \/
                  (commander[c].stage = "DownShutting" /\ trans[c].stage # "none")
  <2>1. at' = [x \in Conns |->
           IF x \in taken THEN "pipe"
           ELSE IF x \in drop
                     \cup {y \in Conns : at[y] = "backlog" /\
                             Kind[y] \in {k \in Kinds : lst[k].stage = "DownShutting"}}
                     \cup ShutdownCloses
                THEN "dropped" ELSE at[x]]
    BY <1>1 DEF ListenersTick
  <2>2. /\ c \in taken \cup drop => at[c] = "backlog"
        /\ c \in drop => c \notin taken
        /\ c \in ShutdownCloses <=>
             at[c] = "pipe" /\ lst[Kind[c]].stage = "DownShutting"
    BY DEF Waiting, ShutdownCloses
  <2>3. c \in taken => Looks(Kind[c])
    BY <1>3
  <2>4. fd'[c] = IF TransCloses(c) THEN "closed"
                 ELSE IF c \in taken THEN "open"
                 ELSE IF c \in drop \cup ShutdownCloses THEN "closed" ELSE fd[c]
    BY <1>1 DEF FdAccepted
  <2>5. mDone'[c] <=> mDone[c] \/
          (commander[c].stage = "DownShutting" /\ trans[c].stage # "none")
    BY <1>1
  <2>6. QED BY <2>1, <2>2, <2>3, <2>4, <2>5
<1>7. TypeInv'
  <2>1. fd' \in [Conns -> {"none", "open", "closed"}]
    <3>1. fd' = [c \in Conns |-> fd'[c]]
      BY <1>1
    <3>2. ASSUME NEW c \in Conns PROVE fd'[c] \in {"none", "open", "closed"}
      BY <1>6 DEF TypeListening
    <3>3. QED BY <3>1, <3>2
  <2>2. trans' \in [Conns -> Process]
    BY <1>1, <1>4
  <2>3. commander' \in [Conns -> Process]
    BY <1>1, <1>5
  <2>4. mDone' \in [Conns -> BOOLEAN]
    BY <1>1
  <2>5. TypeListening'
    BY <1>3, <2>1 DEF TypeListening
  <2>6. QED BY <1>1, <2>2, <2>3, <2>4, <2>5 DEF TypeOK, TypeInv
<1>8. ServerInv'
  <2>1. ASSUME NEW k \in Kinds, lst[k] = Absent PROVE lst'[k] = Absent
    <3>1. Moves(lst[k], lst'[k])
      BY <1>3
    <3>2. lst[k].stage = "none"
      BY <2>1, ProcessTypes
    <3>3. lst'[k] = lst[k]
      BY <3>1, <3>2 DEF Moves
    <3>4. QED BY <2>1, <3>3
  <2>2. Repelled' = Repelled
    BY <1>1 DEF Repelled
  <2>3. QED BY <1>1, <2>1, <2>2 DEF ServerInv
<1>9. NoEntryIsLost'
  BY <1>1, EntriesKept DEF Repelled
<1>10. ASSUME NEW c \in Conns PROVE ConnInv(c)'
  <2>0. PlaceInv(c) /\ TransInv(c) /\ CommandInv(c) /\ PeerInv(c) /\ OwedInv(c)
    BY DEF DebugInv, ConnInv
  <2>1. Commanded(c)' <=> Commanded(c)
    BY DEF Commanded
  <2>2. at[c] # "peer" => trans'[c] = Absent /\ commander'[c] = Absent /\ ~TransCloses(c)
    <3>1. SUFFICES ASSUME at[c] # "peer"
                   PROVE  /\ trans'[c] = Absent /\ commander'[c] = Absent
                          /\ ~TransCloses(c)
      OBVIOUS
    <3>2. trans[c].stage = "none" /\ commander[c].stage = "none"
          /\ trans[c] = Absent /\ commander[c] = Absent
      BY <2>0, <3>1, ProcessTypes DEF PlaceInv
    <3>3. QED BY <1>4, <1>5, <3>2 DEF Moves, TransCloses, CallsProcess
  <2>3. at'[c] = "peer" <=> at[c] = "peer"
    BY <1>6
  <2>4. at[c] = "peer" /\ fd'[c] = "open" =>
          fd[c] = "open" /\ ~TransCloses(c) /\ trans[c].stage # "DownShutting"
    BY <1>6 DEF TransCloses
  <2>5. PlaceInv(c)'
    <3>1. Kind[c] \in Kinds
      BY ListeningAssumption
    <3>2. at'[c] \in {"away", "backlog"} => fd'[c] = "none"
      BY <1>6, <2>0, <2>2 DEF PlaceInv
    <3>3. at'[c] = "dropped" => fd'[c] # "open"
      BY <1>6, <2>0, <2>2 DEF PlaceInv
    <3>4. at'[c] = "pipe" =>
            fd'[c] = "open" /\ lst'[Kind[c]].stage \in {"Processing", "DownShutting"}
      <4>1. CASE c \in taken
        BY <1>3, <1>6, <2>2, <3>1, <4>1
      <4>2. CASE c \notin taken
        BY <1>3, <1>6, <2>0, <2>2, <3>1, <4>2 DEF PlaceInv, Moves
      <4>3. QED BY <4>1, <4>2
    <3>5. ~Commanded(c) => commander'[c] = Absent /\ ~mDone'[c]
      BY <1>5, <1>6, <2>0, ProcessTypes DEF PlaceInv, Moves
    <3>6. QED BY <2>1, <2>2, <2>3, <3>2, <3>3, <3>4, <3>5 DEF PlaceInv
  <2>6. TransInv(c)'
    BY <1>1, <1>4, <2>0, <2>1, <2>3, <2>4, ProcessTypes DEF TransInv, Moves, Live
  <2>7. CommandInv(c)'
    <3> SUFFICES ASSUME Commanded(c) PROVE CommandInv(c)'
      BY <2>1 DEF CommandInv
    <3> DEFINE sc == commander[c]
    <3>1. CASE CallsProcess(sc) /\ ~sc.begun
      <4>1. trans'[c] = Created /\ sc'.stage = "Processing" /\ sc'.begun
        BY <1>4, <1>5, <3>1 DEF CallsProcess
      <4>2. QED BY <4>1, ProcessTypes DEF CommandInv, Live, Unbegun
    <3>2. CASE ~(CallsProcess(sc) /\ ~sc.begun)
      <4>1. Moves(trans[c], trans'[c]) /\ Moves(sc, sc')
        BY <1>4, <1>5, <3>2
      <4>2. trans'[c].stage # "Existent"
        BY <4>1, ProcessTypes DEF Moves
      <4>3. Unbegun(sc) => sc.stage \in {"Existent", "Initializing"} /\ ~sc.canceled
                             /\ ~sc.begun /\ trans[c] = Absent
        BY <2>0, <3>2 DEF CommandInv, Unbegun, CallsProcess
      <4>4. Unbegun(sc) =>
              /\ sc.stage = "Existent" => sc'.stage = "Initializing"
              /\ sc.stage = "Initializing" => sc'.stage = "Processing"
              /\ ~sc'.begun /\ ~sc'.canceled /\ trans'[c] = Absent
        <5>1. SUFFICES ASSUME Unbegun(sc)
              PROVE /\ sc.stage = "Existent" => sc'.stage = "Initializing"
                    /\ sc.stage = "Initializing" => sc'.stage = "Processing"
                    /\ ~sc'.begun /\ ~sc'.canceled /\ trans'[c] = Absent
          OBVIOUS
        <5>2. /\ sc.stage \in {"Existent", "Initializing"} /\ ~sc.canceled
              /\ ~sc.begun /\ trans[c] = Absent
          BY <4>3, <5>1
        <5>3. trans'[c] = Absent
          BY <4>1, <5>2, ProcessTypes DEF Moves
        <5>4. sc.stage = "Existent" => sc'.stage = "Initializing"
          BY <4>1, <5>2 DEF Moves
        <5>5. sc'.stage \in {"Initializing", "Processing"} =>
                ~sc'.begun /\ ~sc'.canceled
          BY <1>5, <5>2
        <5>6. sc.stage = "Initializing" => sc'.stage = "Processing"
          BY <1>5, <5>2
        <5>7. QED BY <5>2, <5>3, <5>4, <5>5, <5>6
      <4>5. Unbegun(sc') => Unbegun(sc)
        <5>1. Unbegun(sc') <=> \/ sc'.stage \in {"Existent", "Initializing"}
                               \/ sc'.stage = "Processing" /\ ~sc'.begun
          BY DEF Unbegun
        <5>2. sc.stage = "Processing" /\ sc'.stage = "Processing" => sc'.begun
          BY <1>5
        <5>3. sc.stage \in Stages
          BY DEF TypeOK, Process
        <5>4. QED BY <4>1, <5>1, <5>2, <5>3, ProcessTypes DEF Unbegun, Moves, Stages
      <4>6. sc'.stage # "Existent"
        BY <4>1, ProcessTypes DEF Moves
      <4>7. at'[c] = "peer" /\ fd'[c] = "open" =>
              trans'[c].stage \in Live \/ Unbegun(sc')
        BY <2>0, <2>3, <2>4, <4>1, <4>3, <4>4 DEF CommandInv, Live, Moves, Unbegun
      <4>8. QED
        BY <1>1, <2>0, <4>2, <4>3, <4>4, <4>5, <4>6, <4>7 DEF CommandInv, Unbegun
    <3>3. QED BY <3>1, <3>2
  <2>8. PeerInv(c)'
    <3>1. SUFFICES ASSUME c \in mPeerList
                   PROVE  /\ at'[c] = "peer"
                          /\ net[c] \in {"open", "stalled"} /\ ~Repelled =>
                               /\ fd'[c] = "open" /\ ~trans'[c].over /\ ~trans'[c].canceled
                               /\ trans'[c].stage \in
                                    {"Existent", "Initializing", "Processing"}
      BY <1>1 DEF PeerInv, Repelled
    <3>2. ~Commanded(c) /\ ~mDone[c] /\ at[c] = "peer"
      BY <2>0, <3>1 DEF TypeOK, Commanded, PeerInv, PlaceInv
    <3>3. ASSUME net[c] \in {"open", "stalled"}, ~Repelled
          PROVE  /\ fd'[c] = "open" /\ ~trans'[c].over /\ ~trans'[c].canceled
                 /\ trans'[c].stage \in {"Existent", "Initializing", "Processing"}
      <4>1. /\ fd[c] = "open" /\ ~trans[c].over /\ ~trans[c].canceled
            /\ trans[c].stage \in {"Existent", "Initializing", "Processing"}
        BY <2>0, <3>1, <3>3 DEF PeerInv
      <4>2. ~TransEnds(c) /\ ~TransCloses(c)
        BY <3>2, <3>3, <4>1 DEF TransEnds, TransCloses
      <4>3. QED BY <1>4, <1>6, <3>2, <4>1, <4>2
    <3>4. QED BY <2>3, <3>2, <3>3
  <2>9. OwedInv(c)'
    BY <1>1, <2>0, OwedKept
  <2>10. QED BY <2>5, <2>6, <2>7, <2>8, <2>9 DEF ConnInv
<1>11. QED BY <1>7, <1>8, <1>9, <1>10 DEF DebugInv

-----------------------------------------------------------------------------
(***************************************************************************)
(* Theorems.                                                               *)
(***************************************************************************)

\* The inductive invariant of the debugging server: who closes each descriptor,
\* and that a peer which stays is in the list and in order
\* (SystemDebugging.cpp:202-463, TcpListening.cpp, TcpTransfering.cpp:280).
THEOREM DebugInvariant == Spec => []DebugInv
<1>1. Init => DebugInv
  BY InitHolds
<1>2. DebugInv /\ [Next]_vars => DebugInv'
  <2> SUFFICES ASSUME DebugInv, [Next]_vars PROVE DebugInv'
    OBVIOUS
  <2>1. CASE Driver
    <3>1. ASSUME NEW leave \in SUBSET Leavers, NEW failed \in SUBSET MayFail,
                 NEW taken \in SUBSET Waiting, NEW drop \in SUBSET (Waiting \ taken),
                 ChildrenTick(leave, failed, taken, drop)
          PROVE  DebugInv'
      BY <3>1, ChildrenTicked
    <3>2. ASSUME NEW broken \in SUBSET mPeerList,
                 processTreeSend(broken) \/ logEntriesSend(broken)
          PROVE  DebugInv'
      BY <3>2, SendsTree, SendsEntry
    <3>3. CASE OwnStep \/ listenersStart \/ peerListUpdate
      BY <3>3, OwnSteps, ListenersStarted, PeersUpdated
    <3>4. CASE LogEntryTaken \/ LogEntriesSent
      BY <3>4, TakesEntry, LogSent
    <3>5. QED BY <2>1, <3>1, <3>2, <3>3, <3>4 DEF Driver
  <2>2. CASE Environment
    <3>1. ASSUME NEW c \in Conns,
                 Connects(c) \/ PeerStalls(c) \/ PeerReads(c) \/ PeerLeaves(c)
                   \/ PeerQuits(c)
          PROVE  DebugInv'
      BY <3>1, PeerComes, PeerChanges
    <3>2. CASE entryLogEnqueue
      BY <3>2, Enqueues
    <3>3. CASE TreeChanges \/ TimePasses
      BY <3>3, TreeMoves
    <3>4. CASE Cancel
      BY <3>4, Cancels
    <3>5. QED BY <2>2, <3>1, <3>2, <3>3, <3>4 DEF Environment
  <2>3. CASE UNCHANGED vars
    <3>1. UNCHANGED <<lst, open, cntSkip, at, fd, server, pc, trans, mDone, commander,
                      mPeerList, mPeerLogOnceConnected, mProcTree, mProcTreeChanged,
                      mProcTreePeerAdded, due, qLogEntries, msg, listening, logged,
                      owed, net, tree, may, shown, heard>>
      BY <2>3 DEF vars
    <3>2. TypeInv' = TypeInv
      BY <3>1 DEF TypeInv, TypeOK, TypeListening
    <3>3. ServerInv' /\ NoEntryIsLost'
      BY <3>1 DEF DebugInv, ServerInv, Repelled, Childless, NoEntryIsLost
    <3>4. ASSUME NEW c \in Conns PROVE ConnInv(c)'
      <4>1. ConnInv(c)
        BY DEF DebugInv
      <4>2. PlaceInv(c)' /\ TransInv(c)' /\ CommandInv(c)'
        BY <3>1, <4>1 DEF ConnInv, PlaceInv, TransInv, CommandInv, Commanded, Unbegun
      <4>3. PeerInv(c)' /\ OwedInv(c)'
        BY <3>1, <4>1 DEF ConnInv, PeerInv, OwedInv, Repelled
      <4>4. QED BY <4>2, <4>3 DEF ConnInv
    <3>5. QED BY <3>2, <3>3, <3>4 DEF DebugInv
  <2>4. QED BY <2>1, <2>2, <2>3 DEF Next, Terminated
<1>3. QED BY <1>1, <1>2, PTL DEF Spec

\* Every variable has its type, and no listener queues more than its limit
\* (TcpListening.cpp, connectionsAccept()).
THEOREM TypeCorrect == Spec => []TypeOK
<1>1. DebugInv => TypeOK
  BY DEF DebugInv, TypeInv
<1>2. QED BY <1>1, DebugInvariant, PTL

\* When the server is deleted, every descriptor it accepted is closed: it is
\* deleted without children, and each open one has a child that must close it
\* (TcpListening.cpp:383, TcpTransfering.cpp:280).
THEOREM AllIsClosed == Spec => []NothingLeftOpen
<1>1. DebugInv => NothingLeftOpen
  <2> SUFFICES ASSUME DebugInv, server.stage = "deleted", NEW c \in Conns,
                      fd[c] = "open"
               PROVE  FALSE
    BY DEF NothingLeftOpen
  <2>1. Childless /\ TypeOK
    BY DEF DebugInv, ServerInv, TypeInv
  <2>2. PlaceInv(c) /\ TransInv(c) /\ CommandInv(c)
    BY DEF DebugInv, ConnInv
  <2>3. Kind[c] \in Kinds /\ at[c] \in {"away", "backlog", "pipe", "peer", "dropped"}
    BY <2>1, ListeningAssumption DEF TypeOK, TypeListening
  <2>4. at[c] = "peer"
    BY <2>1, <2>2, <2>3 DEF PlaceInv, Childless
  <2>5. QED
    BY <2>1, <2>2, <2>4 DEF TransInv, CommandInv, Childless, Live, Unbegun
<1>2. QED BY <1>1, DebugInvariant, PTL

\* The entry that is owed to the log peers of a moment is on its way until each
\* of them has got it, unless one leaves or may stop to read, or the server is
\* repelled (SystemDebugging.cpp:425-463, 503-555).
THEOREM OwedEntryIsKept == Spec => []NoEntryIsLost
<1>1. DebugInv => NoEntryIsLost
  BY DEF DebugInv
<1>2. QED BY <1>1, DebugInvariant, PTL
=============================================================================
