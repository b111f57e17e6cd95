---------------------------- MODULE ProcessTree ----------------------------
(***************************************************************************)
(* The process tree of Processing.cpp: cooperative processes that own      *)
(* their children, each driven by its parent, by a thread of its own or by *)
(* an external driver, and the main loop of tools/hello-world/main.cpp     *)
(* that drives the root.                                                   *)
(*                                                                         *)
(* Every driver is a chain of treeTick() activations.  A process has at    *)
(* most one activation at a time, so its local variables (program counter, *)
(* loop position, value loaded by a |=) are functions on processes.  A     *)
(* step is one access to state that another thread may touch; accesses to  *)
(* state that only the driver of the process touches are merged with it.   *)
(* The bytes mStatParent are written by the driver of the parent and, at   *)
(* the end, by the driver of the process itself: `|=' is a load and a      *)
(* store, with steps of other threads in between.                          *)
(***************************************************************************)
EXTENDS Naturals, FiniteSets

CONSTANTS
  Proc,         \* the process objects of one program run
  Root,         \* the application, created and driven by main()
  Parent,       \* which process creates and starts which
  Viewer,       \* the process that prints the tree (SystemDebugging)
  NoProc,       \* NULL
  StartModes,   \* the driver modes start() is called with, for each process
  Results,      \* how each process may end by itself; {} for a service
  Uses,         \* what the code of each process does with its children
  NumBurst      \* ticks of a driver between two looks at progress()

ASSUME TreeAssumption ==
  /\ Root \in Proc
  /\ Viewer \in Proc \cup {NoProc}
  /\ NoProc \notin Proc
  /\ Parent \in [Proc -> Proc \cup {NoProc}]
  /\ Parent[Root] = NoProc
  /\ StartModes \in [Proc -> SUBSET {"parent", "internal", "external"}]
  /\ Results \in [Proc -> SUBSET {"Positive", "Negative"}]
  /\ Uses \in [Proc -> SUBSET {"restart", "cancel", "repel", "whenFinished"}]
  /\ NumBurst \in Nat \ {0}

\* A process is created by one that exists already, the application first.
ASSUME TreeIsAcyclic ==
  \A S \in SUBSET Proc : (\A p \in S : Parent[p] \in S) => S = {}

VARIABLES
  life,         \* "unborn", "alive" or "deleted": the heap object
  mode,         \* mDriver
  statParent,   \* mStatParent, as a set of bits
  statDrv,      \* mStatDrv, as a set of bits
  state,        \* mStateAbstract
  success,      \* mSuccess, by sign: "Pending", "Positive", "Negative"
  children,     \* mChildList; mNumChildren is its size
  drv, burst,   \* the thread that drives the process, and its tick count
  pc, cur, todo, op, reg, handle, \* the activation of treeTick()
  walkAt, walkTodo, walkHeld, walked, \* processTreeStr()
  stopReq       \* applicationCloseRequest(): "no" signal yet, "begun", "done"

objVars  == <<life, mode, statParent, statDrv, state, success, children>>
drvVars  == <<drv, burst>>
frame    == <<pc, cur, todo, op, reg, handle>>
walkVars == <<walkAt, walkTodo, walkHeld, walked>>
vars     == <<objVars, drvVars, frame, walkVars, stopReq>>

ParBits == {"Started", "Canceled", "Unused", "WhenFinishedUnused"}
DrvBits == {"ShutdownDone", "Undriven"}
States  == {"Existent", "Initializing", "Processing", "DownShutting",
            "ChildrenUnusedSet", "FinishedPrepare", "Finished"}
Lives   == {"unborn", "alive", "deleted"}
Modes   == {"unset", "parent", "internal", "external"}
DrvPcs  == {"none", "run", "leaving", "exited"}
Pcs     == {"idle", "loop", "child", "erase", "destroy", "user",
            "spawn", "store", "unuse", "mark"}
Ops     == {"none", "start", "cancel", "repel", "unused", "whenFinished"}

\* Mutant: unusedSet() does not cancel.
OrMask_UnusedOnly(o) ==
  {b \in ParBits :
     \/ b = "Started" /\ o = "start"
     \/ b = "Canceled" /\ o \in {"cancel", "repel"}
     \/ b = "Unused" /\ o = "unused"
     \/ b = "WhenFinishedUnused" /\ o = "whenFinished"}

\* The bits that an operation on mStatParent sets.
OrMask(o) ==
  {b \in ParBits :
     \/ b = "Started" /\ o = "start"
     \/ b = "Canceled" /\ o \in {"cancel", "repel", "unused"}
     \/ b = "Unused" /\ o = "unused"
     \/ b = "WhenFinishedUnused" /\ o = "whenFinished"}

TypeObject ==
  /\ life \in [Proc -> Lives]
  /\ mode \in [Proc -> Modes]
  /\ statParent \in [Proc -> SUBSET ParBits]
  /\ statDrv \in [Proc -> SUBSET DrvBits]
  /\ state \in [Proc -> States]
  /\ success \in [Proc -> {"Pending", "Positive", "Negative"}]
  /\ children \in [Proc -> SUBSET Proc]

TypeActivation ==
  /\ drv \in [Proc -> DrvPcs]
  /\ burst \in [Proc -> 0 .. NumBurst]
  /\ pc \in [Proc -> Pcs]
  /\ cur \in [Proc -> Proc \cup {NoProc}]
  /\ todo \in [Proc -> SUBSET Proc]
  /\ op \in [Proc -> Ops]
  /\ reg \in [Proc -> SUBSET ParBits]
  /\ handle \in [Proc -> SUBSET Proc]

\* Outside of these positions treeTick() works on one process.
TypeCurrent ==
  \A p \in Proc :
    cur[p] = NoProc => pc[p] \in {"idle", "loop", "user", "mark"}

TypeWalk ==
  /\ walkAt \in Proc \cup {NoProc}
  /\ walkTodo \in [Proc -> SUBSET Proc]
  /\ walkHeld \subseteq Proc
  /\ walked \in {"no", "yes"}
  /\ stopReq \in {"no", "begun", "done"}

TypeOK == TypeObject /\ TypeActivation /\ TypeCurrent /\ TypeWalk

Init ==
  /\ life = [p \in Proc |-> IF p = Root THEN "alive" ELSE "unborn"]
  /\ mode = [p \in Proc |-> IF p = Root THEN "external" ELSE "unset"]
  /\ statParent = [p \in Proc |-> {}]
  /\ statDrv = [p \in Proc |-> {}]
  /\ state = [p \in Proc |-> "Existent"]
  /\ success = [p \in Proc |-> "Pending"]
  /\ children = [p \in Proc |-> {}]
  /\ drv = [p \in Proc |-> IF p = Root THEN "run" ELSE "none"]
  /\ burst = [p \in Proc |-> 0]
  /\ pc = [p \in Proc |-> "idle"]
  /\ cur = [p \in Proc |-> NoProc]
  /\ todo = [p \in Proc |-> {}]
  /\ op = [p \in Proc |-> "none"]
  /\ reg = [p \in Proc |-> {}]
  /\ handle = [p \in Proc |-> {}]
  /\ walkAt = NoProc
  /\ walkTodo = [p \in Proc |-> {}]
  /\ walkHeld = {}
  /\ walked = "no"
  /\ stopReq = "no"

-----------------------------------------------------------------------------
(***************************************************************************)
(* Helpers.                                                                *)
(***************************************************************************)

\* Mutant: a finished process may leave children behind.
progress_OwnStateOnly(p) == state[p] # "Finished"

\* progress(): the process or what is left of its children needs its driver.
progress(p) == state[p] # "Finished" \/ children[p] # {}

\* Mutant: a child is removed although its parent may still use it.
childCanBeRemoved_StillUsed(c) == "Undriven" \in statDrv[c]

\* The parent may free the child: nobody drives it and nobody uses it.
childCanBeRemoved(c) ==
  "Undriven" \in statDrv[c] /\ "Unused" \in statParent[c]

\* mChildListMtx of p is held by start() or by the walk over the tree.
ListLocked(p) ==
  \/ p \in walkHeld
  \/ op[p] = "start" /\ pc[p] = "store"

\* The code of the concrete process runs: initialize(), process(), shutdown().
InUserCode(p) == pc[p] = "user" /\ (p = Viewer => walkAt = NoProc)

\* treeTick() of p returns to its driver.
TickReturns(p) ==
  /\ pc' = [pc EXCEPT ![p] = "idle"]
  /\ cur' = [cur EXCEPT ![p] = NoProc]
  /\ UNCHANGED <<todo, op, reg, handle>>

\* p begins `mStatParent |= mask' on process c: the load.
OrBegins(p, c, o) ==
  /\ pc' = [pc EXCEPT ![p] = "store"]
  /\ cur' = [cur EXCEPT ![p] = c]
  /\ op' = [op EXCEPT ![p] = o]
  /\ reg' = [reg EXCEPT ![p] = statParent[c]]

\* A driver calls treeTick() of p: the loop over the children begins.
TickCalled(pcBefore, p) ==
  /\ pc' = [pcBefore EXCEPT ![p] = "loop"]
  /\ todo' = [todo EXCEPT ![p] = children[p]]

-----------------------------------------------------------------------------
(***************************************************************************)
(* Drivers: internalDrive(), the main loop for the root, and an external   *)
(* driver that follows the same protocol.                                  *)
(***************************************************************************)

\* Mutant: the tick count of a burst is not reset.
DriverTick_NoReset(p) ==
  /\ drv[p] = "run" /\ pc[p] = "idle"
  /\ burst[p] < NumBurst \/ progress(p)
  /\ burst' = [burst EXCEPT ![p] = @ + 1]
  /\ TickCalled(pc, p)
  /\ UNCHANGED <<objVars, drv, cur, op, reg, handle, walkVars, stopReq>>

\* Another round begins after a look at progress() and a sleep.
DriverTick(p) ==
  /\ drv[p] = "run" /\ pc[p] = "idle"
  /\ burst[p] < NumBurst \/ progress(p)
  /\ burst' = [burst EXCEPT ![p] = IF @ < NumBurst THEN @ + 1 ELSE 1]
  /\ TickCalled(pc, p)
  /\ UNCHANGED <<objVars, drv, cur, op, reg, handle, walkVars, stopReq>>

\* undrivenSet() is the last access of a driver to its process.
DriverLeaves(p) ==
  /\ drv[p] = "run" /\ pc[p] = "idle" /\ burst[p] = NumBurst
  /\ ~progress(p)
  /\ p # Root
  /\ statDrv' = [statDrv EXCEPT ![p] = @ \cup {"Undriven"}]
  /\ drv' = [drv EXCEPT ![p] = "leaving"]
  /\ UNCHANGED <<life, mode, statParent, state, success, children,
                 burst, frame, walkVars, stopReq>>

DriverExits(p) ==
  /\ drv[p] = "leaving"
  /\ drv' = [drv EXCEPT ![p] = "exited"]
  /\ UNCHANGED <<objVars, burst, frame, walkVars, stopReq>>

\* Mutant: main() looks at the state of the application only.
MainDestroysRoot_OwnStateOnly ==
  /\ drv[Root] = "run" /\ pc[Root] = "idle" /\ burst[Root] = NumBurst
  /\ state[Root] = "Finished"
  /\ drv' = [drv EXCEPT ![Root] = "exited"]
  /\ life' = [life EXCEPT ![Root] = "deleted"]
  /\ UNCHANGED <<mode, statParent, statDrv, state, success, children,
                 burst, frame, walkVars, stopReq>>

\* main(): no work left, success() is read and the application destroyed.
MainDestroysRoot ==
  /\ drv[Root] = "run" /\ pc[Root] = "idle" /\ burst[Root] = NumBurst
  /\ ~progress(Root)
  /\ drv' = [drv EXCEPT ![Root] = "exited"]
  /\ life' = [life EXCEPT ![Root] = "deleted"]
  /\ UNCHANGED <<mode, statParent, statDrv, state, success, children,
                 burst, frame, walkVars, stopReq>>

\* SIGINT or SIGTERM: the handler takes pApp for unusedSet().  It stays
\* installed and does not look whether main() has destroyed the application.
CloseRequest ==
  /\ stopReq = "no"
  /\ stopReq' = "begun"
  /\ UNCHANGED <<objVars, drvVars, frame, walkVars>>

\* The process that the handler is about to write into.
HandlerTarget == IF stopReq = "begun" THEN {Root} ELSE {}

\* Its |=.  Nobody else writes this byte of the root, so what was loaded is
\* still there when the store comes.
CloseStores ==
  /\ HandlerTarget # {}
  /\ stopReq' = "done"
  /\ statParent' = [statParent EXCEPT ![Root] = @ \cup OrMask("unused")]
  /\ UNCHANGED <<life, mode, statDrv, state, success, children,
                 drvVars, frame, walkVars>>

-----------------------------------------------------------------------------
(***************************************************************************)
(* treeTick(), first part: the children.                                   *)
(***************************************************************************)

\* Mutant: parentalDrive() ticks a child that has a driver of its own.
DriveChild_AnyMode(p, c) ==
  /\ pc[p] = "loop" /\ c \in todo[p]
  /\ "Undriven" \notin statDrv[c]
  /\ cur' = [cur EXCEPT ![p] = c]
  /\ pc' = [pc EXCEPT ![p] = "child", ![c] = "loop"]
  /\ todo' = [todo EXCEPT ![p] = @ \ {c}, ![c] = children[c]]
  /\ UNCHANGED <<objVars, drvVars, op, reg, handle, walkVars, stopReq>>

\* parentalDrive() ticks a child it is responsible for ...
DriveChild(p, c) ==
  /\ pc[p] = "loop" /\ c \in todo[p]
  /\ mode[c] = "parent" /\ "Undriven" \notin statDrv[c]
  /\ cur' = [cur EXCEPT ![p] = c]
  /\ pc' = [pc EXCEPT ![p] = "child", ![c] = "loop"]
  /\ todo' = [todo EXCEPT ![p] = @ \ {c}, ![c] = children[c]]
  /\ UNCHANGED <<objVars, drvVars, op, reg, handle, walkVars, stopReq>>

\* A child that nobody drives and nobody uses is to be removed.
NextChildOrErase(p, c, removable) ==
  IF removable
  THEN pc' = [pc EXCEPT ![p] = "erase"] /\ cur' = [cur EXCEPT ![p] = c]
  ELSE pc' = [pc EXCEPT ![p] = "loop"] /\ cur' = [cur EXCEPT ![p] = NoProc]

\* The child's treeTick() has returned: undrivenSet() unless progress().
ChildReturned(p, c) ==
  /\ pc[p] = "child" /\ cur[p] = c /\ pc[c] = "idle"
  /\ statDrv' = [statDrv EXCEPT ![c] =
                   IF progress(c) THEN @ ELSE @ \cup {"Undriven"}]
  /\ NextChildOrErase(p, c, ~progress(c) /\ "Unused" \in statParent[c])
  /\ UNCHANGED <<life, mode, statParent, state, success, children,
                 drvVars, todo, op, reg, handle, walkVars, stopReq>>

\* parentalDrive() leaves the others alone.
PassChild(p, c) ==
  /\ pc[p] = "loop" /\ c \in todo[p]
  /\ mode[c] # "parent" \/ "Undriven" \in statDrv[c]
  /\ todo' = [todo EXCEPT ![p] = @ \ {c}]
  /\ NextChildOrErase(p, c, childCanBeRemoved(c))
  /\ UNCHANGED <<objVars, drvVars, op, reg, handle, walkVars, stopReq>>

EraseChild(p) ==
  /\ pc[p] = "erase" /\ ~ListLocked(p)
  /\ children' = [children EXCEPT ![p] = @ \ {cur[p]}]
  /\ pc' = [pc EXCEPT ![p] = "destroy"]
  /\ UNCHANGED <<life, mode, statParent, statDrv, state, success,
                 drvVars, cur, todo, op, reg, handle, walkVars, stopReq>>

\* destroy() joins the thread of the child and deletes the child.
DestroyChild(p, c) ==
  /\ pc[p] = "destroy" /\ cur[p] = c
  /\ mode[c] = "internal" => drv[c] = "exited"
  /\ life' = [life EXCEPT ![c] = "deleted"]
  /\ pc' = [pc EXCEPT ![p] = "loop"]
  /\ cur' = [cur EXCEPT ![p] = NoProc]
  /\ UNCHANGED <<mode, statParent, statDrv, state, success, children,
                 drvVars, todo, op, reg, handle, walkVars, stopReq>>

-----------------------------------------------------------------------------
(***************************************************************************)
(* treeTick(), second part: one step of the process itself.                *)
(***************************************************************************)

AtSwitch(p) == pc[p] = "loop" /\ todo[p] = {}
CanceledSeen(p) == "Canceled" \in statParent[p]

LeaveExistent(p) ==
  /\ AtSwitch(p) /\ state[p] = "Existent"
  /\ state' = [state EXCEPT ![p] =
                 IF CanceledSeen(p) THEN "FinishedPrepare" ELSE "Initializing"]
  /\ TickReturns(p)
  /\ UNCHANGED <<life, mode, statParent, statDrv, success, children,
                 drvVars, walkVars, stopReq>>

\* Mutant: a canceled process skips shutdown() in every state.
CancelWork_SkipsShutdown(p) ==
  /\ AtSwitch(p) /\ state[p] \in {"Initializing", "Processing"}
  /\ CanceledSeen(p)
  /\ state' = [state EXCEPT ![p] = "FinishedPrepare"]
  /\ TickReturns(p)
  /\ UNCHANGED <<life, mode, statParent, statDrv, success, children,
                 drvVars, walkVars, stopReq>>

\* Mutant: a process that initializes cannot be canceled.
CancelWork_ProcessingOnly(p) ==
  /\ AtSwitch(p) /\ state[p] = "Processing"
  /\ CanceledSeen(p)
  /\ state' = [state EXCEPT ![p] = "DownShutting"]
  /\ TickReturns(p)
  /\ UNCHANGED <<life, mode, statParent, statDrv, success, children,
                 drvVars, walkVars, stopReq>>

CancelWork(p) ==
  /\ AtSwitch(p) /\ state[p] \in {"Initializing", "Processing"}
  /\ CanceledSeen(p)
  /\ state' = [state EXCEPT ![p] = "DownShutting"]
  /\ TickReturns(p)
  /\ UNCHANGED <<life, mode, statParent, statDrv, success, children,
                 drvVars, walkVars, stopReq>>

\* initialize(), process() or shutdown() is called.
CallUserCode(p) ==
  /\ AtSwitch(p)
  /\ \/ state[p] \in {"Initializing", "Processing"} /\ ~CanceledSeen(p)
     \/ state[p] = "DownShutting"
  /\ pc' = [pc EXCEPT ![p] = "user"]
  /\ walked' = IF p = Viewer THEN "no" ELSE walked
  /\ UNCHANGED <<life, mode, statParent, statDrv, state, success, children,
                 drvVars, cur, todo, op, reg, handle,
                 walkAt, walkTodo, walkHeld, stopReq>>

UserPending(p) ==
  /\ InUserCode(p)
  /\ TickReturns(p)
  /\ UNCHANGED <<objVars, drvVars, walkVars, stopReq>>

InitializeReturns(p, res) ==
  /\ InUserCode(p) /\ state[p] = "Initializing"
  /\ IF res = "Positive"
     THEN /\ state' = [state EXCEPT ![p] = "Processing"]
          /\ UNCHANGED success
     ELSE /\ success' = [success EXCEPT ![p] = res]
          /\ state' = [state EXCEPT ![p] = "DownShutting"]
  /\ TickReturns(p)
  /\ UNCHANGED <<life, mode, statParent, statDrv, children,
                 drvVars, walkVars, stopReq>>

ProcessReturns(p, res) ==
  /\ InUserCode(p) /\ state[p] = "Processing"
  /\ success' = [success EXCEPT ![p] = res]
  /\ state' = [state EXCEPT ![p] = "DownShutting"]
  /\ TickReturns(p)
  /\ UNCHANGED <<life, mode, statParent, statDrv, children,
                 drvVars, walkVars, stopReq>>

\* The result of shutdown() is ignored, unless it is Pending.
ShutdownReturns(p) ==
  /\ InUserCode(p) /\ state[p] = "DownShutting"
  /\ statDrv' = [statDrv EXCEPT ![p] = @ \cup {"ShutdownDone"}]
  /\ state' = [state EXCEPT ![p] = "ChildrenUnusedSet"]
  /\ TickReturns(p)
  /\ UNCHANGED <<life, mode, statParent, success, children,
                 drvVars, walkVars, stopReq>>

\* Mutant: the loop that marks the children is left at once.
MarkBegins_NoChild(p) ==
  /\ AtSwitch(p) /\ state[p] = "ChildrenUnusedSet"
  /\ pc' = [pc EXCEPT ![p] = "mark"]
  /\ UNCHANGED <<objVars, drvVars, cur, todo, op, reg, handle,
                 walkVars, stopReq>>

MarkBegins(p) ==
  /\ AtSwitch(p) /\ state[p] = "ChildrenUnusedSet"
  /\ pc' = [pc EXCEPT ![p] = "mark"]
  /\ todo' = [todo EXCEPT ![p] = children[p]]
  /\ UNCHANGED <<objVars, drvVars, cur, op, reg, handle, walkVars, stopReq>>

MarkChild(p, c) ==
  /\ pc[p] = "mark" /\ c \in todo[p]
  /\ todo' = [todo EXCEPT ![p] = @ \ {c}]
  /\ OrBegins(p, c, "unused")
  /\ UNCHANGED <<objVars, drvVars, handle, walkVars, stopReq>>

MarkEnds(p) ==
  /\ pc[p] = "mark" /\ todo[p] = {}
  /\ state' = [state EXCEPT ![p] = "FinishedPrepare"]
  /\ TickReturns(p)
  /\ UNCHANGED <<life, mode, statParent, statDrv, success, children,
                 drvVars, walkVars, stopReq>>

\* The process marks itself unused if it was asked to, and is finished.
PrepareFinish(p) ==
  /\ AtSwitch(p) /\ state[p] = "FinishedPrepare"
  /\ IF "WhenFinishedUnused" \in statParent[p]
     THEN OrBegins(p, p, "unused") /\ UNCHANGED <<state, todo, handle>>
     ELSE TickReturns(p) /\ state' = [state EXCEPT ![p] = "Finished"]
  /\ UNCHANGED <<life, mode, statParent, statDrv, success, children,
                 drvVars, walkVars, stopReq>>

FinishedTick(p) ==
  /\ AtSwitch(p) /\ state[p] = "Finished"
  /\ TickReturns(p)
  /\ UNCHANGED <<objVars, drvVars, walkVars, stopReq>>

-----------------------------------------------------------------------------
(***************************************************************************)
(* What the code of a concrete process may do with its children while it   *)
(* runs.  repel() and whenFinishedRepel() return NULL, so `pChild =        *)
(* repel(pChild)' drops the handle.                                        *)
(***************************************************************************)

\* A thread may fail to be created: the parent drives the child instead.
DriverObtained(m) == IF m = "internal" THEN {"internal", "parent"} ELSE {m}

\* create() and the first half of start(): the driver is chosen, and a new
\* thread runs before the child is in the list.
StartChild(p, c, m) ==
  /\ InUserCode(p)
  /\ Parent[c] = p /\ life[c] = "unborn"
  /\ life' = [life EXCEPT ![c] = "alive"]
  /\ mode' = [mode EXCEPT ![c] = m]
  /\ drv' = [drv EXCEPT ![c] = IF m = "parent" THEN "none" ELSE "run"]
  /\ pc' = [pc EXCEPT ![p] = "spawn"]
  /\ cur' = [cur EXCEPT ![p] = c]
  /\ handle' = [handle EXCEPT ![p] = @ \cup {c}]
  /\ UNCHANGED <<statParent, statDrv, state, success, children, burst,
                 todo, op, reg, walkVars, stopReq>>

\* The second half: under the mutex, push_back() and |= Started.
AddChild(p) ==
  /\ pc[p] = "spawn" /\ ~ListLocked(p)
  /\ children' = [children EXCEPT ![p] = @ \cup {cur[p]}]
  /\ OrBegins(p, cur[p], "start")
  /\ UNCHANGED <<life, mode, statParent, statDrv, state, success,
                 drvVars, todo, handle, walkVars, stopReq>>

\* start() again of a child that its parent drives, to give it a driver of its
\* own, as a caller may when no thread could be created before: the child is
\* in the list already.  Of a child that has a driver, start() would overwrite
\* mDriver and leave it two: that is left to the caller, and so is one that
\* has come to its end.
RestartChild(p, c, m) ==
  /\ "restart" \in Uses[p]
  /\ InUserCode(p) /\ c \in handle[p]
  /\ mode[c] = "parent" /\ m # "parent" /\ "Undriven" \notin statDrv[c]
  /\ mode' = [mode EXCEPT ![c] = m]
  /\ drv' = [drv EXCEPT ![c] = "run"]
  /\ UNCHANGED <<life, statParent, statDrv, state, success, children, burst,
                 frame, walkVars, stopReq>>

\* cancel() refuses an orphan.  Canceling twice stores the same value and is
\* left out.
CancelChild(p, c) ==
  /\ "cancel" \in Uses[p]
  /\ InUserCode(p) /\ c \in handle[p]
  /\ "Started" \in statParent[c] /\ "Canceled" \notin statParent[c]
  /\ OrBegins(p, c, "cancel")
  /\ UNCHANGED <<objVars, drvVars, todo, handle, walkVars, stopReq>>

\* repel() is cancel() followed by unusedSet().
RepelChild(p, c) ==
  /\ "repel" \in Uses[p]
  /\ InUserCode(p) /\ c \in handle[p]
  /\ "Started" \in statParent[c]
  /\ OrBegins(p, c, "repel")
  /\ handle' = [handle EXCEPT ![p] = @ \ {c}]
  /\ UNCHANGED <<objVars, drvVars, todo, walkVars, stopReq>>

\* Mutant: the caller keeps its pointer after whenFinishedRepel().
WhenFinishedRepel_KeepsHandle(p, c) ==
  /\ "whenFinished" \in Uses[p]
  /\ InUserCode(p) /\ c \in handle[p]
  /\ "WhenFinishedUnused" \notin statParent[c]
  /\ OrBegins(p, c, "whenFinished")
  /\ UNCHANGED <<objVars, drvVars, todo, handle, walkVars, stopReq>>

WhenFinishedRepel(p, c) ==
  /\ "whenFinished" \in Uses[p]
  /\ InUserCode(p) /\ c \in handle[p]
  /\ OrBegins(p, c, "whenFinished")
  /\ handle' = [handle EXCEPT ![p] = @ \ {c}]
  /\ UNCHANGED <<objVars, drvVars, todo, walkVars, stopReq>>

-----------------------------------------------------------------------------
(***************************************************************************)
(* `mStatParent |= mask': the store, and what follows it.                  *)
(***************************************************************************)

\* The value a |= stores.
OrValue(p) == reg[p] \cup OrMask(op[p])

PcAfterStore(p) ==
  IF op[p] = "repel" THEN "unuse"
  ELSE IF state[p] = "FinishedPrepare" THEN "idle"
  ELSE IF state[p] = "ChildrenUnusedSet" THEN "mark" ELSE "user"

StoreStat(p) ==
  /\ pc[p] = "store"
  /\ statParent' = [statParent EXCEPT ![cur[p]] = OrValue(p)]
  /\ reg' = [reg EXCEPT ![p] = {}]
  /\ state' = [state EXCEPT ![p] =
                 IF state[p] = "FinishedPrepare" THEN "Finished" ELSE @]
  /\ op' = [op EXCEPT ![p] = "none"]
  /\ pc' = [pc EXCEPT ![p] = PcAfterStore(p)]
  /\ cur' = [cur EXCEPT ![p] = IF op[p] = "repel" THEN @ ELSE NoProc]
  /\ UNCHANGED <<life, mode, statDrv, success, children,
                 drvVars, todo, handle, walkVars, stopReq>>

\* The second half of repel(): unusedSet().
UnuseChild(p) ==
  /\ pc[p] = "unuse"
  /\ OrBegins(p, cur[p], "unused")
  /\ UNCHANGED <<objVars, drvVars, todo, handle, walkVars, stopReq>>

-----------------------------------------------------------------------------
(***************************************************************************)
(* processTreeStr(), called by the viewer on the root.  It holds the mutex *)
(* of each process on the path while it visits the children.  A hidden     *)
(* child is skipped and a long list cut short, so a list may be left early.*)
(***************************************************************************)

WalkBegins ==
  /\ Viewer # NoProc
  /\ InUserCode(Viewer) /\ walked = "no"
  /\ ~ListLocked(Root)
  /\ walked' = "yes"
  /\ walkAt' = Root
  /\ walkHeld' = {Root}
  /\ walkTodo' = [walkTodo EXCEPT ![Root] = children[Root]]
  /\ UNCHANGED <<objVars, drvVars, frame, stopReq>>

WalkDown(c) ==
  /\ walkAt # NoProc
  /\ c \in walkTodo[walkAt] /\ ~ListLocked(c)
  /\ walkAt' = c
  /\ walkHeld' = walkHeld \cup {c}
  /\ walkTodo' = [walkTodo EXCEPT ![walkAt] = @ \ {c}, ![c] = children[c]]
  /\ UNCHANGED <<objVars, drvVars, frame, walked, stopReq>>

WalkUp ==
  /\ walkAt # NoProc
  /\ walkHeld' = walkHeld \ {walkAt}
  /\ walkTodo' = [walkTodo EXCEPT ![walkAt] = {}]
  /\ walkAt' = Parent[walkAt]
  /\ UNCHANGED <<objVars, drvVars, frame, walked, stopReq>>

-----------------------------------------------------------------------------
Drive(p) ==
  \/ DriverTick(p) \/ DriverLeaves(p) \/ DriverExits(p)

Tick(p) ==
  \/ \E c \in todo[p] : DriveChild(p, c) \/ PassChild(p, c) \/ MarkChild(p, c)
  \/ \E c \in {cur[p]} \cap Proc : ChildReturned(p, c) \/ DestroyChild(p, c)
  \/ EraseChild(p)
  \/ LeaveExistent(p) \/ CancelWork(p) \/ CallUserCode(p)
  \/ MarkBegins(p) \/ MarkEnds(p)
  \/ PrepareFinish(p) \/ FinishedTick(p)
  \/ StoreStat(p) \/ UnuseChild(p)

UserReturns(p) ==
  /\ InUserCode(p)
  /\ \/ UserPending(p)
     \/ \E res \in {"Positive"} \cup (Results[p] \cap {"Negative"}) :
          InitializeReturns(p, res)
     \/ \E res \in Results[p] : ProcessReturns(p, res)
     \/ ShutdownReturns(p)

UserCalls(p) ==
  \/ AddChild(p)
  \/ /\ InUserCode(p)
     /\ \E c \in Proc :
          \/ CancelChild(p, c) \/ RepelChild(p, c) \/ WhenFinishedRepel(p, c)
          \/ \E m \in UNION {DriverObtained(d) : d \in StartModes[c]} :
               StartChild(p, c, m) \/ RestartChild(p, c, m)

Walk == WalkBegins \/ (\E c \in Proc : WalkDown(c)) \/ WalkUp

Step(p) ==
  \/ Drive(p)
  \/ pc[p] # "idle" /\ (Tick(p) \/ UserReturns(p) \/ UserCalls(p))

Terminated ==
  /\ life[Root] = "deleted" /\ stopReq = "done"
  /\ UNCHANGED vars

Next ==
  \/ \E p \in Proc : Step(p)
  \/ Walk \/ MainDestroysRoot \/ CloseRequest \/ CloseStores \/ Terminated

Spec == Init /\ [][Next]_vars

(***************************************************************************)
(* Threads are scheduled, and a concrete process ends its shutdown() after *)
(* finitely many calls.  Nothing forces a process to finish by itself.     *)
(* Threads that wait for the mutex of a child list are served in the end:  *)
(* the walks over the tree are half a second apart.                        *)
(***************************************************************************)
Fairness ==
  /\ \A p \in Proc : WF_vars(Step(p))
  /\ WF_vars(Walk) /\ WF_vars(MainDestroysRoot)
  /\ SF_vars(\E p \in Proc : ShutdownReturns(p))
  /\ SF_vars(\E p \in Proc : AddChild(p) \/ EraseChild(p))

FairSpec == Spec /\ Fairness

-----------------------------------------------------------------------------
(***************************************************************************)
(* Properties.                                                             *)
(***************************************************************************)

\* A process that is not alive is not ticked, not driven, in no child list,
\* not the target of a |= or a join of a process, in no handle that user code
\* can still use, and not on the path of the walk (Processing.cpp:115, 356,
\* 510).
NotTouched ==
  \A p \in Proc :
    /\ life[p] # "alive" => /\ pc[p] = "idle" /\ drv[p] # "run"
                            /\ children[p] = {}
                            /\ p \notin walkHeld
    /\ cur[p] # NoProc => life[cur[p]] = "alive"
    /\ \A c \in children[p] \cup todo[p] \cup walkTodo[p] : life[c] = "alive"
    /\ pc[p] = "user" => \A c \in handle[p] : life[c] = "alive"

\* No process, driver or walk touches a process that is not alive.  The signal
\* handler may, and only so: it has the application in hand, and finds it
\* deleted if main() has left its loop by then (main.cpp:72, 142).
NoUseAfterDelete ==
  /\ NotTouched
  /\ \A p \in HandlerTarget : life[p] # "alive" =>
       p = Root /\ drv[p] = "exited"

\* One driver: a process in treeTick() is called either by the thread it was
\* given or by its parent, never by both (Processing.cpp:1118, 1135).
OneDriver ==
  \A p \in Proc : pc[p] # "idle" =>
    ((drv[p] = "run") # (\E q \in Proc : pc[q] = "child" /\ cur[q] = p))

\* Undriven is final: a process without driver is at rest for good and has
\* nobody left to drive, so the parent may delete it at any later time; this
\* is what keeps "destroying child with grand children" (Processing.cpp:518)
\* from ever being logged.
UndrivenIsAtRest ==
  \A p \in Proc : "Undriven" \in statDrv[p] =>
    state[p] = "Finished" /\ children[p] = {} /\ pc[p] = "idle"

\* A request is never lost: although mStatParent is changed by two threads
\* with a load and a store, a bit once set stays set (Processing.cpp:333,
\* 831, 864, 902).
RequestsAreKept ==
  [][\A p \in Proc : statParent[p] \subseteq statParent'[p]]_vars

\* When a process is about to finish, each child it still has was told to
\* stop and may be removed; otherwise the tree would never get empty
\* (Processing.cpp:279-299).
NoStrandedChild ==
  \A p \in Proc : state[p] \in {"FinishedPrepare", "Finished"} =>
    \A c \in children[p] : {"Canceled", "Unused"} \subseteq statParent[c]

\* shutdown() is skipped only by a process canceled before it ran any code of
\* its own, so that nothing it started can be left behind
\* (Processing.cpp:200-205).
SkippedShutdownStartedNothing ==
  \A p \in Proc :
    state[p] \in {"ChildrenUnusedSet", "FinishedPrepare", "Finished"} /\
      "ShutdownDone" \notin statDrv[p]
    => \A c \in Proc : Parent[c] = p => life[c] = "unborn"

\* The tree implements scoped lifetimes.
stageBar == [p \in Proc |->
  IF life[p] # "alive" THEN life[p]
  ELSE IF state[p] \in {"ChildrenUnusedSet", "FinishedPrepare", "Finished"}
  THEN "finished" ELSE "working"]

Lifetimes == INSTANCE ScopedLifetimes WITH stage <- stageBar

ImplementsScopedLifetimes == Lifetimes!Spec

\* After Ctrl-C every process that was started finishes and is deleted, the
\* root last (main.cpp:66-158).
CloseCompletes ==
  stopReq = "done" ~> \A p \in Proc : life[p] # "alive"

\* A child that is marked unused is deleted, while its parent works on.
UnusedIsDeleted ==
  \A c \in Proc \ {Root} :
    (life[c] = "alive" /\ "Unused" \in statParent[c]) ~> life[c] = "deleted"

\* What whenFinishedRepel() announces ("repelling %s when finished",
\* Processing.cpp:901): once the child is finished it is repelled.
WhenFinishedIsRepelled ==
  \A c \in Proc :
    (state[c] = "Finished" /\ "WhenFinishedUnused" \in statParent[c])
      ~> life[c] = "deleted"
=============================================================================
