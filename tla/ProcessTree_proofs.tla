------------------------- MODULE ProcessTree_proofs -------------------------
(***************************************************************************)
(* Theorems about ProcessTree, for every tree of processes: types, and     *)
(* what is asked of a process.                                             *)
(***************************************************************************)
EXTENDS ProcessTree, TLAPS

USE TreeAssumption
USE DEF Lives, Modes, DrvPcs, States, Pcs, Ops, ParBits, DrvBits,
        objVars, drvVars, frame, walkVars

\* No process created itself.
LEMMA NotOwnParent == \A p \in Proc : Parent[p] # p
<1>1. ASSUME NEW p \in Proc, Parent[p] = p PROVE FALSE
  <2>1. \A q \in {p} : Parent[q] \in {p}
    BY <1>1
  <2>2. QED BY <2>1, TreeIsAcyclic
<1>2. QED BY <1>1

\* Every variable has its type, and a process has a current child exactly
\* while its treeTick() works on one.
THEOREM TypeCorrect == Spec => []TypeOK
<1>1. Init => TypeOK
  BY DEF Init, TypeOK, TypeObject, TypeActivation, TypeCurrent, TypeWalk
<1>2. ASSUME TypeOK, [Next]_vars PROVE TypeOK'
<2>1. ASSUME NEW p \in Proc, Drive(p) PROVE TypeOK'
  <3>1. ASSUME DriverTick(p) PROVE TypeOK'
    BY <3>1, <1>2
    DEF DriverTick, TickCalled, TypeOK, TypeObject, TypeActivation,
        TypeCurrent, TypeWalk
  <3>2. ASSUME DriverLeaves(p) PROVE TypeOK'
    BY <3>2, <1>2
    DEF DriverLeaves, progress, TypeOK, TypeObject, TypeActivation,
        TypeCurrent, TypeWalk
  <3>3. ASSUME DriverExits(p) PROVE TypeOK'
    BY <3>3, <1>2
    DEF DriverExits, TypeOK, TypeObject, TypeActivation, TypeCurrent, TypeWalk
  <3>4. QED
    BY <2>1, <3>1, <3>2, <3>3
    DEF Drive
<2>2. ASSUME NEW p \in Proc, Tick(p) PROVE TypeOK'
  <3>1. ASSUME NEW c \in Proc, DriveChild(p, c) PROVE TypeOK'
    <4>1. TypeObject'
      BY <3>1, <1>2
      DEF DriveChild, TypeOK, TypeObject, TypeActivation, TypeCurrent, TypeWalk
    <4>2. TypeActivation'
      <5>1. children[c] \in SUBSET Proc
        BY <1>2 DEF TypeOK, TypeObject
      <5>2. QED
        BY <3>1, <5>1, <1>2 DEF DriveChild, TypeOK, TypeActivation
    <4>3. TypeCurrent'
      BY <3>1, <1>2
      DEF DriveChild, TypeOK, TypeObject, TypeActivation, TypeCurrent, TypeWalk
    <4>4. TypeWalk'
      BY <3>1, <1>2
      DEF DriveChild, TypeOK, TypeObject, TypeActivation, TypeCurrent, TypeWalk
    <4>5. QED BY <4>1, <4>2, <4>3, <4>4 DEF TypeOK
  <3>2. ASSUME NEW c \in Proc, PassChild(p, c) PROVE TypeOK'
    <4>1. TypeObject'
      BY <3>2, <1>2
      DEF PassChild, NextChildOrErase, TypeOK, TypeObject, TypeActivation,
          TypeCurrent, TypeWalk
    <4>2. TypeActivation'
      <5>1. /\ pc' \in [Proc -> Pcs]
            /\ cur' \in [Proc -> Proc \cup {NoProc}]
        <6>1. pc \in [Proc -> Pcs] /\ cur \in [Proc -> Proc \cup {NoProc}]
          BY <1>2 DEF TypeOK, TypeActivation
        <6>2. NextChildOrErase(p, c, childCanBeRemoved(c))
          BY <3>2 DEF PassChild
        <6>3. QED BY <6>1, <6>2 DEF NextChildOrErase
      <5>2. QED
        BY <3>2, <5>1, <1>2 DEF PassChild, TypeOK, TypeActivation
    <4>3. TypeCurrent'
      BY <3>2, <1>2
      DEF PassChild, NextChildOrErase, TypeOK, TypeObject, TypeActivation,
          TypeCurrent, TypeWalk
    <4>4. TypeWalk'
      BY <3>2, <1>2
      DEF PassChild, NextChildOrErase, TypeOK, TypeObject, TypeActivation,
          TypeCurrent, TypeWalk
    <4>5. QED BY <4>1, <4>2, <4>3, <4>4 DEF TypeOK
  <3>3. ASSUME NEW c \in Proc, ChildReturned(p, c) PROVE TypeOK'
    <4>1. /\ pc' \in [Proc -> Pcs] /\ cur' \in [Proc -> Proc \cup {NoProc}]
          /\ \A q \in Proc : cur'[q] = NoProc =>
               pc'[q] \in {"idle", "loop", "user", "mark"}
      <5>1. /\ pc \in [Proc -> Pcs] /\ cur \in [Proc -> Proc \cup {NoProc}]
            /\ TypeCurrent
        BY <1>2 DEF TypeOK, TypeActivation
      <5>2. \/ /\ pc' = [pc EXCEPT ![p] = "erase"]
               /\ cur' = [cur EXCEPT ![p] = c]
            \/ /\ pc' = [pc EXCEPT ![p] = "loop"]
               /\ cur' = [cur EXCEPT ![p] = NoProc]
        BY <3>3 DEF ChildReturned, NextChildOrErase
      <5>3. QED BY <5>1, <5>2 DEF TypeCurrent
    <4>2. QED
      BY <3>3, <4>1, <1>2
      DEF ChildReturned, TypeOK, TypeObject, TypeActivation, TypeCurrent,
          TypeWalk
  <3>4. ASSUME EraseChild(p) PROVE TypeOK'
    BY <3>4, <1>2
    DEF EraseChild, TypeOK, TypeObject, TypeActivation, TypeCurrent, TypeWalk
  <3>5. ASSUME NEW c \in Proc, DestroyChild(p, c) PROVE TypeOK'
    BY <3>5, <1>2
    DEF DestroyChild, TypeOK, TypeObject, TypeActivation, TypeCurrent, TypeWalk
  <3>6. ASSUME LeaveExistent(p) PROVE TypeOK'
    BY <3>6, <1>2
    DEF LeaveExistent, TickReturns, AtSwitch, CanceledSeen, TypeOK, TypeObject,
        TypeActivation, TypeCurrent, TypeWalk
  <3>7. ASSUME CancelWork(p) PROVE TypeOK'
    BY <3>7, <1>2
    DEF CancelWork, TickReturns, AtSwitch, CanceledSeen, TypeOK, TypeObject,
        TypeActivation, TypeCurrent, TypeWalk
  <3>8. ASSUME CallUserCode(p) PROVE TypeOK'
    BY <3>8, <1>2
    DEF CallUserCode, AtSwitch, CanceledSeen, TypeOK, TypeObject,
        TypeActivation, TypeCurrent, TypeWalk
  <3>9. ASSUME MarkBegins(p) PROVE TypeOK'
    BY <3>9, <1>2
    DEF MarkBegins, AtSwitch, TypeOK, TypeObject, TypeActivation, TypeCurrent,
        TypeWalk
  <3>10. ASSUME NEW c \in Proc, MarkChild(p, c) PROVE TypeOK'
    BY <3>10, <1>2
    DEF MarkChild, OrBegins, TypeOK, TypeObject, TypeActivation, TypeCurrent,
        TypeWalk
  <3>11. ASSUME MarkEnds(p) PROVE TypeOK'
    BY <3>11, <1>2
    DEF MarkEnds, TickReturns, TypeOK, TypeObject, TypeActivation, TypeCurrent,
        TypeWalk
  <3>12. ASSUME PrepareFinish(p) PROVE TypeOK'
    <4>1. CASE "WhenFinishedUnused" \in statParent[p]
      <5>1. /\ OrBegins(p, p, "unused")
            /\ UNCHANGED <<objVars, drvVars, walkVars, stopReq, todo, handle>>
        BY <3>12, <4>1 DEF PrepareFinish
      <5>2. QED
        BY <5>1, <1>2
        DEF OrBegins, TypeOK, TypeObject, TypeActivation, TypeCurrent, TypeWalk
    <4>2. CASE "WhenFinishedUnused" \notin statParent[p]
      <5>1. /\ TickReturns(p) /\ state' = [state EXCEPT ![p] = "Finished"]
            /\ UNCHANGED <<life, mode, statParent, statDrv, success, children,
                           drvVars, walkVars, stopReq>>
        BY <3>12, <4>2 DEF PrepareFinish
      <5>2. QED
        BY <5>1, <1>2
        DEF TickReturns, TypeOK, TypeObject, TypeActivation, TypeCurrent,
            TypeWalk
    <4>3. QED BY <4>1, <4>2
  <3>13. ASSUME FinishedTick(p) PROVE TypeOK'
    BY <3>13, <1>2
    DEF FinishedTick, AtSwitch, TickReturns, TypeOK, TypeObject,
        TypeActivation, TypeCurrent, TypeWalk
  <3>14. ASSUME StoreStat(p) PROVE TypeOK'
    <4>1. OrValue(p) \in SUBSET ParBits
      BY <1>2 DEF OrValue, OrMask, TypeOK, TypeActivation
    <4>2. /\ PcAfterStore(p) \in Pcs
          /\ op[p] # "repel" => PcAfterStore(p) \in {"idle", "mark", "user"}
      BY DEF PcAfterStore
    <4>3. pc[p] = "store" => cur[p] \in Proc
      BY <1>2 DEF TypeOK, TypeActivation, TypeCurrent
    <4>4. TypeObject'
      BY <3>14, <4>1, <1>2 DEF StoreStat, TypeOK, TypeObject
    <4>5. TypeActivation'
      BY <3>14, <4>2, <1>2 DEF StoreStat, TypeOK, TypeActivation
    <4>6. TypeCurrent'
      BY <3>14, <4>2, <4>3, <1>2
      DEF StoreStat, TypeOK, TypeActivation, TypeCurrent
    <4>7. TypeWalk'
      BY <3>14, <1>2 DEF StoreStat, TypeOK, TypeWalk
    <4>8. QED BY <4>4, <4>5, <4>6, <4>7 DEF TypeOK
  <3>15. ASSUME UnuseChild(p) PROVE TypeOK'
    <4>1. /\ cur[p] \in Proc /\ OrBegins(p, cur[p], "unused")
          /\ UNCHANGED <<objVars, drvVars, todo, handle, walkVars, stopReq>>
      BY <3>15, <1>2
      DEF UnuseChild, TypeOK, TypeActivation, TypeCurrent
    <4>2. TypeObject' /\ TypeWalk'
      BY <4>1, <1>2 DEF TypeOK, TypeObject, TypeWalk
    <4>3. TypeActivation' /\ TypeCurrent'
      BY <4>1, <1>2
      DEF OrBegins, TypeOK, TypeObject, TypeActivation, TypeCurrent
    <4>4. QED BY <4>2, <4>3 DEF TypeOK
  <3>16. todo[p] \subseteq Proc
    BY <1>2 DEF TypeOK, TypeActivation
  <3>17. QED
    BY <2>2, <3>16, <3>1, <3>2, <3>3, <3>4, <3>5, <3>6, <3>7, <3>8, <3>9, <3>10,
       <3>11, <3>12, <3>13, <3>14, <3>15
    DEF Tick
<2>3. ASSUME NEW p \in Proc, UserReturns(p) PROVE TypeOK'
  <3>1. ASSUME UserPending(p) PROVE TypeOK'
    BY <3>1, <1>2
    DEF UserPending, InUserCode, TickReturns, TypeOK, TypeObject,
        TypeActivation, TypeCurrent, TypeWalk
  <3>2. ASSUME NEW res \in {"Positive", "Negative"}, InitializeReturns(p, res)
       PROVE  TypeOK'
    <4>1. TypeObject'
      BY <3>2, <1>2 DEF InitializeReturns, TypeOK, TypeObject
    <4>2. TypeActivation'
      <5>1. TickReturns(p) /\ UNCHANGED drvVars
        BY <3>2 DEF InitializeReturns
      <5>2. QED BY <5>1, <1>2 DEF TickReturns, TypeOK, TypeActivation
    <4>3. TypeCurrent'
      BY <3>2, <1>2
      DEF InitializeReturns, InUserCode, TickReturns, TypeOK, TypeObject,
          TypeActivation, TypeCurrent, TypeWalk
    <4>4. TypeWalk'
      BY <3>2, <1>2
      DEF InitializeReturns, InUserCode, TickReturns, TypeOK, TypeObject,
          TypeActivation, TypeCurrent, TypeWalk
    <4>5. QED BY <4>1, <4>2, <4>3, <4>4 DEF TypeOK
  <3>3. ASSUME NEW res \in {"Positive", "Negative"}, ProcessReturns(p, res)
       PROVE  TypeOK'
    BY <3>3, <1>2
    DEF ProcessReturns, InUserCode, TickReturns, TypeOK, TypeObject,
        TypeActivation, TypeCurrent, TypeWalk
  <3>4. ASSUME ShutdownReturns(p) PROVE TypeOK'
    BY <3>4, <1>2
    DEF ShutdownReturns, InUserCode, TickReturns, TypeOK, TypeObject,
        TypeActivation, TypeCurrent, TypeWalk
  <3>5. QED
    BY <2>3, <3>1, <3>2, <3>3, <3>4, TreeAssumption
    DEF UserReturns
<2>4. ASSUME NEW p \in Proc, UserCalls(p) PROVE TypeOK'
  <3>1. ASSUME AddChild(p) PROVE TypeOK'
    <4>1. pc[p] = "spawn" /\ cur[p] \in Proc
      BY <3>1, <1>2 DEF AddChild, TypeOK, TypeActivation, TypeCurrent
    <4>2. TypeObject'
      BY <3>1, <4>1, <1>2 DEF AddChild, TypeOK, TypeObject
    <4>3. TypeActivation' /\ TypeCurrent' /\ TypeWalk'
      BY <3>1, <4>1, <1>2
      DEF AddChild, OrBegins, TypeOK, TypeObject, TypeActivation, TypeCurrent,
          TypeWalk
    <4>4. QED BY <4>2, <4>3 DEF TypeOK
  <3>2. ASSUME NEW c \in Proc, CancelChild(p, c) PROVE TypeOK'
    BY <3>2, <1>2
    DEF CancelChild, InUserCode, OrBegins, TypeOK, TypeObject, TypeActivation,
        TypeCurrent, TypeWalk
  <3>3. ASSUME NEW c \in Proc, RepelChild(p, c) PROVE TypeOK'
    BY <3>3, <1>2
    DEF RepelChild, InUserCode, OrBegins, TypeOK, TypeObject, TypeActivation,
        TypeCurrent, TypeWalk
  <3>4. ASSUME NEW c \in Proc, WhenFinishedRepel(p, c) PROVE TypeOK'
    BY <3>4, <1>2
    DEF WhenFinishedRepel, InUserCode, OrBegins, TypeOK, TypeObject,
        TypeActivation, TypeCurrent, TypeWalk
  <3>5. ASSUME NEW c \in Proc, NEW m \in {"parent", "internal", "external"},
              StartChild(p, c, m)
       PROVE  TypeOK'
    BY <3>5, <1>2
    DEF StartChild, InUserCode, TypeOK, TypeObject, TypeActivation,
        TypeCurrent, TypeWalk
  <3>6. ASSUME NEW c \in Proc, NEW m \in {"parent", "internal", "external"},
              RestartChild(p, c, m)
       PROVE  TypeOK'
    BY <3>6, <1>2
    DEF RestartChild, frame, TypeOK, TypeObject, TypeActivation, TypeCurrent,
        TypeWalk
  <3>7. QED
    BY <2>4, <3>1, <3>2, <3>3, <3>4, <3>5, <3>6, TreeAssumption
    DEF UserCalls, DriverObtained
<2>5. ASSUME Walk PROVE TypeOK'
  <3>1. ASSUME WalkBegins PROVE TypeOK'
    BY <3>1, <1>2
    DEF WalkBegins, InUserCode, TypeOK, TypeObject, TypeActivation,
        TypeCurrent, TypeWalk
  <3>2. ASSUME NEW c \in Proc, WalkDown(c) PROVE TypeOK'
    BY <3>2, <1>2
    DEF WalkDown, TypeOK, TypeObject, TypeActivation, TypeCurrent, TypeWalk
  <3>3. ASSUME WalkUp PROVE TypeOK'
    BY <3>3, <1>2
    DEF WalkUp, TypeOK, TypeObject, TypeActivation, TypeCurrent, TypeWalk
  <3>4. QED
    BY <2>5, <3>1, <3>2, <3>3
    DEF Walk
<2>6. ASSUME MainDestroysRoot PROVE TypeOK'
  BY <2>6, <1>2
  DEF MainDestroysRoot, progress, TypeOK, TypeObject, TypeActivation,
      TypeCurrent, TypeWalk
<2>7. ASSUME CloseRequest \/ CloseStores PROVE TypeOK'
  BY <2>7, <1>2
  DEF CloseRequest, CloseStores, OrMask, TypeOK, TypeObject, TypeActivation, TypeCurrent,
      TypeWalk
<2>8. ASSUME UNCHANGED vars PROVE TypeOK'
  BY <2>8, <1>2
  DEF vars, TypeOK, TypeObject, TypeActivation, TypeCurrent, TypeWalk
<2>9. QED
  BY <1>2, <2>1, <2>2, <2>3, <2>4, <2>5, <2>6, <2>7, <2>8
  DEF Next, Step, Terminated
<1>3. QED
  BY <1>1, <1>2, PTL DEF Spec

-----------------------------------------------------------------------------
(***************************************************************************)
(* No request is lost, although a process and the driver of its parent     *)
(* both change its mStatParent with a load and a store.                    *)
(*                                                                         *)
(* The two meet only when the process was asked to repel itself, and then  *)
(* both set the same bits: the parent has dropped its handle when it asks, *)
(* so all it can still do is unusedSet(), which is what the process does.  *)
(***************************************************************************)
USE NotOwnParent
HIDE DEF Lives, Modes, DrvPcs, States, Pcs, Ops, ParBits, DrvBits,
         objVars, drvVars, frame, walkVars

\* A process works on its own children, and on itself at the end.
Owned ==
  \A p \in Proc :
    /\ \A c \in handle[p] \cup todo[p] \cup children[p] :
         Parent[c] = p /\ life[c] # "unborn"
    /\ pc[p] \in {"spawn", "unuse"} =>
         Parent[cur[p]] = p /\ life[cur[p]] # "unborn"
    /\ pc[p] = "store" =>
         (Parent[cur[p]] = p \/ cur[p] = p) /\ life[cur[p]] # "unborn"

\* Nothing was asked of a process before it was created, and the application
\* is never repelled.
Unasked ==
  /\ \A p \in Proc : life[p] = "unborn" => statParent[p] = {}
  /\ life[Root] # "unborn" /\ "WhenFinishedUnused" \notin statParent[Root]

\* Who changes its own bits was asked to repel itself.
SelfRepelled ==
  \A p \in Proc : pc[p] = "store" /\ cur[p] = p =>
    op[p] = "unused" /\ "WhenFinishedUnused" \in statParent[p]

\* Of a process that was asked to repel itself nobody has a handle.
Dropped ==
  /\ \A p \in Proc : pc[p] = "store" /\ op[p] = "whenFinished" =>
       cur[p] \notin handle[p]
  /\ \A p, c \in Proc : "WhenFinishedUnused" \in statParent[c] =>
       /\ c \notin handle[p]
       /\ pc[p] = "spawn" => cur[p] # c
       /\ pc[p] = "store" /\ cur[p] = c => op[p] = "unused"

\* A load is still good when the store comes: what the byte has got since is
\* in the mask.
LoadIsGood ==
  \A p \in Proc : pc[p] = "store" =>
    /\ reg[p] \subseteq statParent[cur[p]]
    /\ statParent[cur[p]] \subseteq OrValue(p)

RequestsInv == Owned /\ Unasked /\ SelfRepelled /\ Dropped /\ LoadIsGood

-----------------------------------------------------------------------------
(***************************************************************************)
(* Most steps ask nothing of anybody.                                      *)
(***************************************************************************)
Quiet ==
  /\ UNCHANGED <<statParent, op, reg, handle>>
  /\ \A q \in Proc :
       /\ life'[q] = "unborn" => life[q] = "unborn"
       /\ pc'[q] \in {"spawn", "store", "unuse"} =>
            pc'[q] = pc[q] /\ cur'[q] = cur[q]
       /\ todo'[q] \subseteq todo[q] \cup children[q]
       /\ children'[q] \subseteq children[q]

\* Such a step keeps the invariant.
LEMMA QuietStep ==
  ASSUME TypeOK, TypeOK', RequestsInv, Quiet
  PROVE  RequestsInv'
<1>1. Owned'
  <2>1. ASSUME NEW p \in Proc,
               NEW c \in handle'[p] \cup todo'[p] \cup children'[p]
        PROVE  Parent[c] = p /\ life'[c] # "unborn"
    <3>1. c \in handle[p] \cup todo[p] \cup children[p] /\ c \in Proc
      BY DEF Quiet, TypeOK, TypeObject, TypeActivation
    <3>2. QED BY <3>1 DEF Quiet, RequestsInv, Owned
  <2>2. ASSUME NEW p \in Proc, pc'[p] \in {"spawn", "unuse", "store"}
        PROVE  cur'[p] = cur[p] /\ pc'[p] = pc[p] /\ cur[p] \in Proc
    BY <2>2 DEF Quiet, TypeOK, TypeActivation, TypeCurrent
  <2>3. QED BY <2>1, <2>2 DEF Quiet, RequestsInv, Owned
<1>2. Unasked'
  BY DEF Quiet, RequestsInv, Unasked
<1>3. SelfRepelled'
  BY DEF Quiet, RequestsInv, SelfRepelled
<1>4. Dropped'
  BY DEF Quiet, RequestsInv, Dropped
<1>5. LoadIsGood'
  BY DEF Quiet, RequestsInv, LoadIsGood, OrValue
<1>6. QED
  BY <1>1, <1>2, <1>3, <1>4, <1>5 DEF RequestsInv

\* A |= begins: on a process created before, by its parent or by itself, and
\* with `unused' once the process was asked to repel itself.
LEMMA OrStep ==
  ASSUME TypeOK, TypeOK', RequestsInv,
         NEW p \in Proc, NEW c \in Proc, NEW o \in Ops,
         OrBegins(p, c, o),
         UNCHANGED <<life, statParent>>,
         life[c] # "unborn",
         Parent[c] = p \/ (c = p /\ "WhenFinishedUnused" \in statParent[p]),
         (c = p \/ "WhenFinishedUnused" \in statParent[c]) => o = "unused",
         o = "whenFinished" => c \notin handle'[p],
         \A q \in Proc :
           /\ handle'[q] \subseteq handle[q]
           /\ todo'[q] \subseteq todo[q]
           /\ children'[q] \subseteq children[q] \cup
                {d \in Proc : Parent[d] = q /\ life[d] # "unborn"}
  PROVE  RequestsInv'
<1>. USE DEF OrBegins, TypeOK, TypeActivation
<1>1. Owned'
  BY DEF RequestsInv, Owned
<1>2. Unasked'
  BY DEF RequestsInv, Unasked
<1>3. SelfRepelled'
  BY DEF RequestsInv, SelfRepelled
<1>4. Dropped'
  BY DEF RequestsInv, Dropped
<1>5. LoadIsGood'
  BY DEF RequestsInv, LoadIsGood, OrValue
<1>6. QED
  BY <1>1, <1>2, <1>3, <1>4, <1>5 DEF RequestsInv

\* The store loses nothing.
LEMMA StoreKeeps ==
  ASSUME TypeOK, RequestsInv, NEW p \in Proc, StoreStat(p)
  PROVE  /\ cur[p] \in Proc
         /\ statParent' = [statParent EXCEPT ![cur[p]] = OrValue(p)]
         /\ statParent[cur[p]] \subseteq OrValue(p)
BY DEF StoreStat, RequestsInv, LoadIsGood, TypeOK, TypeActivation, TypeCurrent

\* Whoever else has loaded the byte sets the same bits.
LEMMA StoreMeetsStore ==
  ASSUME TypeOK, RequestsInv, NEW p \in Proc, NEW q \in Proc, p # q,
         pc[p] = "store", pc[q] = "store", cur[p] = cur[q]
  PROVE  /\ op[p] = "unused" /\ op[q] = "unused"
         /\ OrValue(p) \subseteq OrValue(q)
<1>1. cur[p] \in Proc
  BY DEF TypeOK, TypeActivation, TypeCurrent
<1>2. cur[p] = p \/ cur[q] = q
  BY <1>1 DEF RequestsInv, Owned
<1>3. "WhenFinishedUnused" \in statParent[cur[p]]
  BY <1>1, <1>2 DEF RequestsInv, SelfRepelled
<1>4. op[p] = "unused" /\ op[q] = "unused"
  BY <1>1, <1>3 DEF RequestsInv, Dropped
<1>5. reg[p] \subseteq OrValue(q)
  BY DEF RequestsInv, LoadIsGood
<1>6. QED
  BY <1>4, <1>5 DEF OrValue

\* The store of a |= keeps the invariant.
LEMMA StoreStep ==
  ASSUME TypeOK, TypeOK', RequestsInv, NEW p \in Proc, StoreStat(p)
  PROVE  RequestsInv'
<1>1. /\ cur[p] \in Proc
      /\ statParent' = [statParent EXCEPT ![cur[p]] = OrValue(p)]
      /\ statParent[cur[p]] \subseteq OrValue(p)
  BY StoreKeeps
<1>2. /\ pc[p] = "store"
      /\ pc' = [pc EXCEPT ![p] = PcAfterStore(p)]
      /\ op' = [op EXCEPT ![p] = "none"]
      /\ reg' = [reg EXCEPT ![p] = {}]
      /\ cur' = [cur EXCEPT ![p] = IF op[p] = "repel" THEN @ ELSE NoProc]
      /\ UNCHANGED <<life, children, todo, handle>>
  BY DEF StoreStat, objVars
<1>3. PcAfterStore(p) \notin {"store", "spawn"}
  BY DEF PcAfterStore
<1>4. PcAfterStore(p) = "unuse" => op[p] = "repel"
  BY DEF PcAfterStore
<1>5. "WhenFinishedUnused" \in OrMask(op[p]) => op[p] = "whenFinished"
  BY DEF OrMask
<1>6. "WhenFinishedUnused" \in OrValue(p) =>
        \/ op[p] = "whenFinished"
        \/ "WhenFinishedUnused" \in statParent[cur[p]]
  BY <1>2, <1>5 DEF OrValue, RequestsInv, LoadIsGood
<1>7. op[p] = "whenFinished" => Parent[cur[p]] = p /\ cur[p] # p
  BY <1>1, <1>2 DEF RequestsInv, Owned, SelfRepelled
<1>. USE DEF TypeOK, TypeObject, TypeActivation, TypeCurrent
<1>8. Owned'
  BY <1>1, <1>2, <1>3, <1>4 DEF RequestsInv, Owned, SelfRepelled
<1>9. Unasked'
  BY <1>1, <1>2, <1>6, <1>7 DEF RequestsInv, Owned, Unasked
<1>10. SelfRepelled'
  BY <1>1, <1>2, <1>3 DEF RequestsInv, SelfRepelled
<1>11. Dropped'
  <2>1. ASSUME NEW q \in Proc, pc'[q] = "store", op'[q] = "whenFinished"
        PROVE  cur'[q] \notin handle'[q]
    BY <2>1, <1>2, <1>3 DEF RequestsInv, Dropped
  <2>2. ASSUME NEW q \in Proc, NEW c \in Proc,
               "WhenFinishedUnused" \in statParent'[c]
        PROVE  /\ c \notin handle'[q]
               /\ pc'[q] = "spawn" => cur'[q] # c
               /\ pc'[q] = "store" /\ cur'[q] = c => op'[q] = "unused"
    <3>1. CASE "WhenFinishedUnused" \in statParent[c]
      BY <3>1, <1>2, <1>3 DEF RequestsInv, Dropped
    <3>2. CASE "WhenFinishedUnused" \notin statParent[c]
      <4>1. c = cur[p] /\ op[p] = "whenFinished" /\ Parent[c] = p
        BY <2>2, <3>2, <1>1, <1>6, <1>7
      <4>2. c \notin handle[q]
        BY <4>1, <1>2 DEF RequestsInv, Owned, Dropped
      <4>3. pc'[q] = "spawn" => cur'[q] # c
        BY <4>1, <1>2, <1>3 DEF RequestsInv, Owned
      <4>4. pc'[q] = "store" /\ cur'[q] = c => op'[q] = "unused"
        BY <4>1, <1>2, <1>3, StoreMeetsStore
      <4>5. QED BY <4>2, <4>3, <4>4, <1>2
    <3>3. QED BY <3>1, <3>2
  <2>3. QED BY <2>1, <2>2 DEF Dropped
<1>12. LoadIsGood'
  <2>1. ASSUME NEW q \in Proc, pc'[q] = "store"
        PROVE  /\ reg'[q] \subseteq statParent'[cur'[q]]
               /\ statParent'[cur'[q]] \subseteq reg'[q] \cup OrMask(op'[q])
    <3>1. /\ q # p /\ pc[q] = "store" /\ reg'[q] = reg[q] /\ op'[q] = op[q]
          /\ cur'[q] = cur[q] /\ cur[q] \in Proc
      <4>1. q # p
        BY <2>1, <1>2, <1>3
      <4>2. pc[q] = "store"
        BY <4>1, <2>1, <1>2
      <4>3. cur[q] \in Proc
        BY <4>2
      <4>4. QED BY <4>1, <4>2, <4>3, <1>2
    <3>2. /\ reg[q] \subseteq statParent[cur[q]]
          /\ statParent[cur[q]] \subseteq reg[q] \cup OrMask(op[q])
      BY <3>1 DEF RequestsInv, LoadIsGood, OrValue
    <3>3. CASE cur[q] = cur[p]
      <4>1. OrValue(p) \subseteq reg[q] \cup OrMask(op[q])
        BY <3>1, <3>3, <1>2, StoreMeetsStore DEF OrValue
      <4>2. QED BY <4>1, <3>1, <3>2, <3>3, <1>1
    <3>4. CASE cur[q] # cur[p]
      BY <3>1, <3>2, <3>4, <1>1
    <3>5. QED BY <3>3, <3>4
  <2>2. QED BY <2>1 DEF LoadIsGood, OrValue
<1>13. QED
  BY <1>8, <1>9, <1>10, <1>11, <1>12 DEF RequestsInv

\* So does create() and the first half of start(): the new process is fresh.
LEMMA StartStep ==
  ASSUME TypeOK, TypeOK', RequestsInv,
         NEW p \in Proc, NEW c \in Proc, NEW m \in Modes, StartChild(p, c, m)
  PROVE  RequestsInv'
<1>1. /\ Parent[c] = p /\ life[c] = "unborn" /\ pc[p] = "user"
      /\ life' = [life EXCEPT ![c] = "alive"]
      /\ pc' = [pc EXCEPT ![p] = "spawn"]
      /\ cur' = [cur EXCEPT ![p] = c]
      /\ handle' = [handle EXCEPT ![p] = @ \cup {c}]
      /\ UNCHANGED <<statParent, children, todo, op, reg>>
  BY DEF StartChild, InUserCode
<1>. USE DEF TypeOK, TypeObject, TypeActivation, TypeCurrent
<1>2. statParent[c] = {}
  BY <1>1 DEF RequestsInv, Unasked
<1>3. Owned'
  BY <1>1 DEF RequestsInv, Owned
<1>4. Unasked'
  BY <1>1 DEF RequestsInv, Unasked
<1>5. SelfRepelled'
  BY <1>1 DEF RequestsInv, SelfRepelled
<1>6. Dropped'
  BY <1>1, <1>2 DEF RequestsInv, Dropped
<1>7. LoadIsGood'
  BY <1>1 DEF RequestsInv, LoadIsGood, OrValue
<1>8. QED
  BY <1>3, <1>4, <1>5, <1>6, <1>7 DEF RequestsInv

\* Nobody else changes the bits of the application.
LEMMA CloseStep ==
  ASSUME TypeOK, TypeOK', RequestsInv, CloseStores
  PROVE  RequestsInv'
<1>1. /\ statParent' = [statParent EXCEPT ![Root] = @ \cup OrMask("unused")]
      /\ UNCHANGED <<life, children, pc, cur, todo, op, reg, handle>>
  BY DEF CloseStores, frame
<1>2. "WhenFinishedUnused" \notin OrMask("unused")
  BY DEF OrMask
<1>. USE DEF TypeOK, TypeObject, TypeActivation, TypeCurrent
<1>3. ASSUME NEW p \in Proc, pc[p] = "store" PROVE cur[p] # Root
  <2>1. p # Root \/ cur[p] # p
    BY <1>3 DEF RequestsInv, SelfRepelled, Unasked
  <2>2. QED
    BY <2>1, <1>3 DEF RequestsInv, Owned
<1>4. Owned'
  BY <1>1 DEF RequestsInv, Owned
<1>5. Unasked'
  BY <1>1, <1>2 DEF RequestsInv, Unasked
<1>6. SelfRepelled'
  BY <1>1 DEF RequestsInv, SelfRepelled
<1>7. Dropped'
  BY <1>1, <1>2 DEF RequestsInv, Dropped
<1>8. LoadIsGood'
  BY <1>1, <1>3 DEF RequestsInv, LoadIsGood, OrValue
<1>9. QED
  BY <1>4, <1>5, <1>6, <1>7, <1>8 DEF RequestsInv

-----------------------------------------------------------------------------
\* At the beginning nothing was asked of anybody.
LEMMA RequestsInit == Init => RequestsInv
BY DEF Init, RequestsInv, Owned, Unasked, SelfRepelled, Dropped, LoadIsGood

\* The steps of treeTick().
LEMMA TickKeepsRequests ==
  ASSUME TypeOK, TypeOK', RequestsInv, NEW p \in Proc, Tick(p)
  PROVE  RequestsInv'
<1>. USE DEF TypeOK, TypeObject, TypeActivation, TypeCurrent
<1>1. ASSUME NEW c \in Proc, DriveChild(p, c) PROVE Quiet
  BY <1>1 DEF DriveChild, Quiet, objVars
<1>2. ASSUME NEW c \in Proc, PassChild(p, c) PROVE Quiet
  BY <1>2 DEF PassChild, NextChildOrErase, Quiet, objVars
<1>3. ASSUME NEW c \in Proc, ChildReturned(p, c) PROVE Quiet
  BY <1>3 DEF ChildReturned, NextChildOrErase, Quiet
<1>4. ASSUME NEW c \in Proc, DestroyChild(p, c) PROVE Quiet
  BY <1>4 DEF DestroyChild, Quiet
<1>5. ASSUME EraseChild(p) PROVE Quiet
  BY <1>5 DEF EraseChild, Quiet
<1>6. ASSUME LeaveExistent(p) PROVE Quiet
  BY <1>6 DEF LeaveExistent, AtSwitch, TickReturns, Quiet
<1>7. ASSUME CancelWork(p) PROVE Quiet
  BY <1>7 DEF CancelWork, AtSwitch, TickReturns, Quiet
<1>8. ASSUME CallUserCode(p) PROVE Quiet
  BY <1>8 DEF CallUserCode, AtSwitch, Quiet
<1>9. ASSUME MarkBegins(p) PROVE Quiet
  BY <1>9 DEF MarkBegins, AtSwitch, Quiet, objVars
<1>10. ASSUME MarkEnds(p) PROVE Quiet
  BY <1>10 DEF MarkEnds, TickReturns, Quiet
<1>11. ASSUME FinishedTick(p) PROVE Quiet
  BY <1>11 DEF FinishedTick, AtSwitch, TickReturns, Quiet, objVars
<1>12. ASSUME NEW c \in Proc, MarkChild(p, c) PROVE RequestsInv'
  <2>1. /\ OrBegins(p, c, "unused") /\ c \in todo[p]
        /\ UNCHANGED <<life, statParent, children, handle>>
        /\ todo' = [todo EXCEPT ![p] = @ \ {c}]
    BY <1>12 DEF MarkChild, objVars
  <2>2. life[c] # "unborn" /\ Parent[c] = p
    BY <2>1 DEF RequestsInv, Owned
  <2>3. \A q \in Proc : /\ handle'[q] \subseteq handle[q]
                         /\ todo'[q] \subseteq todo[q]
                         /\ children'[q] \subseteq children[q]
    BY <2>1
  <2>4. QED BY <2>1, <2>2, <2>3, OrStep DEF Ops
<1>13. ASSUME PrepareFinish(p) PROVE Quiet \/ RequestsInv'
  <2>1. CASE "WhenFinishedUnused" \notin statParent[p]
    <3>1. Quiet
      BY <1>13, <2>1 DEF PrepareFinish, AtSwitch, TickReturns, Quiet
    <3>2. QED BY <3>1
  <2>2. CASE "WhenFinishedUnused" \in statParent[p]
    <3>1. /\ OrBegins(p, p, "unused")
          /\ UNCHANGED <<life, statParent, children, todo, handle>>
      BY <1>13, <2>2 DEF PrepareFinish
    <3>2. life[p] # "unborn"
      BY <2>2 DEF RequestsInv, Unasked
    <3>3. RequestsInv'
      BY <3>1, <3>2, <2>2, OrStep DEF Ops
    <3>4. QED BY <3>3
  <2>3. QED BY <2>1, <2>2
<1>14. ASSUME UnuseChild(p) PROVE RequestsInv'
  <2>1. /\ OrBegins(p, cur[p], "unused") /\ pc[p] = "unuse"
        /\ UNCHANGED <<life, statParent, children, todo, handle>>
    BY <1>14 DEF UnuseChild, objVars
  <2>2. cur[p] \in Proc
    BY <2>1
  <2>3. life[cur[p]] # "unborn" /\ Parent[cur[p]] = p
    BY <2>1 DEF RequestsInv, Owned
  <2>4. cur[p] # p
    BY <2>2, <2>3
  <2>5. "unused" \in Ops
    BY DEF Ops
  <2>6. QED BY <2>1, <2>2, <2>3, <2>4, <2>5, OrStep
<1>15. todo[p] \subseteq Proc
  OBVIOUS
<1>16. QED
  BY <1>1, <1>2, <1>3, <1>4, <1>5, <1>6, <1>7, <1>8, <1>9, <1>10, <1>11,
     <1>12, <1>13, <1>14, <1>15, QuietStep, StoreStep
  DEF Tick

\* The steps of the code of a process: its results and its calls.
LEMMA UserKeepsRequests ==
  ASSUME TypeOK, TypeOK', RequestsInv, NEW p \in Proc,
         UserReturns(p) \/ UserCalls(p)
  PROVE  RequestsInv'
<1>. USE DEF TypeOK, TypeObject, TypeActivation, TypeCurrent
<1>1. ASSUME UserReturns(p) PROVE Quiet
  BY <1>1 DEF UserReturns, UserPending, InitializeReturns, ProcessReturns,
              ShutdownReturns, InUserCode, TickReturns, Quiet, objVars
<1>2. ASSUME AddChild(p) PROVE RequestsInv'
  <2>1. /\ OrBegins(p, cur[p], "start") /\ pc[p] = "spawn"
        /\ UNCHANGED <<life, statParent, todo, handle>>
        /\ children' = [children EXCEPT ![p] = @ \cup {cur[p]}]
    BY <1>2 DEF AddChild
  <2>2. cur[p] \in Proc /\ life[cur[p]] # "unborn" /\ Parent[cur[p]] = p
    BY <2>1 DEF RequestsInv, Owned
  <2>3. "WhenFinishedUnused" \notin statParent[cur[p]]
    BY <2>1, <2>2 DEF RequestsInv, Dropped
  <2>4. \A q \in Proc : children'[q] \subseteq children[q] \cup
          {d \in Proc : Parent[d] = q /\ life[d] # "unborn"}
    BY <2>1, <2>2
  <2>5. QED BY <2>1, <2>2, <2>3, <2>4, OrStep DEF Ops
<1>3. ASSUME NEW c \in Proc, NEW o \in {"cancel", "repel", "whenFinished"},
             c \in handle[p], OrBegins(p, c, o),
             handle' = handle \/ handle' = [handle EXCEPT ![p] = @ \ {c}],
             o = "whenFinished" => handle' = [handle EXCEPT ![p] = @ \ {c}],
             UNCHANGED <<life, statParent, children, todo>>
      PROVE  RequestsInv'
  <2>1. life[c] # "unborn" /\ Parent[c] = p
    BY <1>3 DEF RequestsInv, Owned
  <2>2. "WhenFinishedUnused" \notin statParent[c]
    BY <1>3 DEF RequestsInv, Dropped
  <2>3. o = "whenFinished" => c \notin handle'[p]
    BY <1>3
  <2>4. \A q \in Proc : handle'[q] \subseteq handle[q]
    BY <1>3
  <2>5. QED BY <1>3, <2>1, <2>2, <2>3, <2>4, OrStep DEF Ops
<1>4. ASSUME NEW c \in Proc, CancelChild(p, c) PROVE RequestsInv'
  BY <1>3, <1>4 DEF CancelChild, objVars
<1>5. ASSUME NEW c \in Proc, RepelChild(p, c) PROVE RequestsInv'
  BY <1>3, <1>5 DEF RepelChild, objVars
<1>6. ASSUME NEW c \in Proc, WhenFinishedRepel(p, c) PROVE RequestsInv'
  BY <1>3, <1>6 DEF WhenFinishedRepel, objVars
<1>7. ASSUME NEW c \in Proc,
             NEW m \in UNION {DriverObtained(d) : d \in StartModes[c]},
             StartChild(p, c, m)
      PROVE  RequestsInv'
  <2>1. m \in Modes
    BY DEF DriverObtained, Modes
  <2>2. QED BY <1>7, <2>1, StartStep
<1>8. ASSUME NEW c \in Proc, NEW m, RestartChild(p, c, m) PROVE Quiet
  BY <1>8 DEF RestartChild, Quiet, frame
<1>9. QED
  BY <1>1, <1>2, <1>4, <1>5, <1>6, <1>7, <1>8, QuietStep DEF UserCalls

\* The invariant that the requests rest on: who may change the bits of a
\* process at the same time as the driver of its parent, and with what.
THEOREM RequestsInvariant == Spec => []RequestsInv
<1>1. ASSUME TypeOK, TypeOK', RequestsInv, [Next]_vars PROVE RequestsInv'
  <2>1. ASSUME NEW p \in Proc, Drive(p) PROVE RequestsInv'
    <3>1. Quiet
      BY <1>1, <2>1 DEF Drive, DriverTick, DriverLeaves, DriverExits,
         TickCalled, Quiet, objVars, frame, TypeOK, TypeObject, TypeActivation
    <3>2. QED BY <1>1, <3>1, QuietStep
  <2>2. ASSUME NEW p \in Proc, Tick(p) PROVE RequestsInv'
    BY <1>1, <2>2, TickKeepsRequests
  <2>3. ASSUME NEW p \in Proc, UserReturns(p) \/ UserCalls(p)
        PROVE  RequestsInv'
    BY <1>1, <2>3, UserKeepsRequests
  <2>4. ASSUME Walk \/ MainDestroysRoot \/ CloseRequest \/ UNCHANGED vars
        PROVE  RequestsInv'
    <3>1. Quiet
      BY <1>1, <2>4 DEF Walk, WalkBegins, WalkDown, WalkUp, MainDestroysRoot,
         CloseRequest, Quiet, vars, objVars, frame, TypeOK, TypeObject, TypeActivation
    <3>2. QED BY <1>1, <3>1, QuietStep
  <2>5. ASSUME CloseStores PROVE RequestsInv'
    BY <1>1, <2>5, CloseStep
  <2>6. QED
    BY <1>1, <2>1, <2>2, <2>3, <2>4, <2>5 DEF Next, Step, Terminated
<1>2. QED
  BY <1>1, RequestsInit, TypeCorrect, PTL DEF Spec

\* A bit of mStatParent once set stays set: no |= overwrites what another
\* thread has stored since the load (Processing.cpp:333, 831, 864, 902).
THEOREM RequestsKept == Spec => RequestsAreKept
<1>1. ASSUME TypeOK, RequestsInv, [Next]_vars
      PROVE  \A p \in Proc : statParent[p] \subseteq statParent'[p]
  <2>1. ASSUME NEW p \in Proc, StoreStat(p)
        PROVE  \A q \in Proc : statParent[q] \subseteq statParent'[q]
    BY <1>1, <2>1, StoreKeeps DEF TypeOK, TypeObject
  <2>2. ASSUME NEW p \in Proc, Step(p), ~StoreStat(p)
        PROVE  UNCHANGED statParent
    <3>1. CASE Drive(p)
      BY <3>1 DEF Drive, DriverTick, DriverLeaves, DriverExits, objVars
    <3>2. CASE Tick(p)
      BY <2>2, <3>2 DEF Tick, DriveChild, PassChild, ChildReturned,
         DestroyChild, MarkChild, EraseChild, LeaveExistent, CancelWork,
         CallUserCode, MarkBegins, MarkEnds, PrepareFinish, FinishedTick,
         UnuseChild, objVars
    <3>3. CASE UserReturns(p)
      BY <3>3 DEF UserReturns, UserPending, InitializeReturns, ProcessReturns,
         ShutdownReturns, objVars
    <3>4. CASE UserCalls(p)
      BY <3>4 DEF UserCalls, AddChild, CancelChild, RepelChild,
         WhenFinishedRepel, StartChild, RestartChild, objVars
    <3>5. QED BY <2>2, <3>1, <3>2, <3>3, <3>4 DEF Step
  <2>3. ASSUME Walk \/ MainDestroysRoot \/ CloseRequest \/ UNCHANGED vars
        PROVE  UNCHANGED statParent
    BY <2>3 DEF Walk, WalkBegins, WalkDown, WalkUp, MainDestroysRoot,
       CloseRequest, vars, objVars
  <2>4. ASSUME CloseStores
        PROVE  \A q \in Proc : statParent[q] \subseteq statParent'[q]
    BY <1>1, <2>4 DEF CloseStores, TypeOK, TypeObject
  <2>5. QED
    BY <1>1, <2>1, <2>2, <2>3, <2>4 DEF Next, Terminated
<1>2. QED
  BY <1>1, TypeCorrect, RequestsInvariant, PTL DEF RequestsAreKept, Spec
=============================================================================
