----------------------- MODULE ProcessTree_lifetimes -----------------------
(***************************************************************************)
(* Who drives a process, when it may be deleted, and why nobody touches it *)
(* afterwards.                                                             *)
(***************************************************************************)
EXTENDS ProcessTree_proofs

USE TreeAssumption, NotOwnParent

Working == {"Initializing", "Processing", "DownShutting"}
Ending  == {"ChildrenUnusedSet", "FinishedPrepare", "Finished"}

\* A process that was not created has done nothing, and one that has not
\* left Existent has created nobody.
Young ==
  \A p \in Proc :
    /\ life[p] = "unborn" =>
         /\ state[p] = "Existent" /\ pc[p] = "idle" /\ drv[p] = "none"
         /\ statDrv[p] = {}
    /\ state[p] = "Existent" =>
         \A c \in Proc : Parent[c] = p => life[c] = "unborn"

\* Where the activation of a process may be in which of its states.
Position ==
  \A p \in Proc :
    /\ pc[p] \in {"idle", "loop", "user", "mark"} => cur[p] = NoProc
    /\ pc[p] \in {"child", "erase", "destroy"} =>
         Parent[cur[p]] = p /\ cur[p] \notin todo[p]
    /\ pc[p] \in {"user", "spawn", "unuse"} => state[p] \in Working
    /\ pc[p] = "mark" => state[p] = "ChildrenUnusedSet"
    /\ pc[p] = "store" =>
         \/ state[p] \in Working /\ cur[p] # p
         \/ state[p] = "ChildrenUnusedSet" /\ cur[p] # p /\ op[p] = "unused"
         \/ state[p] = "FinishedPrepare" /\ cur[p] = p /\ op[p] = "unused"

\* A process is driven by its thread or by its parent, and by nobody once it
\* is undriven.
Driven ==
  \A p \in Proc :
    /\ drv[p] = "none" <=> mode[p] \in {"unset", "parent"}
    /\ pc[p] = "child" => mode[cur[p]] = "parent"
    /\ pc[p] # "idle" =>
         \/ drv[p] = "run"
         \/ \E q \in Proc : Parent[p] = q /\ pc[q] = "child" /\ cur[q] = p
    /\ "Undriven" \in statDrv[p] => drv[p] # "run"

\* A process on its way out is not used any more.
Removed ==
  \A p \in Proc :
    /\ pc[p] \in {"erase", "destroy"} =>
         "Undriven" \in statDrv[cur[p]] /\ "Unused" \in statParent[cur[p]]
    /\ pc[p] = "destroy" => cur[p] \notin children[p]

\* Who is alive hangs on a parent that is alive.
Listed ==
  \A c \in Proc \ {Root} : life[c] = "alive" =>
    \E p \in Proc :
      /\ Parent[c] = p /\ life[p] = "alive"
      /\ \/ c \in children[p]
         \/ pc[p] \in {"spawn", "destroy"} /\ cur[p] = c

\* While a process works, it has handles of children it still uses only.
Handled ==
  \A p \in Proc : state[p] \in Working =>
    /\ \A c \in handle[p] : life[c] = "alive" /\ "Unused" \notin statParent[c]
    /\ \/ pc[p] = "unuse"
       \/ pc[p] = "store" /\ op[p] \in {"repel", "unused"}
       => cur[p] \notin handle[p]

\* The walk holds the mutexes of one path of the tree, from the root to where
\* it is; whoever is on the path stays in the list.
OnPath ==
  /\ walkAt = NoProc => walkHeld = {}
  /\ walkAt # NoProc =>
       walkAt \in walkHeld /\ Viewer \in Proc /\ pc[Viewer] = "user"
  /\ \A p \in walkHeld \ {Root} :
       Parent[p] \in walkHeld /\ p \in children[Parent[p]]
  /\ \A p \in walkHeld : Parent[p] # walkAt
  /\ \A p, q \in walkHeld : Parent[p] = Parent[q] => p = q
  /\ \A p \in Proc : /\ walkTodo[p] \subseteq children[p]
                     /\ p \notin walkHeld => walkTodo[p] = {}

\* A child that was passed by the loop of ChildrenUnusedSet is told to stop.
Told ==
  \A p \in Proc :
    /\ pc[p] = "mark" => \A c \in children[p] \ todo[p] :
         {"Canceled", "Unused"} \subseteq statParent[c]
    /\ pc[p] = "store" /\ state[p] = "ChildrenUnusedSet" =>
         \A c \in children[p] \ (todo[p] \cup {cur[p]}) :
           {"Canceled", "Unused"} \subseteq statParent[c]

LifetimeInv ==
  /\ Young /\ Position /\ Driven /\ UndrivenIsAtRest /\ Removed /\ Listed
  /\ NotTouched /\ Handled /\ OnPath /\ Told /\ NoStrandedChild
  /\ SkippedShutdownStartedNothing

-----------------------------------------------------------------------------
(***************************************************************************)
(* The steps of ProcessTree, one lemma for each kind: first what the step  *)
(* does, then one step of the proof for each conjunct that it can disturb. *)
(***************************************************************************)

\* A driver calls treeTick().
LEMMA TickBegins ==
  ASSUME TypeOK, TypeOK', RequestsInv, LifetimeInv,
         NEW p \in Proc,
         DriverTick(p)
  PROVE  LifetimeInv'
<1>1. /\ drv[p] = "run" /\ pc[p] = "idle"
      /\ pc' = [pc EXCEPT ![p] = "loop"]
      /\ todo' = [todo EXCEPT ![p] = children[p]]
      /\ UNCHANGED <<life, mode, statParent, statDrv, state, children, drv,
                     cur, op, reg, handle, walkVars>>
  BY DEF DriverTick, TickCalled, objVars
<1>2. Young'
  BY <1>1 DEF LifetimeInv, Young
<1>3. Position'
  BY <1>1 DEF LifetimeInv, Position
<1>4. Driven'
  BY <1>1 DEF LifetimeInv, Driven
<1>5. UndrivenIsAtRest'
  BY <1>1 DEF LifetimeInv, UndrivenIsAtRest, Driven
<1>6. Removed'
  BY <1>1 DEF LifetimeInv, Removed
<1>7. Listed'
  BY <1>1 DEF LifetimeInv, Listed
<1>8. NotTouched'
  BY <1>1 DEF LifetimeInv, NotTouched, walkVars
<1>9. Handled'
  BY <1>1 DEF LifetimeInv, Handled
<1>10. OnPath'
  BY <1>1 DEF LifetimeInv, OnPath, walkVars
<1>11. Told'
  BY <1>1 DEF LifetimeInv, Told
<1>12. NoStrandedChild' /\ SkippedShutdownStartedNothing'
  BY <1>1 DEF LifetimeInv, NoStrandedChild, SkippedShutdownStartedNothing
<1>13. QED
  BY <1>2, <1>3, <1>4, <1>5, <1>6, <1>7, <1>8, <1>9, <1>10, <1>11, <1>12 DEF
     LifetimeInv

\* A driver leaves its process, and its thread ends.
LEMMA DriverEnds ==
  ASSUME TypeOK, TypeOK', RequestsInv, LifetimeInv,
         NEW p \in Proc,
         DriverLeaves(p) \/ DriverExits(p)
  PROVE  LifetimeInv'
<1>1. /\ drv[p] # "none" /\ drv[p] # "exited"
      /\ \/ /\ drv[p] = "run" /\ pc[p] = "idle" /\ ~progress(p) /\ p # Root
            /\ statDrv' = [statDrv EXCEPT ![p] = @ \cup {"Undriven"}]
            /\ drv' = [drv EXCEPT ![p] = "leaving"]
         \/ /\ drv[p] = "leaving"
            /\ drv' = [drv EXCEPT ![p] = "exited"]
            /\ UNCHANGED statDrv
      /\ UNCHANGED <<life, mode, statParent, state, children, frame, walkVars>>
  BY DEF DriverLeaves, DriverExits, objVars
<1>2. \A q \in Proc : statDrv[q] \subseteq statDrv'[q]
  BY <1>1 DEF TypeOK, TypeObject
<1>3. Young'
  BY <1>1 DEF LifetimeInv, Young, TypeOK, TypeObject, TypeActivation, frame
<1>4. Driven'
  BY <1>1 DEF LifetimeInv, Driven, TypeOK, TypeObject, TypeActivation, frame
<1>5. UndrivenIsAtRest'
  BY <1>1 DEF LifetimeInv, UndrivenIsAtRest, TypeOK, TypeObject, frame,
     progress
<1>6. Removed'
  BY <1>1, <1>2 DEF LifetimeInv, Removed, frame, TypeOK, TypeActivation,
     TypeCurrent
<1>7. NotTouched'
  BY <1>1 DEF LifetimeInv, NotTouched, TypeOK, TypeActivation, frame,
     walkVars
<1>8. SkippedShutdownStartedNothing'
  BY <1>1, <1>2 DEF LifetimeInv, SkippedShutdownStartedNothing
<1>9. Position' /\ Listed' /\ Handled' /\ OnPath' /\ Told' /\ NoStrandedChild'
  BY <1>1 DEF LifetimeInv, Position, Listed, Handled, OnPath, Told,
     NoStrandedChild, walkVars, frame, objVars
<1>10. QED
  BY <1>3, <1>4, <1>5, <1>6, <1>7, <1>8, <1>9 DEF LifetimeInv

\* main() destroys the application: by then it is alone.
LEMMA RootDestroyed ==
  ASSUME TypeOK, TypeOK', RequestsInv, LifetimeInv,
         MainDestroysRoot
  PROVE  LifetimeInv'
<1>1. /\ drv[Root] = "run" /\ pc[Root] = "idle" /\ ~progress(Root)
      /\ drv' = [drv EXCEPT ![Root] = "exited"]
      /\ life' = [life EXCEPT ![Root] = "deleted"]
      /\ UNCHANGED <<mode, statParent, statDrv, state, children, frame,
                     walkVars>>
  BY DEF MainDestroysRoot
<1>2. \A c \in Proc : life[c] = "alive" => c = Root
  <2>. DEFINE S == {c \in Proc \ {Root} : life[c] = "alive"}
  <2>1. \A c \in S : Parent[c] \in S
    BY <1>1 DEF LifetimeInv, Listed, progress
  <2>2. S = {}
    BY <2>1, TreeIsAcyclic
  <2>3. QED BY <2>2
<1>3. \A q \in Proc : pc[q] = "idle" /\ cur[q] = NoProc
  BY <1>1, <1>2 DEF LifetimeInv, NotTouched, Position
<1>4. \A q \in Proc :
        handle[q] \cup children[q] \cup todo[q] \subseteq Proc \ {Root}
  BY DEF RequestsInv, Owned, TypeOK, TypeObject, TypeActivation
<1>5. \A q \in Proc : children[q] = {} /\ todo[q] = {} /\ walkTodo[q] = {}
  BY <1>2, <1>4 DEF LifetimeInv, NotTouched, OnPath
<1>6. walkHeld = {}
  BY <1>3 DEF LifetimeInv, OnPath, TypeOK, TypeWalk
<1>7. Young'
  BY <1>1 DEF LifetimeInv, Young, frame
<1>8. Driven'
  BY <1>1 DEF LifetimeInv, Driven, frame
<1>9. Listed'
  BY <1>1, <1>3, <1>5 DEF LifetimeInv, Listed
<1>10. NotTouched'
  BY <1>1, <1>3, <1>5, <1>6 DEF LifetimeInv, NotTouched, frame,
     walkVars, TypeOK, TypeActivation
<1>11. Handled'
  BY <1>1, <1>4 DEF LifetimeInv, Handled, frame
<1>12. SkippedShutdownStartedNothing'
  BY <1>1 DEF LifetimeInv, SkippedShutdownStartedNothing
<1>13. /\ Position' /\ UndrivenIsAtRest' /\ Removed' /\ OnPath'
      /\ Told' /\ NoStrandedChild'
  BY <1>1 DEF LifetimeInv, Position, UndrivenIsAtRest, Removed, OnPath, Told,
     NoStrandedChild, walkVars, frame
<1>14. QED
  BY <1>7, <1>8, <1>9, <1>10, <1>11, <1>12, <1>13 DEF LifetimeInv

\* The signal handler's |=.
LEMMA Closed ==
  ASSUME TypeOK, TypeOK', RequestsInv, LifetimeInv,
         CloseStores
  PROVE  LifetimeInv'
<1>1. /\ statParent' = [statParent EXCEPT ![Root] = @ \cup OrMask("unused")]
      /\ UNCHANGED <<life, mode, statDrv, state, children, drvVars, frame,
                     walkVars>>
  BY DEF CloseStores
<1>2. Removed'
  BY <1>1 DEF LifetimeInv, Removed, frame
<1>3. Handled'
  <2>1. \A q \in Proc : Root \notin handle[q]
    BY DEF RequestsInv, Owned, TypeOK, TypeActivation
  <2>2. QED
    BY <1>1, <2>1 DEF LifetimeInv, Handled, frame, TypeOK, TypeObject,
       TypeActivation
<1>4. Told'
  BY <1>1 DEF LifetimeInv, Told, frame
<1>5. NoStrandedChild'
  BY <1>1 DEF LifetimeInv, NoStrandedChild
<1>6. /\ Young' /\ Position' /\ Driven' /\ UndrivenIsAtRest'
      /\ Listed' /\ NotTouched' /\ OnPath' /\ SkippedShutdownStartedNothing'
  BY <1>1 DEF LifetimeInv, Young, Position, Driven, UndrivenIsAtRest, Listed,
     NotTouched, OnPath, SkippedShutdownStartedNothing, walkVars, frame,
     drvVars
<1>7. QED
  BY <1>2, <1>3, <1>4, <1>5, <1>6 DEF LifetimeInv

\* The parent drives a child.
LEMMA ChildDriven ==
  ASSUME TypeOK, TypeOK', RequestsInv, LifetimeInv,
         NEW p \in Proc,
         NEW c \in Proc,
         DriveChild(p, c)
  PROVE  LifetimeInv'
<1>1. /\ pc[p] = "loop" /\ c \in todo[p]
      /\ mode[c] = "parent" /\ "Undriven" \notin statDrv[c]
      /\ cur' = [cur EXCEPT ![p] = c]
      /\ pc' = [pc EXCEPT ![p] = "child", ![c] = "loop"]
      /\ todo' = [todo EXCEPT ![p] = @ \ {c}, ![c] = children[c]]
      /\ UNCHANGED <<life, mode, statParent, statDrv, state, children, drv,
                     op, reg, handle, walkVars>>
  BY DEF DriveChild, objVars, drvVars
<1>2. Parent[c] = p /\ c # p /\ life[c] = "alive"
  BY <1>1 DEF RequestsInv, Owned, LifetimeInv, NotTouched
<1>3. pc[c] = "idle" /\ cur[c] = NoProc
  BY <1>1, <1>2 DEF LifetimeInv, Driven, Position
<1>4. cur[p] = NoProc
  BY <1>1 DEF LifetimeInv, Position
<1>5. Young'
  BY <1>1, <1>2 DEF LifetimeInv, Young, TypeOK, TypeActivation
<1>6. Position'
  BY <1>1, <1>2, <1>3 DEF LifetimeInv, Position, TypeOK, TypeActivation
<1>7. Driven'
  BY <1>1, <1>2 DEF LifetimeInv, Driven, TypeOK, TypeActivation
<1>8. UndrivenIsAtRest'
  BY <1>1 DEF LifetimeInv, UndrivenIsAtRest, TypeOK, TypeActivation
<1>9. Removed'
  BY <1>1 DEF LifetimeInv, Removed, TypeOK, TypeActivation
<1>10. Listed'
  BY <1>1, <1>3 DEF LifetimeInv, Listed, TypeOK, TypeActivation
<1>11. NotTouched'
  BY <1>1 DEF LifetimeInv, NotTouched, TypeOK, TypeActivation, walkVars
<1>12. Handled'
  BY <1>1 DEF LifetimeInv, Handled, TypeOK, TypeActivation
<1>13. OnPath'
  <2>1. Viewer \in Proc /\ pc[Viewer] = "user" => pc'[Viewer] = "user"
    BY <1>1, <1>3 DEF TypeOK, TypeActivation
  <2>2. QED
    BY <1>1, <2>1 DEF LifetimeInv, OnPath, walkVars
<1>14. Told'
  BY <1>1 DEF LifetimeInv, Told, TypeOK, TypeActivation
<1>15. NoStrandedChild' /\ SkippedShutdownStartedNothing'
  BY <1>1 DEF LifetimeInv, NoStrandedChild, SkippedShutdownStartedNothing
<1>16. QED
  BY <1>5, <1>6, <1>7, <1>8, <1>9, <1>10, <1>11, <1>12, <1>13, <1>14, <1>15
     DEF LifetimeInv

\* The parent leaves a child alone, or is about to remove it.
LEMMA ChildPassed ==
  ASSUME TypeOK, TypeOK', RequestsInv, LifetimeInv,
         NEW p \in Proc,
         NEW c \in Proc,
         PassChild(p, c)
  PROVE  LifetimeInv'
<1>1. PICK x \in {"erase", "loop"} :
        /\ x = "erase" => childCanBeRemoved(c)
        /\ pc' = [pc EXCEPT ![p] = x]
        /\ cur' = [cur EXCEPT ![p] = IF x = "erase" THEN c ELSE NoProc]
  BY DEF PassChild, NextChildOrErase
<1>2. /\ pc[p] = "loop" /\ c \in todo[p]
      /\ todo' = [todo EXCEPT ![p] = @ \ {c}]
      /\ UNCHANGED <<life, mode, statParent, statDrv, state, children, drv, op,
                     reg, handle, walkVars>>
  BY DEF PassChild, objVars, drvVars
<1>3. x = "erase" =>
        "Undriven" \in statDrv[c] /\ "Unused" \in statParent[c]
  BY <1>1 DEF childCanBeRemoved
<1>4. Parent[c] = p /\ c # p /\ life[c] = "alive"
  BY <1>2 DEF RequestsInv, Owned, LifetimeInv, NotTouched
<1>5. Young'
  BY <1>1, <1>2 DEF LifetimeInv, Young
<1>6. Position'
  BY <1>1, <1>2, <1>4 DEF LifetimeInv, Position, TypeOK, TypeActivation
<1>7. Driven'
  BY <1>1, <1>2 DEF LifetimeInv, Driven
<1>8. UndrivenIsAtRest'
  BY <1>1, <1>2 DEF LifetimeInv, UndrivenIsAtRest
<1>9. Removed'
  BY <1>1, <1>2, <1>3 DEF LifetimeInv, Removed, TypeOK, TypeActivation
<1>10. Listed'
  BY <1>1, <1>2 DEF LifetimeInv, Listed
<1>11. NotTouched'
  BY <1>1, <1>2 DEF LifetimeInv, NotTouched, walkVars
<1>12. Handled'
  BY <1>1, <1>2 DEF LifetimeInv, Handled
<1>13. OnPath'
  BY <1>1, <1>2 DEF LifetimeInv, OnPath, walkVars
<1>14. Told'
  BY <1>1, <1>2 DEF LifetimeInv, Told
<1>15. NoStrandedChild' /\ SkippedShutdownStartedNothing'
  BY <1>2 DEF LifetimeInv, NoStrandedChild, SkippedShutdownStartedNothing
<1>16. QED
  BY <1>5, <1>6, <1>7, <1>8, <1>9, <1>10, <1>11, <1>12, <1>13, <1>14, <1>15
     DEF LifetimeInv

\* The child's treeTick() has returned.
LEMMA ChildTicked ==
  ASSUME TypeOK, TypeOK', RequestsInv, LifetimeInv,
         NEW p \in Proc,
         NEW c \in Proc,
         ChildReturned(p, c)
  PROVE  LifetimeInv'
<1>1. PICK x \in {"erase", "loop"} :
        /\ x = "erase" => ~progress(c) /\ "Unused" \in statParent[c]
        /\ pc' = [pc EXCEPT ![p] = x]
        /\ cur' = [cur EXCEPT ![p] = IF x = "erase" THEN c ELSE NoProc]
  BY DEF ChildReturned, NextChildOrErase
<1>2. /\ pc[p] = "child" /\ cur[p] = c /\ pc[c] = "idle"
      /\ UNCHANGED <<life, mode, statParent, state, children, drv, todo, op,
                     reg, handle, walkVars>>
  BY DEF ChildReturned, drvVars
<1>3. PICK D \in {{}, {"Undriven"}} :
        /\ statDrv' = [statDrv EXCEPT ![c] = @ \cup D]
        /\ D # {} <=> ~progress(c)
  <2>1. CASE progress(c)
    <3>1. statDrv' = [statDrv EXCEPT ![c] = @ \cup {}]
      BY <2>1 DEF ChildReturned, TypeOK, TypeObject
    <3>2. QED BY <2>1, <3>1
  <2>2. CASE ~progress(c)
    <3>1. statDrv' = [statDrv EXCEPT ![c] = @ \cup {"Undriven"}]
      BY <2>2 DEF ChildReturned
    <3>2. QED BY <2>2, <3>1
  <2>3. QED BY <2>1, <2>2
<1>4. Parent[c] = p /\ c # p /\ c \notin todo[p] /\ life[c] = "alive"
  BY <1>2 DEF LifetimeInv, Position, NotTouched
<1>5. mode[c] = "parent" /\ drv[c] = "none"
  BY <1>2 DEF LifetimeInv, Driven
<1>6. D # {} => state[c] = "Finished" /\ children[c] = {}
  BY <1>3 DEF progress
<1>7. x = "erase" => "Undriven" \in statDrv'[c] /\ "Unused" \in statParent[c]
  <2>1. D # {} => "Undriven" \in D
    OBVIOUS
  <2>2. "Undriven" \in D => "Undriven" \in statDrv'[c]
    BY <1>3 DEF TypeOK, TypeObject
  <2>3. QED BY <1>1, <1>3, <2>1, <2>2
<1>8. \A q \in Proc : statDrv[q] \subseteq statDrv'[q]
  BY <1>3 DEF TypeOK, TypeObject
<1>9. \A q \in Proc : "Undriven" \in statDrv'[q] =>
        "Undriven" \in statDrv[q] \/ (q = c /\ D # {})
  BY <1>3 DEF TypeOK, TypeObject
<1>10. \A q \in Proc :
         "ShutdownDone" \in statDrv'[q] <=> "ShutdownDone" \in statDrv[q]
  BY <1>3 DEF TypeOK, TypeObject
<1>11. Young'
  BY <1>1, <1>2, <1>3, <1>4 DEF LifetimeInv, Young
<1>12. Position'
  BY <1>1, <1>2 DEF LifetimeInv, Position, TypeOK, TypeActivation
<1>13. Driven'
  BY <1>1, <1>2, <1>9 DEF LifetimeInv, Driven, TypeOK, TypeActivation
<1>14. UndrivenIsAtRest'
  BY <1>1, <1>2, <1>6, <1>9 DEF LifetimeInv, UndrivenIsAtRest
<1>15. Removed'
  BY <1>1, <1>2, <1>3, <1>7 DEF LifetimeInv, Removed
<1>16. Listed'
  BY <1>1, <1>2 DEF LifetimeInv, Listed
<1>17. NotTouched'
  BY <1>1, <1>2, <1>10 DEF LifetimeInv, NotTouched, walkVars
<1>18. Handled'
  BY <1>1, <1>2 DEF LifetimeInv, Handled
<1>19. OnPath'
  BY <1>1, <1>2 DEF LifetimeInv, OnPath, walkVars
<1>20. Told'
  BY <1>1, <1>2 DEF LifetimeInv, Told
<1>21. SkippedShutdownStartedNothing'
  BY <1>1, <1>2, <1>10 DEF LifetimeInv, SkippedShutdownStartedNothing
<1>22. NoStrandedChild'
  BY <1>2 DEF LifetimeInv, NoStrandedChild
<1>23. QED
  BY <1>11, <1>12, <1>13, <1>14, <1>15, <1>16, <1>17, <1>18, <1>19, <1>20,
     <1>21, <1>22 DEF LifetimeInv

\* The child leaves the list.
LEMMA ChildErased ==
  ASSUME TypeOK, TypeOK', RequestsInv, LifetimeInv,
         NEW p \in Proc,
         EraseChild(p)
  PROVE  LifetimeInv'
<1>1. /\ pc[p] = "erase" /\ p \notin walkHeld
      /\ children' = [children EXCEPT ![p] = @ \ {cur[p]}]
      /\ pc' = [pc EXCEPT ![p] = "destroy"]
      /\ UNCHANGED <<life, mode, statParent, statDrv, state, drv, cur, todo,
                     op, reg, handle, walkVars>>
  BY DEF EraseChild, ListLocked, drvVars
<1>2. Young'
  BY <1>1 DEF LifetimeInv, Young
<1>3. Position'
  BY <1>1 DEF LifetimeInv, Position
<1>4. Driven'
  BY <1>1 DEF LifetimeInv, Driven
<1>5. UndrivenIsAtRest'
  BY <1>1 DEF LifetimeInv, UndrivenIsAtRest
<1>6. Removed'
  BY <1>1 DEF LifetimeInv, Removed, TypeOK, TypeObject
<1>7. Listed'
  BY <1>1 DEF LifetimeInv, Listed, TypeOK, TypeActivation
<1>8. NotTouched'
  BY <1>1 DEF LifetimeInv, NotTouched, walkVars
<1>9. Handled'
  BY <1>1 DEF LifetimeInv, Handled
<1>10. OnPath'
  BY <1>1 DEF LifetimeInv, OnPath, walkVars
<1>11. Told'
  BY <1>1 DEF LifetimeInv, Told
<1>12. NoStrandedChild'
  BY <1>1 DEF LifetimeInv, NoStrandedChild
<1>13. SkippedShutdownStartedNothing'
  BY <1>1 DEF LifetimeInv, SkippedShutdownStartedNothing
<1>14. QED
  BY <1>2, <1>3, <1>4, <1>5, <1>6, <1>7, <1>8, <1>9, <1>10, <1>11, <1>12,
     <1>13 DEF LifetimeInv

\* The child is deleted.
LEMMA ChildDestroyed ==
  ASSUME TypeOK, TypeOK', RequestsInv, LifetimeInv,
         NEW p \in Proc,
         NEW c \in Proc,
         DestroyChild(p, c)
  PROVE  LifetimeInv'
<1>1. /\ pc[p] = "destroy" /\ cur[p] = c
      /\ life' = [life EXCEPT ![c] = "deleted"]
      /\ pc' = [pc EXCEPT ![p] = "loop"]
      /\ cur' = [cur EXCEPT ![p] = NoProc]
      /\ UNCHANGED <<mode, statParent, statDrv, state, children, drv, todo, op,
                     reg, handle, walkVars>>
  BY DEF DestroyChild, drvVars
<1>2. /\ Parent[c] = p /\ c # p /\ c \notin todo[p] /\ c \notin children[p]
      /\ "Undriven" \in statDrv[c] /\ "Unused" \in statParent[c]
      /\ life[c] = "alive"
  BY <1>1 DEF LifetimeInv, Position, Removed, NotTouched
<1>3. /\ state[c] = "Finished" /\ children[c] = {} /\ pc[c] = "idle"
      /\ drv[c] # "run" /\ cur[c] = NoProc
  BY <1>2 DEF LifetimeInv, UndrivenIsAtRest, Driven, Position
<1>4. c \notin walkHeld
  BY <1>2 DEF LifetimeInv, OnPath
<1>5. \A d \in Proc : Parent[d] = c => life[d] # "alive"
  BY <1>3 DEF LifetimeInv, Listed
<1>6. \A q \in Proc : q # p =>
        c \notin children[q] \cup todo[q] \cup walkTodo[q] \cup handle[q]
  BY <1>2 DEF RequestsInv, Owned, LifetimeInv, OnPath
<1>7. \A q \in Proc : q # p => cur[q] # c
  <2>1. \A q \in Proc : cur[q] # NoProc => Parent[cur[q]] = q \/ cur[q] = q
    BY DEF RequestsInv, Owned, LifetimeInv, Position, TypeOK, TypeActivation,
       Pcs
  <2>2. QED BY <2>1, <1>2, <1>3
<1>8. Young'
  BY <1>1, <1>3 DEF LifetimeInv, Young
<1>9. Position'
  BY <1>1 DEF LifetimeInv, Position, TypeOK, TypeActivation
<1>10. Driven'
  BY <1>1 DEF LifetimeInv, Driven
<1>11. UndrivenIsAtRest'
  BY <1>1 DEF LifetimeInv, UndrivenIsAtRest
<1>12. Removed'
  BY <1>1 DEF LifetimeInv, Removed, TypeOK, TypeActivation
<1>13. Listed'
  BY <1>1, <1>5 DEF LifetimeInv, Listed, TypeOK, TypeObject
<1>14. NotTouched'
  <2>1. \A q \in Proc : life'[q] # "alive" => q = c \/ life[q] # "alive"
    BY <1>1 DEF TypeOK, TypeObject
  <2>2. \A q \in Proc : q # c => life'[q] = life[q]
    BY <1>1 DEF TypeOK, TypeObject
  <2>3. ASSUME NEW q \in Proc, life'[q] # "alive"
        PROVE  /\ pc'[q] = "idle" /\ drv'[q] # "run" /\ children'[q] = {}
               /\ q \notin walkHeld'
    <3>1. CASE q = c
      BY <3>1, <1>1, <1>2, <1>3, <1>4 DEF walkVars, TypeOK, TypeActivation
    <3>2. CASE q # c
      <4>1. /\ pc[q] = "idle" /\ drv[q] # "run"
            /\ children[q] = {} /\ q \notin walkHeld
        BY <2>1, <2>3, <3>2 DEF LifetimeInv, NotTouched
      <4>2. q # p
        BY <4>1, <1>1
      <4>3. QED BY <4>1, <4>2, <1>1 DEF walkVars, TypeOK, TypeActivation
    <3>3. QED BY <3>1, <3>2
  <2>4. ASSUME NEW q \in Proc, cur'[q] # NoProc PROVE life'[cur'[q]] = "alive"
    <3>1. q # p /\ cur'[q] = cur[q] /\ cur[q] # c /\ cur[q] \in Proc
      BY <2>4, <1>1, <1>7 DEF TypeOK, TypeActivation
    <3>2. QED BY <2>2, <2>4, <3>1 DEF LifetimeInv, NotTouched
  <2>5. ASSUME NEW q \in Proc,
               NEW d \in children'[q] \cup todo'[q] \cup walkTodo'[q]
        PROVE  life'[d] = "alive"
    <3>1. d \in children[q] \cup todo[q] \cup walkTodo[q] /\ d \in Proc
      BY <2>5, <1>1 DEF walkVars, TypeOK, TypeObject, TypeActivation, TypeWalk
    <3>2. d # c
      BY <3>1, <1>2, <1>6 DEF LifetimeInv, OnPath
    <3>3. QED BY <2>2, <3>1, <3>2 DEF LifetimeInv, NotTouched
  <2>6. ASSUME NEW q \in Proc, pc'[q] = "user", NEW d \in handle'[q]
        PROVE  life'[d] = "alive"
    <3>1. q # p /\ pc[q] = "user" /\ d \in handle[q] /\ d \in Proc
      BY <2>6, <1>1 DEF TypeOK, TypeActivation
    <3>2. d # c
      BY <3>1, <1>6
    <3>3. QED BY <2>2, <3>1, <3>2 DEF LifetimeInv, NotTouched
  <2>7. QED BY <2>3, <2>4, <2>5, <2>6 DEF NotTouched
<1>15. Handled'
  BY <1>1, <1>2 DEF LifetimeInv, Handled
<1>16. OnPath'
  BY <1>1 DEF LifetimeInv, OnPath, walkVars
<1>17. Told'
  BY <1>1 DEF LifetimeInv, Told
<1>18. SkippedShutdownStartedNothing'
  BY <1>1, <1>2 DEF LifetimeInv, SkippedShutdownStartedNothing
<1>19. NoStrandedChild'
  BY <1>1 DEF LifetimeInv, NoStrandedChild
<1>20. QED
  BY <1>8, <1>9, <1>10, <1>11, <1>12, <1>13, <1>14, <1>15, <1>16, <1>17,
     <1>18, <1>19 DEF LifetimeInv

\* User code is called.
LEMMA CodeCalled ==
  ASSUME TypeOK, TypeOK', RequestsInv, LifetimeInv,
         NEW p \in Proc,
         CallUserCode(p)
  PROVE  LifetimeInv'
<1>1. /\ pc[p] = "loop" /\ state[p] \in Working
      /\ pc' = [pc EXCEPT ![p] = "user"]
      /\ UNCHANGED <<life, mode, statParent, statDrv, state, children, drv,
                     cur, todo, op, reg, handle, walkAt, walkTodo, walkHeld>>
  BY DEF CallUserCode, AtSwitch, Working, drvVars
<1>2. Young'
  BY <1>1 DEF LifetimeInv, Young
<1>3. Position'
  BY <1>1 DEF LifetimeInv, Position
<1>4. Driven'
  BY <1>1 DEF LifetimeInv, Driven
<1>5. UndrivenIsAtRest'
  BY <1>1 DEF LifetimeInv, UndrivenIsAtRest
<1>6. Removed'
  BY <1>1 DEF LifetimeInv, Removed
<1>7. Listed'
  BY <1>1 DEF LifetimeInv, Listed
<1>8. NotTouched'
  BY <1>1 DEF LifetimeInv, NotTouched, Handled
<1>9. Handled'
  BY <1>1 DEF LifetimeInv, Handled
<1>10. OnPath'
  BY <1>1 DEF LifetimeInv, OnPath
<1>11. Told'
  BY <1>1 DEF LifetimeInv, Told
<1>12. NoStrandedChild' /\ SkippedShutdownStartedNothing'
  BY <1>1 DEF LifetimeInv, NoStrandedChild, SkippedShutdownStartedNothing
<1>13. QED
  BY <1>2, <1>3, <1>4, <1>5, <1>6, <1>7, <1>8, <1>9, <1>10, <1>11, <1>12 DEF
     LifetimeInv

\* The loop of ChildrenUnusedSet begins.
LEMMA MarkingBegins ==
  ASSUME TypeOK, TypeOK', RequestsInv, LifetimeInv,
         NEW p \in Proc,
         MarkBegins(p)
  PROVE  LifetimeInv'
<1>1. /\ pc[p] = "loop" /\ state[p] = "ChildrenUnusedSet"
      /\ pc' = [pc EXCEPT ![p] = "mark"]
      /\ todo' = [todo EXCEPT ![p] = children[p]]
      /\ UNCHANGED <<life, mode, statParent, statDrv, state, children, drv,
                     cur, op, reg, handle, walkVars>>
  BY DEF MarkBegins, AtSwitch, objVars, drvVars
<1>2. Young'
  BY <1>1 DEF LifetimeInv, Young
<1>3. Position'
  BY <1>1 DEF LifetimeInv, Position
<1>4. Driven'
  BY <1>1 DEF LifetimeInv, Driven
<1>5. UndrivenIsAtRest'
  BY <1>1 DEF LifetimeInv, UndrivenIsAtRest
<1>6. Removed'
  BY <1>1 DEF LifetimeInv, Removed
<1>7. Listed'
  BY <1>1 DEF LifetimeInv, Listed
<1>8. NotTouched'
  BY <1>1 DEF LifetimeInv, NotTouched, walkVars
<1>9. Handled'
  BY <1>1 DEF LifetimeInv, Handled
<1>10. OnPath'
  BY <1>1 DEF LifetimeInv, OnPath, walkVars
<1>11. Told'
  BY <1>1 DEF LifetimeInv, Told, TypeOK, TypeActivation
<1>12. NoStrandedChild' /\ SkippedShutdownStartedNothing'
  BY <1>1 DEF LifetimeInv, NoStrandedChild, SkippedShutdownStartedNothing
<1>13. QED
  BY <1>2, <1>3, <1>4, <1>5, <1>6, <1>7, <1>8, <1>9, <1>10, <1>11, <1>12 DEF
     LifetimeInv

\* treeTick() returns: what the next state asks for.
LEMMA TickEnds ==
  ASSUME TypeOK, TypeOK', RequestsInv, LifetimeInv,
         NEW p \in Proc,
         NEW s \in States,
         NEW D \in SUBSET {"ShutdownDone"},
         pc[p] \in {"loop", "user", "mark"},
         p = Viewer /\ pc[p] = "user" => walkAt = NoProc,
         TickReturns(p),
         state' = [state EXCEPT ![p] = s],
         statDrv' = [statDrv EXCEPT ![p] = @ \cup D],
         UNCHANGED <<life, mode, statParent, children, drvVars, walkVars>>,
         s # "Existent",
         s \in Working => state[p] \in Working \cup {"Existent"},
         s \in {"FinishedPrepare", "Finished"} =>
           \A c \in children[p] :
             {"Canceled", "Unused"} \subseteq statParent[c],
         s \in Ending /\ "ShutdownDone" \notin statDrv[p] \cup D =>
           \A c \in Proc : Parent[c] = p => life[c] = "unborn"
  PROVE  LifetimeInv'
<1>1. /\ pc' = [pc EXCEPT ![p] = "idle"]
      /\ cur' = [cur EXCEPT ![p] = NoProc]
      /\ UNCHANGED <<todo, op, reg, handle, drv>>
  BY DEF TickReturns, drvVars
<1>2. Young'
  BY <1>1 DEF LifetimeInv, Young
<1>3. Position'
  BY <1>1 DEF LifetimeInv, Position, TypeOK, TypeActivation
<1>4. Driven'
  BY <1>1 DEF LifetimeInv, Driven
<1>5. UndrivenIsAtRest'
  BY <1>1 DEF LifetimeInv, UndrivenIsAtRest
<1>6. Removed'
  BY <1>1 DEF LifetimeInv, Removed
<1>7. Listed'
  BY <1>1 DEF LifetimeInv, Listed
<1>8. NotTouched'
  BY <1>1 DEF LifetimeInv, NotTouched, walkVars
<1>9. Handled'
  <2>1. state[p] = "Existent" => handle[p] = {}
    <3>1. handle[p] \subseteq Proc
      BY DEF TypeOK, TypeActivation
    <3>2. \A c \in handle[p] : Parent[c] = p /\ life[c] # "unborn"
      BY DEF RequestsInv, Owned
    <3>3. state[p] = "Existent" => \A c \in handle[p] : life[c] = "unborn"
      BY <3>1, <3>2 DEF LifetimeInv, Young
    <3>4. QED BY <3>2, <3>3
  <2>2. QED
    BY <1>1, <2>1 DEF LifetimeInv, Handled, TypeOK, TypeObject, TypeActivation
<1>10. OnPath'
  BY <1>1 DEF LifetimeInv, OnPath, walkVars
<1>11. Told'
  BY <1>1 DEF LifetimeInv, Told
<1>12. NoStrandedChild'
  BY <1>1 DEF LifetimeInv, NoStrandedChild
<1>13. SkippedShutdownStartedNothing'
  <2>1. ASSUME NEW q \in Proc, state'[q] \in Ending,
               "ShutdownDone" \notin statDrv'[q],
               NEW c \in Proc, Parent[c] = q
        PROVE  life[c] = "unborn"
    <3>1. CASE q = p
      BY <2>1, <3>1 DEF TypeOK, TypeObject
    <3>2. CASE q # p
      BY <2>1, <3>2 DEF LifetimeInv, SkippedShutdownStartedNothing, Ending,
         TypeOK, TypeObject
    <3>3. QED BY <3>1, <3>2
  <2>2. QED BY <2>1 DEF SkippedShutdownStartedNothing, Ending
<1>14. QED
  BY <1>2, <1>3, <1>4, <1>5, <1>6, <1>7, <1>8, <1>9, <1>10, <1>11, <1>12,
     <1>13 DEF LifetimeInv

\* A |= begins.
LEMMA OrIsBegun ==
  ASSUME TypeOK, TypeOK', RequestsInv, LifetimeInv,
         NEW p \in Proc,
         NEW c \in Proc,
         NEW o \in Ops,
         pc[p] \in {"loop", "mark", "user", "unuse"},
         p = Viewer /\ pc[p] = "user" => walkAt = NoProc,
         OrBegins(p, c, o),
         UNCHANGED <<life, mode, statParent, statDrv, state, children, drvVars,
                    walkVars>>,
         life[c] = "alive",
         \/ state[p] \in Working /\ Parent[c] = p
         \/ /\ state[p] = "ChildrenUnusedSet" /\ Parent[c] = p /\ o = "unused"
            /\ \A d \in children[p] \ (todo'[p] \cup {c}) :
                 {"Canceled", "Unused"} \subseteq statParent[d]
         \/ state[p] = "FinishedPrepare" /\ c = p /\ o = "unused",
         state[p] \in Working /\ o \in {"repel", "unused"} =>
           c \notin handle'[p],
         \A q \in Proc : handle'[q] \subseteq handle[q],
         \A q \in Proc \ {p} : todo'[q] = todo[q],
         todo'[p] \subseteq todo[p]
  PROVE  LifetimeInv'
<1>1. /\ pc' = [pc EXCEPT ![p] = "store"]
      /\ cur' = [cur EXCEPT ![p] = c]
      /\ op' = [op EXCEPT ![p] = o]
      /\ UNCHANGED drv
  BY DEF OrBegins, drvVars
<1>2. Young'
  BY <1>1 DEF LifetimeInv, Young
<1>3. Position'
  BY <1>1 DEF LifetimeInv, Position, TypeOK, TypeActivation
<1>4. Driven'
  BY <1>1 DEF LifetimeInv, Driven
<1>5. UndrivenIsAtRest'
  BY <1>1 DEF LifetimeInv, UndrivenIsAtRest
<1>6. Removed'
  BY <1>1 DEF LifetimeInv, Removed
<1>7. Listed'
  BY <1>1 DEF LifetimeInv, Listed
<1>8. NotTouched'
  BY <1>1 DEF LifetimeInv, NotTouched, walkVars
<1>9. Handled'
  BY <1>1 DEF LifetimeInv, Handled, TypeOK, TypeActivation
<1>10. OnPath'
  BY <1>1 DEF LifetimeInv, OnPath, walkVars
<1>11. Told'
  <2>1. c \in Proc /\ (state[p] = "ChildrenUnusedSet" =>
          \A d \in children[p] \ (todo'[p] \cup {c}) :
            {"Canceled", "Unused"} \subseteq statParent[d])
    BY DEF Working
  <2>2. ASSUME NEW q \in Proc, q # p PROVE pc'[q] = pc[q] /\ cur'[q] = cur[q]
    BY <2>2, <1>1 DEF TypeOK, TypeActivation
  <2>3. pc'[p] = "store" /\ cur'[p] = c
    BY <1>1 DEF TypeOK, TypeActivation
  <2>4. ASSUME NEW q \in Proc, pc'[q] = "mark",
               NEW d \in children'[q] \ todo'[q]
        PROVE  {"Canceled", "Unused"} \subseteq statParent'[d]
    <3>1. /\ q # p /\ pc[q] = "mark" /\ todo'[q] = todo[q]
          /\ d \in children[q] \ todo[q]
      BY <2>4, <2>2, <2>3
    <3>2. QED BY <3>1 DEF LifetimeInv, Told
  <2>5. ASSUME NEW q \in Proc, pc'[q] = "store",
               state'[q] = "ChildrenUnusedSet",
               NEW d \in children'[q] \ (todo'[q] \cup {cur'[q]})
        PROVE  {"Canceled", "Unused"} \subseteq statParent'[d]
    <3>1. CASE q = p
      BY <2>1, <2>3, <2>5, <3>1
    <3>2. CASE q # p
      BY <2>2, <2>5, <3>2 DEF LifetimeInv, Told
    <3>3. QED BY <3>1, <3>2
  <2>6. QED BY <2>4, <2>5 DEF Told
<1>12. NoStrandedChild' /\ SkippedShutdownStartedNothing'
  BY <1>1 DEF LifetimeInv, NoStrandedChild, SkippedShutdownStartedNothing
<1>13. QED
  BY <1>2, <1>3, <1>4, <1>5, <1>6, <1>7, <1>8, <1>9, <1>10, <1>11, <1>12 DEF
     LifetimeInv

\* A child is created, and its thread runs.
LEMMA ChildStarted ==
  ASSUME TypeOK, TypeOK', RequestsInv, LifetimeInv,
         NEW p \in Proc,
         NEW c \in Proc,
         NEW m \in {"parent", "internal", "external"},
         StartChild(p, c, m)
  PROVE  LifetimeInv'
<1>1. /\ pc[p] = "user" /\ (p = Viewer => walkAt = NoProc)
      /\ Parent[c] = p /\ life[c] = "unborn"
      /\ life' = [life EXCEPT ![c] = "alive"]
      /\ mode' = [mode EXCEPT ![c] = m]
      /\ drv' = [drv EXCEPT ![c] = IF m = "parent" THEN "none" ELSE "run"]
      /\ pc' = [pc EXCEPT ![p] = "spawn"]
      /\ cur' = [cur EXCEPT ![p] = c]
      /\ handle' = [handle EXCEPT ![p] = @ \cup {c}]
      /\ UNCHANGED <<statParent, statDrv, state, children, todo, op, reg,
                     walkVars>>
  BY DEF StartChild, InUserCode
<1>2. /\ life[p] = "alive" /\ state[p] \in Working /\ c # p
      /\ pc[c] = "idle" /\ drv[c] = "none" /\ statDrv[c] = {}
      /\ state[c] = "Existent"
  BY <1>1 DEF LifetimeInv, NotTouched, Position, Young
<1>3. statParent[c] = {}
  BY <1>1 DEF RequestsInv, Unasked
<1>4. \A q \in Proc : cur[q] # c
  BY <1>1 DEF LifetimeInv, NotTouched
<1>5. \A q \in Proc : life[q] = "alive" => life'[q] = "alive"
  BY <1>1 DEF TypeOK, TypeObject
<1>6. Young'
  <2>1. ASSUME NEW q \in Proc, life'[q] = "unborn"
        PROVE  q # c /\ q # p /\ life[q] = "unborn"
    BY <2>1, <1>1, <1>2 DEF TypeOK, TypeObject
  <2>2. ASSUME NEW q \in Proc, state'[q] = "Existent", NEW d \in Proc,
               Parent[d] = q
        PROVE  life'[d] = "unborn"
    <3>1. q # p /\ d # c
      BY <2>2, <1>1, <1>2 DEF Working
    <3>2. QED BY <2>2, <3>1, <1>1 DEF LifetimeInv, Young, TypeOK, TypeObject
  <2>3. QED BY <2>1, <2>2, <1>1 DEF LifetimeInv, Young, TypeOK, TypeActivation
<1>7. Position'
  BY <1>1 DEF LifetimeInv, Position, TypeOK, TypeActivation
<1>8. Driven'
  <2>1. ASSUME NEW q \in Proc
        PROVE  drv'[q] = "none" <=> mode'[q] \in {"unset", "parent"}
    BY <1>1 DEF LifetimeInv, Driven, TypeOK, TypeObject, TypeActivation
  <2>2. ASSUME NEW q \in Proc, pc'[q] = "child" PROVE mode'[cur'[q]] = "parent"
    BY <2>2, <1>1, <1>4 DEF LifetimeInv, Driven, TypeOK, TypeObject,
       TypeActivation
  <2>3. ASSUME NEW q \in Proc, pc'[q] # "idle"
        PROVE  \/ drv'[q] = "run"
               \/ \E r \in Proc :
                    Parent[q] = r /\ pc'[r] = "child" /\ cur'[r] = q
    <3>1. q # c /\ pc[q] # "idle"
      BY <2>3, <1>1, <1>2 DEF TypeOK, TypeActivation
    <3>2. CASE drv[q] = "run"
      BY <3>1, <3>2, <1>1 DEF TypeOK, TypeActivation
    <3>3. ASSUME NEW r \in Proc, Parent[q] = r, pc[r] = "child", cur[r] = q
          PROVE  pc'[r] = "child" /\ cur'[r] = q
      BY <3>3, <1>1 DEF TypeOK, TypeActivation
    <3>4. QED BY <3>1, <3>2, <3>3 DEF LifetimeInv, Driven
  <2>4. ASSUME NEW q \in Proc, "Undriven" \in statDrv'[q] PROVE drv'[q] # "run"
    BY <2>4, <1>1, <1>2 DEF LifetimeInv, Driven, TypeOK, TypeActivation
  <2>5. QED BY <2>1, <2>2, <2>3, <2>4 DEF Driven
<1>9. UndrivenIsAtRest'
  BY <1>1 DEF LifetimeInv, UndrivenIsAtRest
<1>10. Removed'
  BY <1>1 DEF LifetimeInv, Removed
<1>11. Listed'
  <2>1. ASSUME NEW d \in Proc \ {Root}, life'[d] = "alive"
        PROVE  \E q \in Proc :
                 /\ Parent[d] = q /\ life'[q] = "alive"
                 /\ \/ d \in children'[q]
                    \/ pc'[q] \in {"spawn", "destroy"} /\ cur'[q] = d
    <3>1. CASE d = c
      BY <3>1, <1>1, <1>2 DEF TypeOK, TypeObject, TypeActivation
    <3>2. CASE d # c
      <4>1. PICK q \in Proc : /\ Parent[d] = q /\ life[q] = "alive"
                             /\ \/ d \in children[q]
                                \/ pc[q] \in {"spawn", "destroy"} /\ cur[q] = d
        BY <2>1, <3>2, <1>1 DEF LifetimeInv, Listed, TypeOK, TypeObject
      <4>2. pc[q] \in {"spawn", "destroy"} =>
              pc'[q] = pc[q] /\ cur'[q] = cur[q]
        BY <1>1 DEF TypeOK, TypeActivation
      <4>3. QED BY <4>1, <4>2, <1>1, <1>5
    <3>3. QED BY <3>1, <3>2
  <2>2. QED BY <2>1 DEF Listed
<1>12. NotTouched'
  BY <1>1 DEF LifetimeInv, NotTouched, TypeOK, TypeObject, walkVars
<1>13. Handled'
  <2>1. ASSUME NEW q \in Proc, state'[q] \in Working, NEW d \in handle'[q]
        PROVE  life'[d] = "alive" /\ "Unused" \notin statParent'[d]
    <3>1. CASE d = c
      BY <3>1, <1>1, <1>3 DEF TypeOK, TypeObject
    <3>2. CASE d # c
      BY <2>1, <3>2, <1>1, <1>5 DEF LifetimeInv, Handled, TypeOK,
         TypeActivation
    <3>3. QED BY <3>1, <3>2
  <2>2. ASSUME NEW q \in Proc, state'[q] \in Working,
               \/ pc'[q] = "unuse"
               \/ pc'[q] = "store" /\ op'[q] \in {"repel", "unused"}
        PROVE  cur'[q] \notin handle'[q]
    BY <2>2, <1>1 DEF LifetimeInv, Handled, TypeOK, TypeActivation
  <2>3. QED BY <2>1, <2>2 DEF Handled
<1>14. OnPath'
  BY <1>1 DEF LifetimeInv, OnPath, walkVars
<1>15. Told'
  BY <1>1 DEF LifetimeInv, Told
<1>16. SkippedShutdownStartedNothing'
  BY <1>1, <1>2 DEF LifetimeInv, SkippedShutdownStartedNothing, Working
<1>17. NoStrandedChild'
  BY <1>1 DEF LifetimeInv, NoStrandedChild
<1>18. QED
  BY <1>6, <1>7, <1>8, <1>9, <1>10, <1>11, <1>12, <1>13, <1>14, <1>15, <1>16,
     <1>17 DEF LifetimeInv

\* A child that its parent drives is given a driver of its own.  The parent is
\* in its user code, so it is not in the child's treeTick().
LEMMA ChildRestarted ==
  ASSUME TypeOK, TypeOK', RequestsInv, LifetimeInv,
         NEW p \in Proc,
         NEW c \in Proc,
         NEW m \in {"parent", "internal", "external"},
         RestartChild(p, c, m)
  PROVE  LifetimeInv'
<1>1. /\ pc[p] = "user" /\ c \in handle[p] /\ "Undriven" \notin statDrv[c]
      /\ mode[c] = "parent" /\ m # "parent"
      /\ mode' = [mode EXCEPT ![c] = m]
      /\ drv' = [drv EXCEPT ![c] = "run"]
      /\ UNCHANGED <<life, statParent, statDrv, state, children, frame,
                     walkVars>>
  BY DEF RestartChild, InUserCode
<1>2. Parent[c] = p /\ life[c] = "alive"
  BY <1>1 DEF RequestsInv, Owned, LifetimeInv, NotTouched
<1>3. Young'
  BY <1>1, <1>2 DEF LifetimeInv, Young, TypeOK, TypeActivation, frame
<1>4. Driven'
  <2>1. \A q \in Proc : drv'[q] = "none" <=> mode'[q] \in {"unset", "parent"}
    BY <1>1 DEF LifetimeInv, Driven, TypeOK, TypeObject, TypeActivation
  <2>2. ASSUME NEW q \in Proc, pc[q] = "child" PROVE mode'[cur[q]] = "parent"
    <3>1. Parent[cur[q]] = q /\ mode[cur[q]] = "parent" /\ q # p
      BY <2>2, <1>1 DEF LifetimeInv, Position, Driven
    <3>2. cur[q] # c
      BY <3>1, <1>2
    <3>3. QED BY <3>1, <3>2, <1>1 DEF TypeOK, TypeObject
  <2>3. \A q \in Proc : drv[q] = "run" => drv'[q] = "run"
    BY <1>1 DEF TypeOK, TypeActivation
  <2>4. \A q \in Proc : "Undriven" \in statDrv'[q] => drv'[q] # "run"
    BY <1>1 DEF LifetimeInv, Driven, TypeOK, TypeActivation
  <2>5. QED BY <2>1, <2>2, <2>3, <2>4, <1>1 DEF LifetimeInv, Driven, frame
<1>5. NotTouched'
  BY <1>1, <1>2 DEF LifetimeInv, NotTouched, TypeOK, TypeActivation, frame,
     walkVars
<1>6. /\ Position' /\ UndrivenIsAtRest' /\ Removed' /\ Listed' /\ Handled'
      /\ OnPath' /\ Told'
  BY <1>1 DEF LifetimeInv, Position, UndrivenIsAtRest, Removed, Listed,
     Handled, OnPath, Told, walkVars, frame
<1>7. NoStrandedChild' /\ SkippedShutdownStartedNothing'
  BY <1>1 DEF LifetimeInv, NoStrandedChild, SkippedShutdownStartedNothing
<1>8. QED
  BY <1>3, <1>4, <1>5, <1>6, <1>7 DEF LifetimeInv

\* The child is added to the list.
LEMMA ChildAdded ==
  ASSUME TypeOK, TypeOK', RequestsInv, LifetimeInv,
         NEW p \in Proc,
         AddChild(p)
  PROVE  LifetimeInv'
<1>1. /\ pc[p] = "spawn" /\ p \notin walkHeld
      /\ children' = [children EXCEPT ![p] = @ \cup {cur[p]}]
      /\ pc' = [pc EXCEPT ![p] = "store"]
      /\ cur' = [cur EXCEPT ![p] = cur[p]]
      /\ op' = [op EXCEPT ![p] = "start"]
      /\ UNCHANGED <<life, mode, statParent, statDrv, state, drv, todo, handle,
                     walkVars>>
  BY DEF AddChild, OrBegins, ListLocked, drvVars
<1>2. /\ state[p] \in Working /\ cur[p] \in Proc /\ Parent[cur[p]] = p
      /\ cur[p] # p /\ life[cur[p]] = "alive" /\ life[p] = "alive"
  BY <1>1 DEF LifetimeInv, Position, NotTouched, RequestsInv, Owned,
     TypeOK, TypeActivation, TypeCurrent
<1>3. Young'
  BY <1>1 DEF LifetimeInv, Young
<1>4. Position'
  BY <1>1, <1>2 DEF LifetimeInv, Position
<1>5. Driven'
  BY <1>1 DEF LifetimeInv, Driven
<1>6. UndrivenIsAtRest'
  BY <1>1 DEF LifetimeInv, UndrivenIsAtRest
<1>7. Removed'
  BY <1>1 DEF LifetimeInv, Removed
<1>8. Listed'
  BY <1>1 DEF LifetimeInv, Listed, TypeOK, TypeObject
<1>9. NotTouched'
  BY <1>1, <1>2 DEF LifetimeInv, NotTouched, walkVars
<1>10. Handled'
  BY <1>1 DEF LifetimeInv, Handled, TypeOK, TypeActivation
<1>11. OnPath'
  BY <1>1 DEF LifetimeInv, OnPath, walkVars
<1>12. Told'
  BY <1>1, <1>2 DEF LifetimeInv, Told, Working
<1>13. NoStrandedChild'
  BY <1>1, <1>2 DEF LifetimeInv, NoStrandedChild, Working
<1>14. SkippedShutdownStartedNothing'
  BY <1>1 DEF LifetimeInv, SkippedShutdownStartedNothing
<1>15. QED
  BY <1>3, <1>4, <1>5, <1>6, <1>7, <1>8, <1>9, <1>10, <1>11, <1>12, <1>13,
     <1>14 DEF LifetimeInv

\* The store.
LEMMA OrIsDone ==
  ASSUME TypeOK, TypeOK', RequestsInv, LifetimeInv,
         NEW p \in Proc,
         StoreStat(p)
  PROVE  LifetimeInv'
<1>1. /\ pc[p] = "store" /\ cur[p] \in Proc
      /\ statParent' = [statParent EXCEPT ![cur[p]] = OrValue(p)]
      /\ state' = [state EXCEPT ![p] =
                      IF state[p] = "FinishedPrepare" THEN "Finished" ELSE @]
      /\ op' = [op EXCEPT ![p] = "none"]
      /\ pc' = [pc EXCEPT ![p] = PcAfterStore(p)]
      /\ cur' = [cur EXCEPT ![p] = IF op[p] = "repel" THEN @ ELSE NoProc]
      /\ UNCHANGED <<life, mode, statDrv, children, drv, todo, handle,
                     walkVars>>
  BY DEF StoreStat, drvVars, TypeOK, TypeActivation, TypeCurrent
<1>2. \A q \in Proc : statParent[q] \subseteq statParent'[q]
  <2>1. statParent[cur[p]] \subseteq OrValue(p)
    BY StoreKeeps
  <2>2. QED BY <1>1, <2>1 DEF TypeOK, TypeObject
<1>3. {"Canceled", "Unused"} \subseteq OrMask("unused")
  BY DEF OrMask, ParBits
<1>4. op[p] = "unused" => {"Canceled", "Unused"} \subseteq statParent'[cur[p]]
  BY <1>1, <1>3 DEF OrValue, TypeOK, TypeObject
<1>5. \A c \in Proc : "Unused" \in statParent'[c] =>
        "Unused" \in statParent[c] \/ (c = cur[p] /\ op[p] = "unused")
  BY <1>1 DEF OrValue, OrMask, RequestsInv, LoadIsGood, TypeOK, TypeObject
<1>6. /\ state[p] \in Working =>
           /\ state'[p] = state[p] /\ cur[p] # p
           /\ \/ op[p] = "repel" /\ pc'[p] = "unuse" /\ cur'[p] = cur[p]
              \/ op[p] # "repel" /\ pc'[p] = "user" /\ cur'[p] = NoProc
      /\ state[p] = "ChildrenUnusedSet" =>
           /\ op[p] = "unused" /\ pc'[p] = "mark" /\ cur'[p] = NoProc
           /\ state'[p] = state[p]
      /\ state[p] = "FinishedPrepare" =>
           /\ op[p] = "unused" /\ pc'[p] = "idle" /\ cur'[p] = NoProc
           /\ state'[p] = "Finished"
      /\ state[p] \in Working \cup {"ChildrenUnusedSet", "FinishedPrepare"}
  BY <1>1 DEF LifetimeInv, Position, PcAfterStore, Working, TypeOK,
     TypeObject, TypeActivation
<1>7. \A q \in Proc : q # p =>
        /\ pc'[q] = pc[q] /\ cur'[q] = cur[q]
        /\ op'[q] = op[q] /\ state'[q] = state[q]
  BY <1>1 DEF TypeOK, TypeObject, TypeActivation
<1>8. state[p] \in Working => \A c \in handle[p] : life[c] = "alive"
  BY DEF LifetimeInv, Handled
<1>9. Young'
  BY <1>1 DEF LifetimeInv, Young
<1>10. Position'
  BY <1>1, <1>6 DEF LifetimeInv, Position
<1>11. Driven'
  BY <1>1, <1>6 DEF LifetimeInv, Driven
<1>12. UndrivenIsAtRest'
  BY <1>1 DEF LifetimeInv, UndrivenIsAtRest
<1>13. Removed'
  BY <1>1, <1>2, <1>6 DEF LifetimeInv, Removed
<1>14. Listed'
  BY <1>1 DEF LifetimeInv, Listed
<1>15. NotTouched'
  <2>1. \A q \in Proc : life[q] # "alive" => q # p
    BY <1>1 DEF LifetimeInv, NotTouched
  <2>2. \A q \in Proc : life'[q] # "alive" =>
          /\ pc'[q] = "idle" /\ drv'[q] # "run"
          /\ children'[q] = {} /\ q \notin walkHeld'
    BY <2>1, <1>1, <1>7 DEF LifetimeInv, NotTouched, walkVars
  <2>3. \A q \in Proc : cur'[q] # NoProc => life'[cur'[q]] = "alive"
    BY <1>1, <1>6, <1>7 DEF LifetimeInv, NotTouched
  <2>4. \A q \in Proc : \A c \in children'[q] \cup todo'[q] \cup walkTodo'[q] :
          life'[c] = "alive"
    BY <1>1 DEF LifetimeInv, NotTouched, walkVars
  <2>5. \A q \in Proc : pc'[q] = "user" =>
          \A c \in handle'[q] : life'[c] = "alive"
    BY <1>1, <1>6, <1>7, <1>8 DEF LifetimeInv, NotTouched
  <2>6. QED BY <2>2, <2>3, <2>4, <2>5 DEF NotTouched
<1>16. Handled'
  <2>1. ASSUME NEW q \in Proc, state'[q] \in Working, NEW d \in handle'[q]
        PROVE  life'[d] = "alive" /\ "Unused" \notin statParent'[d]
    <3>1. state[q] \in Working /\ d \in handle[q] /\ d \in Proc
      BY <2>1, <1>1, <1>6, <1>7 DEF Working, TypeOK, TypeActivation
    <3>2. life[d] = "alive" /\ "Unused" \notin statParent[d]
      BY <3>1 DEF LifetimeInv, Handled
    <3>3. ~(d = cur[p] /\ op[p] = "unused")
      <4>1. CASE q = p
        BY <3>1, <4>1, <1>1 DEF LifetimeInv, Handled
      <4>2. CASE q # p
        BY <3>1, <4>2, <1>1 DEF RequestsInv, Owned, SelfRepelled, Dropped
      <4>3. QED BY <4>1, <4>2
    <3>4. QED BY <3>1, <3>2, <3>3, <1>1, <1>5
  <2>2. ASSUME NEW q \in Proc, state'[q] \in Working,
               \/ pc'[q] = "unuse"
               \/ pc'[q] = "store" /\ op'[q] \in {"repel", "unused"}
        PROVE  cur'[q] \notin handle'[q]
    BY <2>2, <1>1, <1>6, <1>7 DEF LifetimeInv, Handled, Working
  <2>3. QED BY <2>1, <2>2 DEF Handled
<1>17. OnPath'
  BY <1>1 DEF LifetimeInv, OnPath, walkVars
<1>18. Told'
  BY <1>1, <1>2, <1>4, <1>6 DEF LifetimeInv, Told
<1>19. NoStrandedChild'
  BY <1>1, <1>2 DEF LifetimeInv, NoStrandedChild
<1>20. SkippedShutdownStartedNothing'
  BY <1>1 DEF LifetimeInv, SkippedShutdownStartedNothing
<1>21. QED
  BY <1>9, <1>10, <1>11, <1>12, <1>13, <1>14, <1>15, <1>16, <1>17, <1>18,
     <1>19, <1>20 DEF LifetimeInv

\* The walk begins at the root.
LEMMA WalkStarts ==
  ASSUME TypeOK, TypeOK', RequestsInv, LifetimeInv,
         WalkBegins
  PROVE  LifetimeInv'
<1>1. /\ Viewer \in Proc /\ pc[Viewer] = "user" /\ walkAt = NoProc
      /\ walkAt' = Root /\ walkHeld' = {Root}
      /\ walkTodo' = [walkTodo EXCEPT ![Root] = children[Root]]
      /\ UNCHANGED <<objVars, drvVars, frame>>
  BY DEF WalkBegins, InUserCode
<1>2. life[Root] = "alive"
  <2>. DEFINE S == {c \in Proc : life[c] = "alive"}
  <2>1. ASSUME life[Root] # "alive" PROVE S = {}
    <3>1. \A c \in S : Parent[c] \in S
      BY <2>1 DEF LifetimeInv, Listed
    <3>2. QED BY <3>1, TreeIsAcyclic
  <2>2. Viewer \in S
    BY <1>1 DEF LifetimeInv, NotTouched
  <2>3. QED BY <2>1, <2>2
<1>3. NotTouched'
  BY <1>1, <1>2 DEF LifetimeInv, NotTouched, objVars, drvVars, frame
<1>4. OnPath'
  BY <1>1 DEF LifetimeInv, OnPath, objVars, frame
<1>5. /\ Young' /\ Position' /\ Driven' /\ UndrivenIsAtRest'
      /\ Removed' /\ Listed' /\ Handled' /\ Told'
      /\ NoStrandedChild' /\ SkippedShutdownStartedNothing'
  BY <1>1 DEF LifetimeInv, Young, Position, Driven, UndrivenIsAtRest, Removed,
     Listed, Handled, Told, NoStrandedChild, SkippedShutdownStartedNothing,
     frame, drvVars, objVars
<1>6. QED
  BY <1>3, <1>4, <1>5 DEF LifetimeInv

\* The walk goes down to a child.
LEMMA WalkGoesDown ==
  ASSUME TypeOK, TypeOK', RequestsInv, LifetimeInv,
         NEW c \in Proc,
         WalkDown(c)
  PROVE  LifetimeInv'
<1>1. /\ walkAt \in Proc /\ c \in walkTodo[walkAt]
      /\ walkAt' = c /\ walkHeld' = walkHeld \cup {c}
      /\ walkTodo' = [walkTodo EXCEPT ![walkAt] = @ \ {c}, ![c] = children[c]]
      /\ UNCHANGED <<objVars, drvVars, frame>>
  BY DEF WalkDown, TypeOK, TypeWalk
<1>2. /\ walkAt \in walkHeld /\ Viewer \in Proc /\ pc[Viewer] = "user"
      /\ c \in children[walkAt] /\ Parent[c] = walkAt /\ c # walkAt
  BY <1>1 DEF RequestsInv, Owned, LifetimeInv, OnPath
<1>3. c \notin walkHeld /\ c # Root
  BY <1>1, <1>2 DEF LifetimeInv, OnPath
<1>4. NotTouched'
  <2>1. UNCHANGED <<life, children, drv, pc, cur, todo, handle>>
    BY <1>1 DEF objVars, drvVars, frame
  <2>2. life[c] = "alive"
    BY <1>1 DEF LifetimeInv, NotTouched
  <2>3. \A p \in Proc : walkTodo'[p] \subseteq walkTodo[p] \cup children[p]
    BY <1>1 DEF TypeOK, TypeWalk
  <2>4. \A p \in Proc : \A d \in children[p] \cup todo[p] \cup walkTodo'[p] :
          life[d] = "alive"
    BY <2>3 DEF LifetimeInv, NotTouched
  <2>5. \A p \in Proc : life[p] # "alive" => p \notin walkHeld'
    BY <1>1, <2>2 DEF LifetimeInv, NotTouched
  <2>6. QED
    BY <2>1, <2>4, <2>5 DEF LifetimeInv, NotTouched
<1>5. OnPath'
  <2>. USE DEF objVars, frame
  <2>1. \A p \in walkHeld' \ {Root} :
          Parent[p] \in walkHeld' /\ p \in children'[Parent[p]]
    BY <1>1, <1>2 DEF LifetimeInv, OnPath
  <2>2. \A p \in walkHeld' : Parent[p] # walkAt'
    BY <1>1, <1>2, <1>3 DEF LifetimeInv, OnPath
  <2>3. \A p, q \in walkHeld' : Parent[p] = Parent[q] => p = q
    BY <1>1, <1>2 DEF LifetimeInv, OnPath
  <2>4. \A p \in Proc : /\ walkTodo'[p] \subseteq children'[p]
                        /\ p \notin walkHeld' => walkTodo'[p] = {}
    BY <1>1, <1>2 DEF LifetimeInv, OnPath, TypeOK, TypeWalk
  <2>5. /\ walkAt' # NoProc /\ walkAt' \in walkHeld'
        /\ Viewer \in Proc /\ pc'[Viewer] = "user"
    BY <1>1, <1>2
  <2>6. QED BY <2>1, <2>2, <2>3, <2>4, <2>5 DEF OnPath
<1>6. /\ Young' /\ Position' /\ Driven' /\ UndrivenIsAtRest'
      /\ Removed' /\ Listed' /\ Handled' /\ Told'
      /\ NoStrandedChild' /\ SkippedShutdownStartedNothing'
  BY <1>1 DEF LifetimeInv, Young, Position, Driven, UndrivenIsAtRest, Removed,
     Listed, Handled, Told, NoStrandedChild, SkippedShutdownStartedNothing,
     frame, drvVars, objVars
<1>7. QED
  BY <1>4, <1>5, <1>6 DEF LifetimeInv

\* The walk goes up again.
LEMMA WalkGoesUp ==
  ASSUME TypeOK, TypeOK', RequestsInv, LifetimeInv,
         WalkUp
  PROVE  LifetimeInv'
<1>1. /\ walkAt \in Proc
      /\ walkHeld' = walkHeld \ {walkAt}
      /\ walkTodo' = [walkTodo EXCEPT ![walkAt] = {}]
      /\ walkAt' = Parent[walkAt]
      /\ UNCHANGED <<objVars, drvVars, frame>>
  BY DEF WalkUp, TypeOK, TypeWalk
<1>2. walkAt \in walkHeld /\ Viewer \in Proc /\ pc[Viewer] = "user"
  BY <1>1 DEF LifetimeInv, OnPath
<1>3. walkAt # Root => Parent[walkAt] \in walkHeld /\ Parent[walkAt] # walkAt
  BY <1>1, <1>2 DEF LifetimeInv, OnPath
<1>4. walkAt = Root => walkHeld = {Root}
  <2>. DEFINE S == walkHeld \ {Root}
  <2>1. ASSUME walkAt = Root PROVE \A p \in S : Parent[p] \in S
    BY <2>1 DEF LifetimeInv, OnPath
  <2>2. S \in SUBSET Proc
    BY DEF TypeOK, TypeWalk
  <2>3. walkAt = Root => S = {}
    BY <2>1, <2>2, TreeIsAcyclic
  <2>4. QED BY <1>2, <2>3
<1>5. NotTouched'
  BY <1>1 DEF LifetimeInv, NotTouched, objVars, drvVars, frame
<1>6. OnPath'
  <2>. USE DEF objVars, frame
  <2>1. walkAt' = NoProc => walkHeld' = {}
    BY <1>1, <1>3, <1>4 DEF TypeOK, TypeWalk
  <2>2. walkAt' # NoProc =>
          walkAt' \in walkHeld' /\ Viewer \in Proc /\ pc'[Viewer] = "user"
    BY <1>1, <1>2, <1>3
  <2>3. \A p \in walkHeld' \ {Root} :
          Parent[p] \in walkHeld' /\ p \in children'[Parent[p]]
    BY <1>1, <1>2 DEF LifetimeInv, OnPath
  <2>4. \A p \in walkHeld' : Parent[p] # walkAt'
    BY <1>1, <1>2 DEF LifetimeInv, OnPath
  <2>5. \A p, q \in walkHeld' : Parent[p] = Parent[q] => p = q
    BY <1>1 DEF LifetimeInv, OnPath
  <2>6. \A p \in Proc : /\ walkTodo'[p] \subseteq children'[p]
                        /\ p \notin walkHeld' => walkTodo'[p] = {}
    BY <1>1 DEF LifetimeInv, OnPath, TypeOK, TypeWalk
  <2>7. QED BY <2>1, <2>2, <2>3, <2>4, <2>5, <2>6 DEF OnPath
<1>7. /\ Young' /\ Position' /\ Driven' /\ UndrivenIsAtRest'
      /\ Removed' /\ Listed' /\ Handled' /\ Told'
      /\ NoStrandedChild' /\ SkippedShutdownStartedNothing'
  BY <1>1 DEF LifetimeInv, Young, Position, Driven, UndrivenIsAtRest, Removed,
     Listed, Handled, Told, NoStrandedChild, SkippedShutdownStartedNothing,
     frame, drvVars, objVars
<1>8. QED
  BY <1>5, <1>6, <1>7 DEF LifetimeInv

-----------------------------------------------------------------------------
(***************************************************************************)
(* Every action is one of these steps.                                     *)
(***************************************************************************)

\* Nothing was done and nobody exists but the application.
LEMMA LifetimeInit == Init => LifetimeInv
<1>. SUFFICES ASSUME Init PROVE LifetimeInv
  OBVIOUS
<1>. USE DEF Init
<1>1. Young /\ Position /\ Driven /\ Removed
  BY DEF Young, Position, Driven, Removed
<1>2. UndrivenIsAtRest /\ Listed /\ Handled
  BY DEF UndrivenIsAtRest, Listed, Handled, Working
<1>3. NotTouched /\ OnPath /\ Told
  BY DEF NotTouched, OnPath, Told
<1>4. NoStrandedChild /\ SkippedShutdownStartedNothing
  BY DEF NoStrandedChild, SkippedShutdownStartedNothing
<1>5. QED BY <1>1, <1>2, <1>3, <1>4 DEF LifetimeInv

\* treeTick() returns while the process works.
LEMMA WorkGoesOn ==
  ASSUME TypeOK, TypeOK', RequestsInv, LifetimeInv, NEW p \in Proc,
         NEW s \in Working, state[p] \in Working,
         pc[p] \in {"loop", "user"},
         p = Viewer /\ pc[p] = "user" => walkAt = NoProc,
         TickReturns(p),
         state' = [state EXCEPT ![p] = s],
         UNCHANGED <<life, mode, statParent, statDrv, children, drvVars,
                     walkVars>>
  PROVE  LifetimeInv'
<1>1. /\ {} \in SUBSET {"ShutdownDone"} /\ pc[p] \in {"loop", "user", "mark"}
      /\ statDrv' = [statDrv EXCEPT ![p] = @ \cup {}]
  BY DEF TypeOK, TypeObject
<1>2. s \in States /\ s # "Existent" /\ s \notin Ending
  BY DEF States, Working, Ending
<1>3. s \in Working => state[p] \in Working \cup {"Existent"}
  OBVIOUS
<1>4. s \in {"FinishedPrepare", "Finished"} =>
        \A c \in children[p] : {"Canceled", "Unused"} \subseteq statParent[c]
  BY DEF Working
<1>5. s \in Ending /\ "ShutdownDone" \notin statDrv[p] \cup {} =>
        \A c \in Proc : Parent[c] = p => life[c] = "unborn"
  BY <1>2
<1>6. QED
  BY <1>1, <1>2, <1>3, <1>4, <1>5, TickEnds

\* treeTick() returns after a step of the state machine that calls nothing.
LEMMA MachineStep ==
  ASSUME TypeOK, TypeOK', RequestsInv, LifetimeInv, NEW p \in Proc,
         \/ LeaveExistent(p) \/ CancelWork(p) \/ MarkEnds(p) \/ FinishedTick(p)
         \/ PrepareFinish(p) /\ "WhenFinishedUnused" \notin statParent[p]
  PROVE  LifetimeInv'
<1>1. statDrv' = [statDrv EXCEPT ![p] = @ \cup {}] <=> UNCHANGED statDrv
  BY DEF TypeOK, TypeObject
<1>2. CASE LeaveExistent(p)
  <2>1. children[p] = {}
    BY <1>2 DEF LeaveExistent, LifetimeInv, Young, NotTouched,
       RequestsInv, Owned, TypeOK, TypeObject
  <2>2. \A c \in Proc : Parent[c] = p => life[c] = "unborn"
    BY <1>2 DEF LeaveExistent, LifetimeInv, Young
  <2>3. PICK s \in {"FinishedPrepare", "Initializing"} :
          state' = [state EXCEPT ![p] = s]
    BY <1>2 DEF LeaveExistent
  <2>4. /\ pc[p] = "loop" /\ state[p] = "Existent" /\ TickReturns(p)
        /\ UNCHANGED <<life, mode, statParent, statDrv, children, drvVars,
                       walkVars>>
    BY <1>2 DEF LeaveExistent, AtSwitch
  <2>5. QED
    BY <1>1, <2>1, <2>2, <2>3, <2>4, TickEnds DEF States, Working
<1>3. CASE CancelWork(p)
  <2>1. /\ pc[p] = "loop" /\ TickReturns(p)
        /\ state[p] \in {"Initializing", "Processing"}
        /\ state' = [state EXCEPT ![p] = "DownShutting"]
        /\ UNCHANGED <<life, mode, statParent, statDrv, children, drvVars,
                       walkVars>>
    BY <1>3 DEF CancelWork, AtSwitch
  <2>2. "DownShutting" \in Working /\ state[p] \in Working
    BY <2>1 DEF Working
  <2>3. QED BY <2>1, <2>2, WorkGoesOn
<1>4. CASE MarkEnds(p)
  <2>1. /\ pc[p] = "mark" /\ todo[p] = {} /\ TickReturns(p)
        /\ state' = [state EXCEPT ![p] = "FinishedPrepare"]
        /\ UNCHANGED <<life, mode, statParent, statDrv, children, drvVars,
                       walkVars>>
    BY <1>4 DEF MarkEnds
  <2>2. state[p] = "ChildrenUnusedSet"
    BY <2>1 DEF LifetimeInv, Position
  <2>3. \A c \in children[p] : {"Canceled", "Unused"} \subseteq statParent[c]
    BY <2>1 DEF LifetimeInv, Told
  <2>4. "ShutdownDone" \notin statDrv[p] =>
          \A c \in Proc : Parent[c] = p => life[c] = "unborn"
    BY <2>2 DEF LifetimeInv, SkippedShutdownStartedNothing
  <2>5. QED
    BY <1>1, <2>1, <2>3, <2>4, TickEnds DEF States, Working
<1>5. ASSUME NEW s \in {"FinishedPrepare", "Finished"},
             pc[p] = "loop", state[p] = s, TickReturns(p),
             state' = [state EXCEPT ![p] = "Finished"],
             UNCHANGED <<life, mode, statParent, statDrv, children, drvVars,
                         walkVars>>
      PROVE  LifetimeInv'
  <2>1. \A c \in children[p] : {"Canceled", "Unused"} \subseteq statParent[c]
    BY <1>5 DEF LifetimeInv, NoStrandedChild
  <2>2. "ShutdownDone" \notin statDrv[p] =>
          \A c \in Proc : Parent[c] = p => life[c] = "unborn"
    BY <1>5 DEF LifetimeInv, SkippedShutdownStartedNothing
  <2>3. /\ "Finished" \in States /\ "Finished" \notin Working
        /\ {} \in SUBSET {"ShutdownDone"} /\ pc[p] \in {"loop", "user", "mark"}
    BY <1>5 DEF States, Working
  <2>4. p = Viewer /\ pc[p] = "user" => walkAt = NoProc
    BY <1>5
  <2>5. statDrv' = [statDrv EXCEPT ![p] = @ \cup {}]
    BY <1>1, <1>5
  <2>6. "Finished" \in Working => state[p] \in Working \cup {"Existent"}
    BY <2>3
  <2>7. "Finished" \in Ending /\ "ShutdownDone" \notin statDrv[p] \cup {} =>
          \A c \in Proc : Parent[c] = p => life[c] = "unborn"
    BY <2>2
  <2>8. QED
    BY <1>5, <2>1, <2>3, <2>4, <2>5, <2>6, <2>7, TickEnds
<1>6. CASE PrepareFinish(p) /\ "WhenFinishedUnused" \notin statParent[p]
  BY <1>5, <1>6 DEF PrepareFinish, AtSwitch
<1>7. CASE FinishedTick(p)
  <2>1. state' = [state EXCEPT ![p] = "Finished"]
    BY <1>7 DEF FinishedTick, objVars, TypeOK, TypeObject
  <2>2. QED
    BY <1>5, <1>7, <2>1 DEF FinishedTick, AtSwitch, objVars
<1>8. QED BY <1>2, <1>3, <1>4, <1>6, <1>7

\* initialize(), process() or shutdown() returns.
LEMMA CodeReturns ==
  ASSUME TypeOK, TypeOK', RequestsInv, LifetimeInv, NEW p \in Proc,
         UserReturns(p)
  PROVE  LifetimeInv'
<1>2. /\ pc[p] = "user" /\ (p = Viewer => walkAt = NoProc) /\ TickReturns(p)
      /\ state[p] \in Working
      /\ UNCHANGED <<life, mode, statParent, children, drvVars, walkVars>>
  BY DEF UserReturns, UserPending, InitializeReturns, ProcessReturns,
     ShutdownReturns, InUserCode, objVars, LifetimeInv, Position
<1>3. ASSUME NEW s \in Working, state' = [state EXCEPT ![p] = s],
             UNCHANGED statDrv
      PROVE  LifetimeInv'
  BY <1>2, <1>3, WorkGoesOn
<1>4. CASE UserPending(p)
  <2>1. state' = [state EXCEPT ![p] = state[p]] /\ UNCHANGED statDrv
    BY <1>4 DEF UserPending, objVars, TypeOK, TypeObject
  <2>2. QED BY <1>2, <1>3, <2>1
<1>5. ASSUME NEW res, InitializeReturns(p, res) \/ ProcessReturns(p, res)
      PROVE  LifetimeInv'
  <2>1. PICK s \in {"Processing", "DownShutting"} :
          state' = [state EXCEPT ![p] = s]
    BY <1>5 DEF InitializeReturns, ProcessReturns
  <2>2. UNCHANGED statDrv
    BY <1>5 DEF InitializeReturns, ProcessReturns
  <2>3. QED BY <1>3, <2>1, <2>2 DEF Working
<1>6. CASE ShutdownReturns(p)
  <2>1. /\ state' = [state EXCEPT ![p] = "ChildrenUnusedSet"]
        /\ statDrv' = [statDrv EXCEPT ![p] = @ \cup {"ShutdownDone"}]
    BY <1>6 DEF ShutdownReturns
  <2>2. QED
    BY <1>2, <2>1, TickEnds DEF States, Working, Ending
<1>7. QED BY <1>4, <1>5, <1>6 DEF UserReturns

\* User code, the loop of ChildrenUnusedSet and the end of a process begin to
\* change the bits of somebody.
LEMMA RequestBegins ==
  ASSUME TypeOK, TypeOK', RequestsInv, LifetimeInv, NEW p \in Proc,
         \/ \E c \in Proc : \/ CancelChild(p, c) \/ RepelChild(p, c)
                            \/ WhenFinishedRepel(p, c) \/ MarkChild(p, c)
         \/ UnuseChild(p)
         \/ PrepareFinish(p) /\ "WhenFinishedUnused" \in statParent[p]
  PROVE  LifetimeInv'
<1>1. ASSUME NEW c \in handle[p],
             NEW o \in {"cancel", "repel", "whenFinished"},
             InUserCode(p), OrBegins(p, c, o),
             \/ UNCHANGED handle /\ o = "cancel"
             \/ handle' = [handle EXCEPT ![p] = @ \ {c}],
             UNCHANGED <<objVars, drvVars, todo, walkVars>>
      PROVE  LifetimeInv'
  <2>1. c \in Proc /\ Parent[c] = p /\ state[p] \in Working /\ pc[p] = "user"
    BY <1>1 DEF InUserCode, RequestsInv, Owned, LifetimeInv, Position,
       TypeOK, TypeActivation
  <2>2. life[c] = "alive"
    BY <1>1, <2>1 DEF LifetimeInv, Handled
  <2>3. /\ \A q \in Proc : handle'[q] \subseteq handle[q]
        /\ o \in {"repel", "unused"} => c \notin handle'[p]
    BY <1>1 DEF TypeOK, TypeActivation
  <2>4. o \in Ops
    BY DEF Ops
  <2>5. QED
    BY <1>1, <2>1, <2>2, <2>3, <2>4, OrIsBegun DEF InUserCode, objVars
<1>2. ASSUME NEW c \in Proc,
             CancelChild(p, c) \/ RepelChild(p, c) \/ WhenFinishedRepel(p, c)
      PROVE  LifetimeInv'
  BY <1>1, <1>2 DEF CancelChild, RepelChild, WhenFinishedRepel
<1>3. ASSUME NEW c \in Proc, MarkChild(p, c) PROVE LifetimeInv'
  <2>1. /\ pc[p] = "mark" /\ c \in todo[p] /\ OrBegins(p, c, "unused")
        /\ todo' = [todo EXCEPT ![p] = @ \ {c}]
        /\ UNCHANGED <<objVars, drvVars, handle, walkVars>>
    BY <1>3 DEF MarkChild
  <2>2. state[p] = "ChildrenUnusedSet" /\ Parent[c] = p /\ life[c] = "alive"
    BY <2>1 DEF LifetimeInv, Position, NotTouched, RequestsInv, Owned
  <2>3. \A d \in children[p] \ (todo'[p] \cup {c}) :
          {"Canceled", "Unused"} \subseteq statParent[d]
    BY <2>1 DEF LifetimeInv, Told, TypeOK, TypeActivation
  <2>4. /\ \A q \in Proc \ {p} : todo'[q] = todo[q]
        /\ todo'[p] \subseteq todo[p]
    BY <2>1 DEF TypeOK, TypeActivation
  <2>5. QED
    BY <2>1, <2>2, <2>3, <2>4, OrIsBegun DEF Ops, Working, objVars
<1>4. ASSUME UnuseChild(p) PROVE LifetimeInv'
  <2>1. /\ pc[p] = "unuse" /\ OrBegins(p, cur[p], "unused")
        /\ UNCHANGED <<objVars, drvVars, todo, handle, walkVars>>
    BY <1>4 DEF UnuseChild
  <2>2. cur[p] \in Proc /\ state[p] \in Working
    BY <2>1 DEF LifetimeInv, Position, TypeOK, TypeActivation, TypeCurrent
  <2>3. /\ Parent[cur[p]] = p /\ life[cur[p]] = "alive"
        /\ cur[p] \notin handle[p]
    BY <2>1, <2>2 DEF LifetimeInv, NotTouched, Handled, RequestsInv,
       Owned
  <2>4. QED
    BY <2>1, <2>2, <2>3, OrIsBegun DEF Ops, objVars
<1>5. ASSUME PrepareFinish(p), "WhenFinishedUnused" \in statParent[p]
      PROVE  LifetimeInv'
  <2>1. /\ pc[p] = "loop" /\ state[p] = "FinishedPrepare"
        /\ OrBegins(p, p, "unused")
        /\ UNCHANGED <<life, mode, statParent, statDrv, state, children,
                       drvVars, todo, handle, walkVars>>
    BY <1>5 DEF PrepareFinish, AtSwitch
  <2>2. life[p] = "alive"
    BY <2>1 DEF LifetimeInv, NotTouched
  <2>3. QED
    BY <2>1, <2>2, OrIsBegun DEF Ops, Working
<1>6. QED BY <1>2, <1>3, <1>4, <1>5

\* The steps of treeTick().
LEMMA TickKeepsLifetimes ==
  ASSUME TypeOK, TypeOK', RequestsInv, LifetimeInv, NEW p \in Proc, Tick(p)
  PROVE  LifetimeInv'
<1>1. ASSUME NEW c \in Proc,
             \/ DriveChild(p, c) \/ PassChild(p, c) \/ ChildReturned(p, c)
             \/ DestroyChild(p, c) \/ MarkChild(p, c)
      PROVE  LifetimeInv'
  BY <1>1, ChildDriven, ChildPassed, ChildTicked, ChildDestroyed, RequestBegins
<1>2. ASSUME \/ EraseChild(p) \/ CallUserCode(p) \/ MarkBegins(p)
             \/ StoreStat(p)
      PROVE  LifetimeInv'
  BY <1>2, ChildErased, CodeCalled, MarkingBegins, OrIsDone
<1>3. ASSUME \/ LeaveExistent(p) \/ CancelWork(p) \/ MarkEnds(p)
             \/ FinishedTick(p) \/ PrepareFinish(p) \/ UnuseChild(p)
      PROVE  LifetimeInv'
  BY <1>3, MachineStep, RequestBegins
<1>4. todo[p] \subseteq Proc
  BY DEF TypeOK, TypeActivation
<1>5. QED BY <1>1, <1>2, <1>3, <1>4 DEF Tick

\* The invariant of the lifetimes, for every tree of processes, every way to
\* drive them and every interleaving of their drivers.
THEOREM LifetimesInvariant == Spec => []LifetimeInv
<1>1. ASSUME TypeOK, TypeOK', RequestsInv, LifetimeInv, [Next]_vars
      PROVE  LifetimeInv'
  <2>1. ASSUME NEW p \in Proc, Drive(p) PROVE LifetimeInv'
    BY <1>1, <2>1, TickBegins, DriverEnds DEF Drive
  <2>2. ASSUME NEW p \in Proc, Tick(p) PROVE LifetimeInv'
    BY <1>1, <2>2, TickKeepsLifetimes
  <2>3. ASSUME NEW p \in Proc, UserReturns(p) PROVE LifetimeInv'
    BY <1>1, <2>3, CodeReturns
  <2>4. ASSUME NEW p \in Proc, UserCalls(p) PROVE LifetimeInv'
    <3>1. ASSUME NEW c \in Proc, NEW d \in StartModes[c],
                 NEW m \in DriverObtained(d),
                 StartChild(p, c, m) \/ RestartChild(p, c, m)
          PROVE  LifetimeInv'
      <4>1. m \in {"parent", "internal", "external"}
        BY DEF DriverObtained
      <4>2. QED BY <1>1, <3>1, <4>1, ChildStarted, ChildRestarted
    <3>2. QED
      BY <1>1, <2>4, <3>1, ChildAdded, RequestBegins DEF UserCalls
  <2>5. ASSUME Walk PROVE LifetimeInv'
    BY <1>1, <2>5, WalkStarts, WalkGoesDown, WalkGoesUp DEF Walk
  <2>6. ASSUME MainDestroysRoot \/ CloseStores PROVE LifetimeInv'
    BY <1>1, <2>6, RootDestroyed, Closed
  <2>7. ASSUME CloseRequest \/ UNCHANGED vars PROVE LifetimeInv'
    BY <1>1, <2>7 DEF CloseRequest, vars, objVars, drvVars, frame, walkVars, LifetimeInv,
       Young, Position, Driven, UndrivenIsAtRest, Removed, Listed,
       NotTouched, Handled, OnPath, Told, NoStrandedChild,
       SkippedShutdownStartedNothing
  <2>8. QED
    BY <1>1, <2>1, <2>2, <2>3, <2>4, <2>5, <2>6, <2>7
    DEF Next, Step, Terminated
<1>2. QED
  BY <1>1, LifetimeInit, TypeCorrect, RequestsInvariant, PTL DEF Spec

\* The application is deleted by main() alone, after its last tick.
RootEnds == life[Root] = "alive" \/ drv[Root] = "exited"

\* A child is started, driven and deleted by its parent: the application is
\* nobody's child.
LEMMA RootStep ==
  ASSUME TypeOK, RequestsInv, LifetimeInv, RootEnds, [Next]_vars
  PROVE  RootEnds'
<1>. USE DEF RootEnds, TypeOK, TypeObject, TypeActivation
<1>1. ASSUME NEW p \in Proc, Drive(p) PROVE RootEnds'
  BY <1>1 DEF Drive, DriverTick, DriverLeaves, DriverExits, objVars
<1>2. ASSUME NEW p \in Proc, NEW c \in Proc, DestroyChild(p, c)
      PROVE  RootEnds'
  <2>1. c # Root
    BY <1>2 DEF DestroyChild, LifetimeInv, Position
  <2>2. QED BY <1>2, <2>1 DEF DestroyChild, drvVars
<1>3. ASSUME NEW p \in Proc, NEW c \in Proc, NEW m,
             StartChild(p, c, m) \/ RestartChild(p, c, m)
      PROVE  RootEnds'
  <2>1. c # Root
    BY <1>3 DEF StartChild, RestartChild, RequestsInv, Owned
  <2>2. QED BY <1>3, <2>1 DEF StartChild, RestartChild
<1>4. ASSUME UNCHANGED <<life, drv>> PROVE RootEnds'
  BY <1>4
<1>5. ASSUME NEW p \in Proc, Tick(p) PROVE RootEnds'
  BY <1>2, <1>4, <1>5 DEF Tick, DriveChild, PassChild, ChildReturned,
     MarkChild, EraseChild, LeaveExistent, CancelWork, CallUserCode,
     MarkBegins, MarkEnds, PrepareFinish, FinishedTick, StoreStat, UnuseChild,
     objVars, drvVars
<1>6. ASSUME NEW p \in Proc, UserReturns(p) \/ UserCalls(p) PROVE RootEnds'
  BY <1>3, <1>4, <1>6 DEF UserReturns, UserPending, InitializeReturns,
     ProcessReturns, ShutdownReturns, UserCalls, AddChild, CancelChild,
     RepelChild, WhenFinishedRepel, objVars, drvVars
<1>7. CASE MainDestroysRoot
  BY <1>7 DEF MainDestroysRoot
<1>8. CASE Walk \/ CloseRequest \/ CloseStores \/ UNCHANGED vars
  BY <1>4, <1>8 DEF Walk, WalkBegins, WalkDown, WalkUp, CloseRequest,
     CloseStores, vars, objVars, drvVars
<1>9. QED
  BY <1>1, <1>5, <1>6, <1>7, <1>8 DEF Next, Step, Terminated

\* No process is touched after destroy(): not by its driver, its parent, the
\* user code that had a handle, nor the walk (Processing.cpp:115, 356, 510).
\* The one exemption is stated in the property and is the application, in the
\* hand of the signal handler when main() has done its last tick
\* (main.cpp:72, 142).
THEOREM NothingUsedAfterDelete == Spec => []NoUseAfterDelete
<1>1. Init => RootEnds
  BY DEF Init, RootEnds
<1>2. LifetimeInv /\ RootEnds => NoUseAfterDelete
  BY DEF LifetimeInv, RootEnds, NoUseAfterDelete, HandlerTarget
<1>3. QED
  BY <1>1, <1>2, RootStep, TypeCorrect, RequestsInvariant,
     LifetimesInvariant, PTL DEF Spec

\* A process without driver is finished and empty (Processing.cpp:518).
THEOREM UndrivenStaysAtRest == Spec => []UndrivenIsAtRest
<1>1. LifetimeInv => UndrivenIsAtRest
  BY DEF LifetimeInv
<1>2. QED BY <1>1, LifetimesInvariant, PTL

\* A process finishes only when all its children were told to stop
\* (Processing.cpp:279-299).
THEOREM NobodyStranded == Spec => []NoStrandedChild
<1>1. LifetimeInv => NoStrandedChild
  BY DEF LifetimeInv
<1>2. QED BY <1>1, LifetimesInvariant, PTL

\* Whoever skipped shutdown() had created nobody (Processing.cpp:200-205).
THEOREM SkippedIsHarmless == Spec => []SkippedShutdownStartedNothing
<1>1. LifetimeInv => SkippedShutdownStartedNothing
  BY DEF LifetimeInv
<1>2. QED BY <1>1, LifetimesInvariant, PTL

\* A process in treeTick() has one driver: its thread or its parent
\* (Processing.cpp:1118, 1135).
THEOREM DrivenByOne == Spec => []OneDriver
<1>1. ASSUME TypeOK, LifetimeInv PROVE OneDriver
  <2>1. ASSUME NEW p \in Proc, drv[p] = "run", NEW q \in Proc,
               pc[q] = "child", cur[q] = p
        PROVE  FALSE
    <3>1. mode[p] = "parent"
      BY <1>1, <2>1 DEF LifetimeInv, Driven
    <3>2. drv[p] = "none"
      BY <1>1, <3>1 DEF LifetimeInv, Driven
    <3>3. QED BY <2>1, <3>2
  <2>2. ASSUME NEW p \in Proc, pc[p] # "idle", drv[p] # "run"
        PROVE  \E q \in Proc : pc[q] = "child" /\ cur[q] = p
    BY <1>1, <2>2 DEF LifetimeInv, Driven
  <2>3. ASSUME NEW p \in Proc, pc[p] # "idle"
        PROVE  drv[p] # "run" <=> \E q \in Proc : pc[q] = "child" /\ cur[q] = p
    BY <2>1, <2>2, <2>3
  <2>4. QED BY <2>3, Zenon DEF OneDriver
<1>2. QED BY <1>1, LifetimesInvariant, TypeCorrect, PTL

-----------------------------------------------------------------------------
(***************************************************************************)
(* The process tree implements scoped lifetimes: with all its threads,     *)
(* flags and loops it does nothing to lifetimes that ScopedLifetimes does  *)
(* not allow.                                                              *)
(***************************************************************************)

\* The stage of one process.
LEMMA Stage ==
  ASSUME NEW p \in Proc
  PROVE  stageBar[p] = IF life[p] # "alive" THEN life[p]
                       ELSE IF state[p] \in Ending THEN "finished"
                       ELSE "working"
BY DEF stageBar, Ending

\* Most steps neither create, nor finish, nor delete.
LEMMA StageKept ==
  ASSUME UNCHANGED life,
         \A p \in Proc : state'[p] \in Ending <=> state[p] \in Ending
  PROVE  UNCHANGED stageBar
BY DEF stageBar, Ending

\* A process enters ChildrenUnusedSet, or FinishedPrepare at once: Finish.
LEMMA StateStep ==
  ASSUME TypeOK, LifetimeInv, NEW p \in Proc, NEW s \in States,
         life[p] = "alive",
         UNCHANGED life, state' = [state EXCEPT ![p] = s],
         state[p] \in Ending => s \in Ending
  PROVE  Lifetimes!Next \/ UNCHANGED stageBar
<1>1. \A q \in Proc : q # p => state'[q] = state[q]
  BY DEF TypeOK, TypeObject
<1>2. state'[p] = s
  BY DEF TypeOK, TypeObject
<1>3. CASE state[p] \in Ending <=> s \in Ending
  BY <1>1, <1>2, <1>3, StageKept
<1>4. CASE state[p] \notin Ending /\ s \in Ending
  <2>1. stageBar[p] = "working"
    BY <1>4, Stage
  <2>2. stageBar' = [stageBar EXCEPT ![p] = "finished"]
    BY <1>1, <1>2, <1>4 DEF stageBar, Ending
  <2>3. QED BY <2>1, <2>2 DEF Lifetimes!Next, Lifetimes!Finish
<1>5. QED BY <1>3, <1>4

\* start() of a child: Create.
LEMMA StartIsCreate ==
  ASSUME TypeOK, LifetimeInv, NEW p \in Proc, NEW c \in Proc, NEW m,
         StartChild(p, c, m)
  PROVE  Lifetimes!Next
<1>1. /\ pc[p] = "user" /\ Parent[c] = p /\ life[c] = "unborn"
      /\ life' = [life EXCEPT ![c] = "alive"] /\ UNCHANGED state
  BY DEF StartChild, InUserCode
<1>2. life[p] = "alive" /\ state[p] \in Working /\ state[c] = "Existent"
  BY <1>1 DEF LifetimeInv, NotTouched, Position, Young
<1>3. stageBar[c] = "unborn" /\ stageBar[p] = "working"
  BY <1>1, <1>2, Stage DEF Working, Ending
<1>4. stageBar' = [stageBar EXCEPT ![c] = "working"]
  BY <1>1, <1>2 DEF stageBar, TypeOK, TypeObject
<1>5. QED BY <1>1, <1>3, <1>4 DEF Lifetimes!Next, Lifetimes!Create

\* Who is finished and deleted has no child that is alive: Delete.
LEMMA DestroyIsDelete ==
  ASSUME TypeOK, LifetimeInv, NEW c \in Proc,
         life[c] = "alive", state[c] = "Finished", children[c] = {},
         pc[c] = "idle",
         life' = [life EXCEPT ![c] = "deleted"], UNCHANGED state
  PROVE  Lifetimes!Next
<1>1. \A d \in Proc : Parent[d] = c => life[d] # "alive"
  BY DEF LifetimeInv, Listed
<1>2. \A d \in Proc : Parent[d] = c => stageBar[d] \in {"unborn", "deleted"}
  BY <1>1, Stage DEF TypeOK, TypeObject, Lives
<1>3. stageBar[c] = "finished"
  BY Stage DEF Ending
<1>4. stageBar' = [stageBar EXCEPT ![c] = "deleted"]
  BY DEF stageBar, TypeOK, TypeObject
<1>5. QED BY <1>2, <1>3, <1>4 DEF Lifetimes!Next, Lifetimes!Delete

\* treeTick() of p, and the code that it calls.
LEMMA TickRefines ==
  ASSUME TypeOK, LifetimeInv, NEW p \in Proc,
         Tick(p) \/ UserReturns(p)
  PROVE  Lifetimes!Next \/ UNCHANGED stageBar
<1>1. ASSUME NEW c \in Proc, DestroyChild(p, c) PROVE Lifetimes!Next
  <2>1. /\ pc[p] = "destroy" /\ cur[p] = c /\ UNCHANGED state
        /\ life' = [life EXCEPT ![c] = "deleted"]
    BY <1>1 DEF DestroyChild
  <2>2. life[c] = "alive" /\ "Undriven" \in statDrv[c]
    BY <2>1 DEF LifetimeInv, NotTouched, Removed
  <2>3. state[c] = "Finished" /\ children[c] = {} /\ pc[c] = "idle"
    BY <2>2 DEF LifetimeInv, UndrivenIsAtRest
  <2>4. QED BY <2>1, <2>2, <2>3, DestroyIsDelete
<1>2. ASSUME NEW s \in States, UNCHANGED life, pc[p] # "idle",
             state' = [state EXCEPT ![p] = s],
             state[p] \in Ending => s \in Ending
      PROVE  Lifetimes!Next \/ UNCHANGED stageBar
  BY <1>2, StateStep DEF LifetimeInv, NotTouched
<1>3. CASE LeaveExistent(p) \/ CancelWork(p)
  <2>1. PICK s \in {"FinishedPrepare", "Initializing", "DownShutting"} :
          state' = [state EXCEPT ![p] = s]
    BY <1>3 DEF LeaveExistent, CancelWork
  <2>2. UNCHANGED life /\ pc[p] # "idle" /\ state[p] \notin Ending
    BY <1>3 DEF LeaveExistent, CancelWork, AtSwitch, Ending
  <2>3. QED BY <1>2, <2>1, <2>2 DEF States
<1>4. CASE MarkEnds(p)
  BY <1>2, <1>4 DEF MarkEnds, States, Ending
<1>5. CASE PrepareFinish(p)
  <2>1. CASE UNCHANGED state
    BY <1>5, <2>1, StageKept DEF PrepareFinish
  <2>2. CASE state' = [state EXCEPT ![p] = "Finished"]
    BY <1>2, <1>5, <2>2 DEF PrepareFinish, AtSwitch, States, Ending
  <2>3. QED BY <1>5, <2>1, <2>2 DEF PrepareFinish
<1>6. CASE StoreStat(p)
  <2>1. CASE state[p] = "FinishedPrepare"
    BY <1>2, <1>6, <2>1 DEF StoreStat, States, Ending
  <2>2. CASE state[p] # "FinishedPrepare"
    <3>1. UNCHANGED <<life, state>>
      BY <1>6, <2>2 DEF StoreStat, TypeOK, TypeObject
    <3>2. QED BY <3>1, StageKept
  <2>3. QED BY <2>1, <2>2
<1>7. CASE UserReturns(p)
  <2>1. CASE UserPending(p)
    BY <2>1, StageKept DEF UserPending, objVars
  <2>2. UNCHANGED life /\ pc[p] # "idle" /\ state[p] \notin Ending
    BY <1>7 DEF UserReturns, UserPending, InitializeReturns, ProcessReturns,
       ShutdownReturns, InUserCode, objVars, LifetimeInv, Position, Working,
       Ending
  <2>3. CASE ~UserPending(p)
    <3>1. PICK s \in {"Processing", "DownShutting", "ChildrenUnusedSet"} :
            state' = [state EXCEPT ![p] = s]
      BY <1>7, <2>3 DEF UserReturns, InitializeReturns, ProcessReturns,
         ShutdownReturns
    <3>2. QED BY <1>2, <2>2, <3>1 DEF States
  <2>4. QED BY <2>1, <2>3
<1>8. CASE \/ EraseChild(p) \/ CallUserCode(p) \/ MarkBegins(p)
           \/ FinishedTick(p) \/ UnuseChild(p)
           \/ \E c : \/ DriveChild(p, c) \/ PassChild(p, c)
                              \/ ChildReturned(p, c) \/ MarkChild(p, c)
  <2>1. UNCHANGED <<life, state>>
    BY <1>8 DEF EraseChild, CallUserCode, MarkBegins, FinishedTick,
       UnuseChild, DriveChild, PassChild, ChildReturned, MarkChild, objVars
  <2>2. QED BY <2>1, StageKept
<1>9. QED
  BY <1>1, <1>3, <1>4, <1>5, <1>6, <1>7, <1>8 DEF Tick

\* Every step of the tree is a step of ScopedLifetimes or none.
LEMMA StepRefines ==
  ASSUME TypeOK, LifetimeInv, [Next]_vars
  PROVE  [Lifetimes!Next]_stageBar
<1>1. ASSUME NEW p \in Proc, Tick(p) \/ UserReturns(p)
      PROVE  Lifetimes!Next \/ UNCHANGED stageBar
  BY <1>1, TickRefines
<1>2. ASSUME NEW p \in Proc, UserCalls(p)
      PROVE  Lifetimes!Next \/ UNCHANGED stageBar
  <2>1. ASSUME NEW c \in Proc, NEW m, StartChild(p, c, m)
        PROVE  Lifetimes!Next
    BY <2>1, StartIsCreate
  <2>2. CASE \/ AddChild(p)
             \/ \E c \in Proc : \/ CancelChild(p, c) \/ RepelChild(p, c)
                                \/ WhenFinishedRepel(p, c)
                                \/ \E m : RestartChild(p, c, m)
    <3>1. UNCHANGED <<life, state>>
      BY <2>2 DEF AddChild, CancelChild, RepelChild, WhenFinishedRepel,
         RestartChild, objVars
    <3>2. QED BY <3>1, StageKept
  <2>3. QED BY <1>2, <2>1, <2>2 DEF UserCalls
<1>3. CASE MainDestroysRoot
  <2>1. /\ drv[Root] = "run" /\ pc[Root] = "idle" /\ UNCHANGED state
        /\ state[Root] = "Finished" /\ children[Root] = {}
        /\ life' = [life EXCEPT ![Root] = "deleted"]
    BY <1>3 DEF MainDestroysRoot, progress
  <2>2. life[Root] = "alive"
    BY <2>1 DEF LifetimeInv, NotTouched
  <2>3. QED BY <2>1, <2>2, DestroyIsDelete
<1>4. CASE \/ Walk \/ CloseRequest \/ CloseStores \/ UNCHANGED vars
           \/ \E p \in Proc : Drive(p)
  <2>1. UNCHANGED <<life, state>>
    BY <1>4 DEF Walk, WalkBegins, WalkDown, WalkUp, CloseRequest, CloseStores, Drive,
       DriverTick, DriverLeaves, DriverExits, vars, objVars
  <2>2. QED BY <2>1, StageKept
<1>5. QED
  BY <1>1, <1>2, <1>3, <1>4 DEF Next, Step, Terminated

\* README.md, "Process and data lifetimes are tied together": the tree of
\* processes implements scoped lifetimes.
THEOREM TreeImplementsScopedLifetimes == Spec => ImplementsScopedLifetimes
<1>1. Init => Lifetimes!Init
  BY DEF Init, Lifetimes!Init, stageBar
<1>2. TypeOK /\ LifetimeInv /\ [Next]_vars => [Lifetimes!Next]_stageBar
  BY StepRefines
<1>3. QED
  BY <1>1, <1>2, TypeCorrect, LifetimesInvariant, PTL
  DEF Spec, ImplementsScopedLifetimes, Lifetimes!Spec
=============================================================================
