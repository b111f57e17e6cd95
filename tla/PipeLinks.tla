----------------------------- MODULE PipeLinks -----------------------------
(***************************************************************************)
(* How pipes are connected and disconnected (Pipe.h): each pipe lists its  *)
(* parents and its children, each list has a mutex of its own, and every   *)
(* operation has to change a list of two pipes.                            *)
(*                                                                         *)
(* A list that is changed under its own mutex only is changed in one step, *)
(* which waits for the mutex to be free.  The mutexes that an operation    *)
(* holds while it works on another pipe are in `held'.  The data path is   *)
(* the subject of Pipe; of toPushTry() only the visit of the children is   *)
(* left here.                                                              *)
(***************************************************************************)
EXTENDS Naturals, FiniteSets

CONSTANTS
  Pipes,
  Feeds,     \* the pairs <<p, k>> for which connect() may be called
  Threads,
  Wires,     \* the pipes whose links a thread changes
  Pushes,    \* the pipes for which a thread calls toPushTry()
  NoPipe

ASSUME LinksAssumption ==
  /\ Feeds \subseteq Pipes \X Pipes
  /\ \A f \in Feeds : f[1] # f[2]
  /\ Wires \in [Threads -> SUBSET Pipes]
  /\ Pushes \in [Threads -> SUBSET Pipes]
  /\ NoPipe \notin Pipes

VARIABLES
  alive,             \* the pipes not deleted yet
  parents, children, \* mParentList, mChildList
  held,              \* the mutexes a thread holds: <<"parents" or "children", pipe>>
  pc, self, other, todo \* the operation of each thread

lists == <<parents, children>>
frame == <<pc, self, other, todo>>
vars  == <<alive, lists, held, frame>>

Pcs == {"idle", "childAdd", "childRemove", "parentDisconnect",
        "deleteChildren", "deleteParents", "push"}

TypeOK ==
  /\ alive \subseteq Pipes
  /\ parents \in [Pipes -> SUBSET Pipes]
  /\ children \in [Pipes -> SUBSET Pipes]
  /\ held \in [Threads -> SUBSET ({"parents", "children"} \X Pipes)]
  /\ pc \in [Threads -> Pcs]
  /\ self \in [Threads -> Pipes \cup {NoPipe}]
  /\ other \in [Threads -> Pipes \cup {NoPipe}]
  /\ todo \in [Threads -> SUBSET Pipes]
  /\ \A t \in Threads : pc[t] = "idle" => held[t] = {} /\ self[t] = NoPipe

Init ==
  /\ alive = Pipes
  /\ parents = [p \in Pipes |-> {}]
  /\ children = [p \in Pipes |-> {}]
  /\ held = [t \in Threads |-> {}]
  /\ pc = [t \in Threads |-> "idle"]
  /\ self = [t \in Threads |-> NoPipe]
  /\ other = [t \in Threads |-> NoPipe]
  /\ todo = [t \in Threads |-> {}]

-----------------------------------------------------------------------------
Free(m) == \A t \in Threads : m \notin held[t]

\* A pipe may be used by its threads until its destructor is called.
Usable(p) ==
  p \in alive /\ \A t \in Threads :
    pc[t] \in {"deleteChildren", "deleteParents"} => self[t] # p

Idle(t, p) == pc[t] = "idle" /\ Usable(p)

Begin(t, at, p, k) ==
  /\ pc' = [pc EXCEPT ![t] = at]
  /\ self' = [self EXCEPT ![t] = p]
  /\ other' = [other EXCEPT ![t] = k]

Done(t) ==
  /\ pc' = [pc EXCEPT ![t] = "idle"]
  /\ self' = [self EXCEPT ![t] = NoPipe]
  /\ other' = [other EXCEPT ![t] = NoPipe]

\* connect(), first half: parentAdd() of the child.
ConnectBegins(t, p, k) ==
  /\ Idle(t, p) /\ p \in Wires[t] /\ <<p, k>> \in Feeds /\ Usable(k)
  /\ parents[k] = {} /\ Free(<<"parents", k>>)
  /\ parents' = [parents EXCEPT ![k] = {p}]
  /\ Begin(t, "childAdd", p, k)
  /\ UNCHANGED <<alive, children, held, todo>>

\* connect(), second half: childAdd() of the parent.
childAdd(t) ==
  /\ pc[t] = "childAdd" /\ Free(<<"children", self[t]>>)
  /\ children' = [children EXCEPT ![self[t]] = @ \cup {other[t]}]
  /\ Done(t)
  /\ UNCHANGED <<alive, parents, held, todo>>

\* disconnect(), first half: parentRemove() of the child.
DisconnectBegins(t, p, k) ==
  /\ Idle(t, p) /\ p \in Wires[t] /\ k \in children[p] /\ k \in alive
  /\ Free(<<"parents", k>>)
  /\ parents' = [parents EXCEPT ![k] = @ \ {p}]
  /\ Begin(t, "childRemove", p, k)
  /\ UNCHANGED <<alive, children, held, todo>>

\* Mutant: the parent keeps the child.
childRemove_Forgotten(t) ==
  /\ pc[t] = "childRemove" /\ Free(<<"children", self[t]>>)
  /\ Done(t)
  /\ UNCHANGED <<alive, lists, held, todo>>

\* disconnect(), second half: childRemove() of the parent.
childRemove(t) ==
  /\ pc[t] = "childRemove" /\ Free(<<"children", self[t]>>)
  /\ children' = [children EXCEPT ![self[t]] = @ \ {other[t]}]
  /\ Done(t)
  /\ UNCHANGED <<alive, parents, held, todo>>

\* parentDisconnect() and the second half of the destructor hold the mutex
\* of the own parents ...
ParentsLocked(t, at, k) ==
  /\ Free(<<"parents", k>>)
  /\ held' = [held EXCEPT ![t] = @ \cup {<<"parents", k>>}]
  /\ Begin(t, at, k, NoPipe)
  /\ UNCHANGED <<alive, lists, todo>>

parentDisconnect(t, k) ==
  Idle(t, k) /\ k \in Wires[t] /\ ParentsLocked(t, "parentDisconnect", k)

\* ... while they take that of the children of each parent.
LeaveParent(t, p) ==
  /\ pc[t] \in {"parentDisconnect", "deleteParents"}
  /\ p \in parents[self[t]]
  /\ Free(<<"children", p>>)
  /\ children' = [children EXCEPT ![p] = @ \ {self[t]}]
  /\ parents' = [parents EXCEPT ![self[t]] = @ \ {p}]
  /\ UNCHANGED <<alive, held, frame>>

ParentsLeft(t) ==
  /\ pc[t] \in {"parentDisconnect", "deleteParents"}
  /\ <<"parents", self[t]>> \in held[t]
  /\ parents[self[t]] = {}
  /\ held' = [held EXCEPT ![t] = {}]
  /\ alive' = IF pc[t] = "deleteParents" THEN alive \ {self[t]} ELSE alive
  /\ Done(t)
  /\ UNCHANGED <<lists, todo>>

\* ~Pipe(), first half: the children are left under the mutex of the own
\* children, with the mutex of the parents of each of them.
DeleteBegins(t, p) ==
  /\ Idle(t, p) /\ p \in Wires[t] /\ Free(<<"children", p>>)
  /\ \A u \in Threads \ {t} : self[u] # p /\ other[u] # p
  /\ held' = [held EXCEPT ![t] = {<<"children", p>>}]
  /\ Begin(t, "deleteChildren", p, NoPipe)
  /\ UNCHANGED <<alive, lists, todo>>

LeaveChild(t, k) ==
  /\ pc[t] = "deleteChildren" /\ k \in children[self[t]]
  /\ Free(<<"parents", k>>)
  /\ parents' = [parents EXCEPT ![k] = @ \ {self[t]}]
  /\ children' = [children EXCEPT ![self[t]] = @ \ {k}]
  /\ UNCHANGED <<alive, held, frame>>

\* Mutant: the destructor leaves the children only.
ChildrenLeft_ParentsKept(t) ==
  /\ pc[t] = "deleteChildren" /\ children[self[t]] = {}
  /\ held' = [held EXCEPT ![t] = {}]
  /\ alive' = alive \ {self[t]}
  /\ Done(t)
  /\ UNCHANGED <<lists, todo>>

ChildrenLeft(t) ==
  /\ pc[t] = "deleteChildren" /\ children[self[t]] = {}
  /\ IF <<"children", self[t]>> \in held[t]
     THEN held' = [held EXCEPT ![t] = {}] /\ UNCHANGED <<alive, lists, frame>>
     ELSE ParentsLocked(t, "deleteParents", self[t])

\* toPushTry() visits each child, under the mutex.
PushBegins(t, p) ==
  /\ Idle(t, p) /\ p \in Pushes[t] /\ Free(<<"children", p>>)
  /\ held' = [held EXCEPT ![t] = {<<"children", p>>}]
  /\ todo' = [todo EXCEPT ![t] = children[p]]
  /\ Begin(t, "push", p, NoPipe)
  /\ UNCHANGED <<alive, lists>>

VisitChild(t, k) ==
  /\ pc[t] = "push" /\ k \in todo[t]
  /\ todo' = [todo EXCEPT ![t] = @ \ {k}]
  /\ UNCHANGED <<alive, lists, held, pc, self, other>>

\* Mutant: the mutex is not released.
PushEnds_StillLocked(t) ==
  /\ pc[t] = "push" /\ todo[t] = {}
  /\ Done(t)
  /\ UNCHANGED <<alive, lists, held, todo>>

PushEnds(t) ==
  /\ pc[t] = "push" /\ todo[t] = {}
  /\ held' = [held EXCEPT ![t] = {}]
  /\ Done(t)
  /\ UNCHANGED <<alive, lists, todo>>

-----------------------------------------------------------------------------
\* An operation goes on.
Continue(t) ==
  \/ childAdd(t) \/ childRemove(t)
  \/ ParentsLeft(t) \/ ChildrenLeft(t) \/ PushEnds(t)
  \/ \E k \in Pipes : LeaveParent(t, k) \/ LeaveChild(t, k) \/ VisitChild(t, k)

BeginSome(t) ==
  \E p \in Pipes :
    \/ parentDisconnect(t, p) \/ DeleteBegins(t, p) \/ PushBegins(t, p)
    \/ \E k \in Pipes : ConnectBegins(t, p, k) \/ DisconnectBegins(t, p, k)

Next == \E t \in Threads : BeginSome(t) \/ Continue(t)

Spec == Init /\ [][Next]_vars

\* Threads are scheduled, and one that waits for a mutex gets it.
Fairness == \A t \in Threads : SF_vars(Continue(t))

FairSpec == Spec /\ Fairness

-----------------------------------------------------------------------------
(***************************************************************************)
(* Properties.                                                             *)
(***************************************************************************)

\* Some operation is on its way that changes the link of these two pipes.
InProgress(p, k) ==
  \E t \in Threads : pc[t] \notin {"idle", "push"} /\ {self[t], other[t]} \cap {p, k} # {}

\* "Thread safe" (Pipe.h:49): after connect(), disconnect(), parentDisconnect()
\* and the destructor a pipe lists a child exactly if the child lists it as
\* parent.  It holds while one thread wires, whatever the others push.  With
\* two it does not: connect() links the two ends one after the other, and the
\* child may disconnect in between (Pipe.h:300, 307).
LinksAgree ==
  \A p, k \in alive :
    ~InProgress(p, k) => (k \in children[p] <=> p \in parents[k])

\* No list names a deleted pipe, so toPushTry() visits none (Pipe.h:395-441)
\* and neither do the destructors of the others (Pipe.h:452-480).
NoDanglingLink ==
  /\ \A p \in alive : children[p] \cup parents[p] \subseteq alive
  /\ \A t \in Threads : todo[t] \subseteq alive

\* "Thread safe" (Pipe.h:49): no operation waits forever for a mutex.
EveryOperationEnds == \A t \in Threads : pc[t] # "idle" ~> pc[t] = "idle"
=============================================================================
