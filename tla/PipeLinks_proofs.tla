--------------------------- MODULE PipeLinks_proofs ---------------------------
(***************************************************************************)
(* Theorems about PipeLinks.  For any threads: types, and no mutex has two *)
(* owners.  When one thread does all the wiring, and any number of threads *)
(* push: both ends of every link agree, and no list names a deleted pipe.  *)
(* With two wiring threads a parentDisconnect() may come between the two   *)
(* halves of a connect().                                                  *)
(***************************************************************************)
EXTENDS PipeLinks, TLAPS

USE LinksAssumption
USE DEF lists, frame

\* The links are changed by one thread.
OneWirer == \A t, u \in Threads : Wires[t] # {} /\ Wires[u] # {} => t = u

\* What an operation works on, and which of them hold nothing.
FrameOK ==
  \A t \in Threads :
    /\ pc[t] # "idle" => self[t] \in Pipes
    /\ pc[t] \in {"childAdd", "childRemove"} => other[t] \in Pipes /\ held[t] = {}

\* Mutual exclusion.
Exclusive == \A t, u \in Threads : t # u => held[t] \cap held[u] = {}

\* The wiring thread is in the middle of an operation: what it has done so far.
WireOK ==
  \A t \in Threads :
    /\ pc[t] \notin {"idle", "push"} => self[t] \in Wires[t] \cap alive
    /\ pc[t] = "childAdd" =>
         other[t] \in alive /\ self[t] \in parents[other[t]]
    /\ pc[t] = "childRemove" =>
         other[t] \in alive /\ self[t] \notin parents[other[t]]
    /\ pc[t] = "deleteChildren" =>
         <<"children", self[t]>> \in held[t] \/ children[self[t]] = {}
    /\ pc[t] = "deleteParents" => children[self[t]] = {}

\* Who pushes holds the mutex of the list it walks along.
PushOK ==
  \A t \in Threads :
    /\ pc[t] # "push" => todo[t] = {}
    /\ pc[t] = "push" => /\ <<"children", self[t]>> \in held[t]
                         /\ todo[t] \subseteq children[self[t]]

\* Both ends of a link agree, but for the one that is made or removed.
Agree ==
  \A p, k \in Pipes :
    \/ k \in children[p] <=> p \in parents[k]
    \/ \E t \in Threads : pc[t] \in {"childAdd", "childRemove"}
                            /\ self[t] = p /\ other[t] = k

NamesAlive == \A p \in Pipes : children[p] \cup parents[p] \subseteq alive

SafeInv == TypeOK /\ FrameOK /\ Exclusive

LinkInv == SafeInv /\ WireOK /\ PushOK /\ Agree /\ NamesAlive

-----------------------------------------------------------------------------
(***************************************************************************)
(* Types and mutexes.                                                      *)
(***************************************************************************)
LEMMA SafeInit == Init => SafeInv
BY DEF Init, SafeInv, TypeOK, FrameOK, Exclusive, Pcs

\* The operation of t goes to `at', with the pipes p and k.
Goes(t, at, p, k) ==
  /\ pc' \in [Threads -> Pcs]
  /\ self' \in [Threads -> Pipes \cup {NoPipe}]
  /\ other' \in [Threads -> Pipes \cup {NoPipe}]
  /\ pc'[t] = at /\ self'[t] = p /\ other'[t] = k
  /\ \A u \in Threads \ {t} : /\ pc'[u] = pc[u] /\ self'[u] = self[u]
                              /\ other'[u] = other[u]

LEMMA BeginEffect ==
  ASSUME TypeOK, NEW t \in Threads, NEW at \in Pcs, NEW p \in Pipes,
         NEW k \in Pipes \cup {NoPipe}, Begin(t, at, p, k)
  PROVE  Goes(t, at, p, k)
BY DEF Begin, Goes, TypeOK

LEMMA DoneEffect ==
  ASSUME TypeOK, NEW t \in Threads, Done(t)
  PROVE  Goes(t, "idle", NoPipe, NoPipe)
BY DEF Done, Goes, TypeOK, Pcs

\* It stays where it is.
LEMMA FrameSame ==
  ASSUME TypeOK, NEW t \in Threads, UNCHANGED <<pc, self, other>>
  PROVE  Goes(t, pc[t], self[t], other[t])
BY DEF Goes, TypeOK

\* The thread t takes nothing or a free mutex, or gives all it has back.
Locks(t) ==
  /\ held' \in [Threads -> SUBSET ({"parents", "children"} \X Pipes)]
  /\ \A u \in Threads \ {t} : held'[u] = held[u]
  /\ \A m \in held'[t] : m \in held[t] \/ Free(m)

LEMMA LockEffect ==
  ASSUME TypeOK, NEW t \in Threads, NEW l \in {"parents", "children"},
         NEW p \in Pipes, Free(<<l, p>>),
         \/ held' = [held EXCEPT ![t] = @ \cup {<<l, p>>}]
         \/ held' = [held EXCEPT ![t] = {<<l, p>>}]
  PROVE  Locks(t) /\ <<l, p>> \in held'[t]
BY DEF TypeOK, Locks

LEMMA UnlockEffect ==
  ASSUME TypeOK, NEW t \in Threads, held' = [held EXCEPT ![t] = {}]
  PROVE  Locks(t) /\ held'[t] = {}
BY DEF TypeOK, Locks

LEMMA HeldSame ==
  ASSUME TypeOK, NEW t \in Threads, UNCHANGED held
  PROVE  Locks(t)
BY DEF TypeOK, Locks

LEMMA LocksKeepExclusive ==
  ASSUME TypeOK, Exclusive, NEW t \in Threads, Locks(t)
  PROVE  Exclusive'
BY DEF Exclusive, Locks, Free

\* A link is cut at both ends.
Cut(p, k) ==
  /\ children' \in [Pipes -> SUBSET Pipes]
  /\ parents' \in [Pipes -> SUBSET Pipes]
  /\ children'[p] = children[p] \ {k} /\ parents'[k] = parents[k] \ {p}
  /\ \A q \in Pipes \ {p} : children'[q] = children[q]
  /\ \A q \in Pipes \ {k} : parents'[q] = parents[q]

LEMMA CutEffect ==
  ASSUME TypeOK, NEW p \in Pipes, NEW k \in Pipes,
         children' = [children EXCEPT ![p] = @ \ {k}],
         parents' = [parents EXCEPT ![k] = @ \ {p}]
  PROVE  Cut(p, k)
BY DEF Cut, TypeOK

-----------------------------------------------------------------------------
(***************************************************************************)
(* What the steps do, pipe by pipe and thread by thread.                   *)
(***************************************************************************)

LEMMA ConnectBeginsEffect ==
  ASSUME SafeInv, NEW t \in Threads, NEW p \in Pipes, NEW k \in Pipes, ConnectBegins(t, p, k)
  PROVE  /\ pc[t] = "idle" /\ p \in Wires[t] /\ p \in alive /\ k \in alive /\ p # k
         /\ Goes(t, "childAdd", p, k) /\ Locks(t) /\ held'[t] = {}
         /\ UNCHANGED <<alive, children, todo>>
         /\ parents[k] = {} /\ parents'[k] = {p}
         /\ \A q \in Pipes \ {k} : parents'[q] = parents[q]
         /\ parents' \in [Pipes -> SUBSET Pipes]
<1>1. TypeOK
  BY DEF SafeInv
<1>2. QED
  BY <1>1, BeginEffect, HeldSame
  DEF SafeInv, ConnectBegins, Idle, Usable, TypeOK, Pcs

LEMMA childAddEffect ==
  ASSUME SafeInv, NEW t \in Threads, childAdd(t)
  PROVE  /\ pc[t] = "childAdd" /\ self[t] \in Pipes /\ other[t] \in Pipes
         /\ Free(<<"children", self[t]>>)
         /\ Goes(t, "idle", NoPipe, NoPipe) /\ Locks(t) /\ held'[t] = {}
         /\ UNCHANGED <<alive, parents, todo>>
         /\ children'[self[t]] = children[self[t]] \cup {other[t]}
         /\ \A q \in Pipes \ {self[t]} : children'[q] = children[q]
         /\ children' \in [Pipes -> SUBSET Pipes]
<1>1. TypeOK
  BY DEF SafeInv
<1>2. QED
  BY <1>1, DoneEffect, HeldSame
  DEF SafeInv, childAdd, FrameOK, TypeOK

LEMMA DisconnectBeginsEffect ==
  ASSUME SafeInv, NEW t \in Threads, NEW p \in Pipes, NEW k \in Pipes, DisconnectBegins(t, p, k)
  PROVE  /\ pc[t] = "idle" /\ p \in Wires[t] /\ p \in alive /\ k \in alive
         /\ k \in children[p]
         /\ Goes(t, "childRemove", p, k) /\ Locks(t) /\ held'[t] = {}
         /\ UNCHANGED <<alive, children, todo>>
         /\ parents'[k] = parents[k] \ {p}
         /\ \A q \in Pipes \ {k} : parents'[q] = parents[q]
         /\ parents' \in [Pipes -> SUBSET Pipes]
<1>1. TypeOK
  BY DEF SafeInv
<1>2. QED
  BY <1>1, BeginEffect, HeldSame
  DEF SafeInv, DisconnectBegins, Idle, Usable, TypeOK, Pcs

LEMMA childRemoveEffect ==
  ASSUME SafeInv, NEW t \in Threads, childRemove(t)
  PROVE  /\ pc[t] = "childRemove" /\ self[t] \in Pipes /\ other[t] \in Pipes
         /\ Free(<<"children", self[t]>>)
         /\ Goes(t, "idle", NoPipe, NoPipe) /\ Locks(t) /\ held'[t] = {}
         /\ UNCHANGED <<alive, parents, todo>>
         /\ children'[self[t]] = children[self[t]] \ {other[t]}
         /\ \A q \in Pipes \ {self[t]} : children'[q] = children[q]
         /\ children' \in [Pipes -> SUBSET Pipes]
<1>1. TypeOK
  BY DEF SafeInv
<1>2. QED
  BY <1>1, DoneEffect, HeldSame
  DEF SafeInv, childRemove, FrameOK, TypeOK

LEMMA parentDisconnectEffect ==
  ASSUME SafeInv, NEW t \in Threads, NEW k \in Pipes, parentDisconnect(t, k)
  PROVE  /\ pc[t] = "idle" /\ k \in Wires[t] /\ k \in alive
         /\ Goes(t, "parentDisconnect", k, NoPipe) /\ Locks(t)
         /\ UNCHANGED <<alive, parents, children, todo>>
<1>1. TypeOK
  BY DEF SafeInv
<1>2. QED
  BY <1>1, BeginEffect, LockEffect
  DEF SafeInv, parentDisconnect, ParentsLocked, Idle, Usable, Pcs

LEMMA LeaveParentEffect ==
  ASSUME SafeInv, NEW t \in Threads, NEW p \in Pipes, LeaveParent(t, p)
  PROVE  /\ pc[t] \in {"parentDisconnect", "deleteParents"} /\ self[t] \in Pipes
         /\ p \in parents[self[t]] /\ Free(<<"children", p>>)
         /\ Goes(t, pc[t], self[t], other[t]) /\ Locks(t) /\ UNCHANGED held
         /\ UNCHANGED <<alive, todo>> /\ Cut(p, self[t])
<1>1. TypeOK
  BY DEF SafeInv
<1>2. QED
  BY <1>1, FrameSame, HeldSame, CutEffect
  DEF SafeInv, LeaveParent, FrameOK, TypeOK

LEMMA ParentsLeftEffect ==
  ASSUME SafeInv, NEW t \in Threads, ParentsLeft(t)
  PROVE  /\ pc[t] \in {"parentDisconnect", "deleteParents"} /\ self[t] \in Pipes
         /\ parents[self[t]] = {}
         /\ alive' = IF pc[t] = "deleteParents" THEN alive \ {self[t]} ELSE alive
         /\ Goes(t, "idle", NoPipe, NoPipe) /\ Locks(t) /\ held'[t] = {}
         /\ UNCHANGED <<parents, children, todo>>
<1>1. TypeOK
  BY DEF SafeInv
<1>2. QED
  BY <1>1, DoneEffect, UnlockEffect
  DEF SafeInv, ParentsLeft, FrameOK, TypeOK

LEMMA DeleteBeginsEffect ==
  ASSUME SafeInv, NEW t \in Threads, NEW p \in Pipes, DeleteBegins(t, p)
  PROVE  /\ pc[t] = "idle" /\ p \in Wires[t] /\ p \in alive
         /\ Goes(t, "deleteChildren", p, NoPipe) /\ Locks(t)
         /\ <<"children", p>> \in held'[t]
         /\ UNCHANGED <<alive, parents, children, todo>>
<1>1. TypeOK
  BY DEF SafeInv
<1>2. QED
  BY <1>1, BeginEffect, LockEffect
  DEF SafeInv, DeleteBegins, Idle, Usable, Pcs

LEMMA LeaveChildEffect ==
  ASSUME SafeInv, NEW t \in Threads, NEW k \in Pipes, LeaveChild(t, k)
  PROVE  /\ pc[t] = "deleteChildren" /\ self[t] \in Pipes
         /\ k \in children[self[t]]
         /\ Goes(t, pc[t], self[t], other[t]) /\ Locks(t) /\ UNCHANGED held
         /\ UNCHANGED <<alive, todo>> /\ Cut(self[t], k)
<1>1. TypeOK
  BY DEF SafeInv
<1>2. QED
  BY <1>1, FrameSame, HeldSame, CutEffect
  DEF SafeInv, LeaveChild, FrameOK, TypeOK

LEMMA ChildrenLeftEffect ==
  ASSUME SafeInv, NEW t \in Threads, ChildrenLeft(t)
  PROVE  /\ pc[t] = "deleteChildren" /\ self[t] \in Pipes
         /\ children[self[t]] = {} /\ Locks(t)
         /\ \/ Goes(t, pc[t], self[t], other[t])
            \/ Goes(t, "deleteParents", self[t], NoPipe)
         /\ UNCHANGED <<alive, parents, children, todo>>
<1>1. /\ TypeOK /\ pc[t] = "deleteChildren" /\ self[t] \in Pipes
      /\ children[self[t]] = {}
  BY DEF SafeInv, FrameOK, ChildrenLeft
<1>2. CASE <<"children", self[t]>> \in held[t]
  BY <1>1, <1>2, UnlockEffect, FrameSame DEF ChildrenLeft
<1>3. CASE <<"children", self[t]>> \notin held[t]
  BY <1>1, <1>3, LockEffect, BeginEffect DEF ChildrenLeft, ParentsLocked, Pcs
<1>4. QED BY <1>2, <1>3

LEMMA PushBeginsEffect ==
  ASSUME SafeInv, NEW t \in Threads, NEW p \in Pipes, PushBegins(t, p)
  PROVE  /\ pc[t] = "idle" /\ p \in Pushes[t] /\ Goes(t, "push", p, NoPipe) /\ Locks(t)
         /\ <<"children", p>> \in held'[t]
         /\ todo' \in [Threads -> SUBSET Pipes] /\ todo'[t] = children[p]
         /\ \A u \in Threads \ {t} : todo'[u] = todo[u]
         /\ UNCHANGED <<alive, parents, children>>
<1>1. TypeOK
  BY DEF SafeInv
<1>2. QED
  BY <1>1, BeginEffect, LockEffect
  DEF SafeInv, PushBegins, Idle, TypeOK, Pcs

LEMMA VisitChildEffect ==
  ASSUME SafeInv, NEW t \in Threads, NEW k \in Pipes, VisitChild(t, k)
  PROVE  /\ pc[t] = "push" /\ Goes(t, pc[t], self[t], other[t]) /\ Locks(t)
         /\ UNCHANGED held
         /\ todo' \in [Threads -> SUBSET Pipes] /\ todo'[t] \subseteq todo[t]
         /\ \A u \in Threads \ {t} : todo'[u] = todo[u]
         /\ UNCHANGED <<alive, parents, children>>
<1>1. TypeOK
  BY DEF SafeInv
<1>2. QED
  BY <1>1, FrameSame, HeldSame
  DEF SafeInv, VisitChild, TypeOK

LEMMA PushEndsEffect ==
  ASSUME SafeInv, NEW t \in Threads, PushEnds(t)
  PROVE  /\ pc[t] = "push" /\ todo[t] = {}
         /\ Goes(t, "idle", NoPipe, NoPipe) /\ Locks(t) /\ held'[t] = {}
         /\ UNCHANGED <<alive, parents, children, todo>>
<1>1. TypeOK
  BY DEF SafeInv
<1>2. QED
  BY <1>1, DoneEffect, UnlockEffect
  DEF SafeInv, PushEnds

-----------------------------------------------------------------------------
(***************************************************************************)
(* The invariants.                                                         *)
(***************************************************************************)
LEMMA SafeStep ==
  ASSUME SafeInv, [Next]_vars
  PROVE  SafeInv'
<1>1. ASSUME NEW t \in Threads, NEW p \in Pipes, NEW k \in Pipes, ConnectBegins(t, p, k)
      PROVE  SafeInv'
  <2>1. Exclusive'
    BY <1>1, ConnectBeginsEffect, LocksKeepExclusive DEF SafeInv
  <2>2. Goes(t, "childAdd", p, k) /\ Locks(t) /\ held'[t] = {}
    BY <1>1, ConnectBeginsEffect
  <2>3. \A u \in Threads : pc'[u] = "idle" => held'[u] = {} /\ self'[u] = NoPipe
    BY <2>2 DEF SafeInv, TypeOK, FrameOK, Goes, Locks
  <2>4. TypeOK'
    <3>1. /\ alive' \subseteq Pipes /\ todo' \in [Threads -> SUBSET Pipes]
          /\ children' \in [Pipes -> SUBSET Pipes]
          /\ parents' \in [Pipes -> SUBSET Pipes]
      BY <1>1, ConnectBeginsEffect DEF SafeInv, TypeOK, Cut
    <3>2. QED BY <2>2, <2>3, <3>1 DEF TypeOK, Goes, Locks
  <2>5. FrameOK'
    BY <2>2 DEF SafeInv, TypeOK, FrameOK, Goes, Locks
  <2>6. QED BY <2>1, <2>4, <2>5 DEF SafeInv
<1>2. ASSUME NEW t \in Threads, childAdd(t) PROVE SafeInv'
  <2>1. Exclusive'
    BY <1>2, childAddEffect, LocksKeepExclusive DEF SafeInv
  <2>2. Goes(t, "idle", NoPipe, NoPipe) /\ Locks(t) /\ held'[t] = {}
    BY <1>2, childAddEffect
  <2>3. \A u \in Threads : pc'[u] = "idle" => held'[u] = {} /\ self'[u] = NoPipe
    BY <2>2 DEF SafeInv, TypeOK, FrameOK, Goes, Locks
  <2>4. TypeOK'
    <3>1. /\ alive' \subseteq Pipes /\ todo' \in [Threads -> SUBSET Pipes]
          /\ children' \in [Pipes -> SUBSET Pipes]
          /\ parents' \in [Pipes -> SUBSET Pipes]
      BY <1>2, childAddEffect DEF SafeInv, TypeOK, Cut
    <3>2. QED BY <2>2, <2>3, <3>1 DEF TypeOK, Goes, Locks
  <2>5. FrameOK'
    BY <2>2 DEF SafeInv, TypeOK, FrameOK, Goes, Locks
  <2>6. QED BY <2>1, <2>4, <2>5 DEF SafeInv
<1>3. ASSUME NEW t \in Threads, NEW p \in Pipes, NEW k \in Pipes, DisconnectBegins(t, p, k)
      PROVE  SafeInv'
  <2>1. Exclusive'
    BY <1>3, DisconnectBeginsEffect, LocksKeepExclusive DEF SafeInv
  <2>2. Goes(t, "childRemove", p, k) /\ Locks(t) /\ held'[t] = {}
    BY <1>3, DisconnectBeginsEffect
  <2>3. \A u \in Threads : pc'[u] = "idle" => held'[u] = {} /\ self'[u] = NoPipe
    BY <2>2 DEF SafeInv, TypeOK, FrameOK, Goes, Locks
  <2>4. TypeOK'
    <3>1. /\ alive' \subseteq Pipes /\ todo' \in [Threads -> SUBSET Pipes]
          /\ children' \in [Pipes -> SUBSET Pipes]
          /\ parents' \in [Pipes -> SUBSET Pipes]
      BY <1>3, DisconnectBeginsEffect DEF SafeInv, TypeOK, Cut
    <3>2. QED BY <2>2, <2>3, <3>1 DEF TypeOK, Goes, Locks
  <2>5. FrameOK'
    BY <2>2 DEF SafeInv, TypeOK, FrameOK, Goes, Locks
  <2>6. QED BY <2>1, <2>4, <2>5 DEF SafeInv
<1>4. ASSUME NEW t \in Threads, childRemove(t) PROVE SafeInv'
  <2>1. Exclusive'
    BY <1>4, childRemoveEffect, LocksKeepExclusive DEF SafeInv
  <2>2. Goes(t, "idle", NoPipe, NoPipe) /\ Locks(t) /\ held'[t] = {}
    BY <1>4, childRemoveEffect
  <2>3. \A u \in Threads : pc'[u] = "idle" => held'[u] = {} /\ self'[u] = NoPipe
    BY <2>2 DEF SafeInv, TypeOK, FrameOK, Goes, Locks
  <2>4. TypeOK'
    <3>1. /\ alive' \subseteq Pipes /\ todo' \in [Threads -> SUBSET Pipes]
          /\ children' \in [Pipes -> SUBSET Pipes]
          /\ parents' \in [Pipes -> SUBSET Pipes]
      BY <1>4, childRemoveEffect DEF SafeInv, TypeOK, Cut
    <3>2. QED BY <2>2, <2>3, <3>1 DEF TypeOK, Goes, Locks
  <2>5. FrameOK'
    BY <2>2 DEF SafeInv, TypeOK, FrameOK, Goes, Locks
  <2>6. QED BY <2>1, <2>4, <2>5 DEF SafeInv
<1>5. ASSUME NEW t \in Threads, NEW k \in Pipes, parentDisconnect(t, k)
      PROVE  SafeInv'
  <2>1. Exclusive'
    BY <1>5, parentDisconnectEffect, LocksKeepExclusive DEF SafeInv
  <2>2. Goes(t, "parentDisconnect", k, NoPipe) /\ Locks(t)
    BY <1>5, parentDisconnectEffect
  <2>3. \A u \in Threads : pc'[u] = "idle" => held'[u] = {} /\ self'[u] = NoPipe
    BY <2>2 DEF SafeInv, TypeOK, FrameOK, Goes, Locks
  <2>4. TypeOK'
    <3>1. /\ alive' \subseteq Pipes /\ todo' \in [Threads -> SUBSET Pipes]
          /\ children' \in [Pipes -> SUBSET Pipes]
          /\ parents' \in [Pipes -> SUBSET Pipes]
      BY <1>5, parentDisconnectEffect DEF SafeInv, TypeOK, Cut
    <3>2. QED BY <2>2, <2>3, <3>1 DEF TypeOK, Goes, Locks
  <2>5. FrameOK'
    BY <2>2 DEF SafeInv, TypeOK, FrameOK, Goes, Locks
  <2>6. QED BY <2>1, <2>4, <2>5 DEF SafeInv
<1>6. ASSUME NEW t \in Threads, NEW p \in Pipes, LeaveParent(t, p)
      PROVE  SafeInv'
  <2>1. Exclusive'
    BY <1>6, LeaveParentEffect, LocksKeepExclusive DEF SafeInv
  <2>2. /\ Goes(t, pc[t], self[t], other[t]) /\ UNCHANGED held
        /\ Locks(t) /\ pc[t] \in {"parentDisconnect", "deleteParents"}
    BY <1>6, LeaveParentEffect
  <2>3. \A u \in Threads : pc'[u] = "idle" => held'[u] = {} /\ self'[u] = NoPipe
    BY <2>2 DEF SafeInv, TypeOK, FrameOK, Goes, Locks
  <2>4. TypeOK'
    <3>1. /\ alive' \subseteq Pipes /\ todo' \in [Threads -> SUBSET Pipes]
          /\ children' \in [Pipes -> SUBSET Pipes]
          /\ parents' \in [Pipes -> SUBSET Pipes]
      BY <1>6, LeaveParentEffect DEF SafeInv, TypeOK, Cut
    <3>2. QED BY <2>2, <2>3, <3>1 DEF TypeOK, Goes, Locks
  <2>5. FrameOK'
    BY <2>2 DEF SafeInv, TypeOK, FrameOK, Goes, Locks
  <2>6. QED BY <2>1, <2>4, <2>5 DEF SafeInv
<1>7. ASSUME NEW t \in Threads, ParentsLeft(t) PROVE SafeInv'
  <2>1. Exclusive'
    BY <1>7, ParentsLeftEffect, LocksKeepExclusive DEF SafeInv
  <2>2. Goes(t, "idle", NoPipe, NoPipe) /\ Locks(t) /\ held'[t] = {}
    BY <1>7, ParentsLeftEffect
  <2>3. \A u \in Threads : pc'[u] = "idle" => held'[u] = {} /\ self'[u] = NoPipe
    BY <2>2 DEF SafeInv, TypeOK, FrameOK, Goes, Locks
  <2>4. TypeOK'
    <3>1. /\ alive' \subseteq Pipes /\ todo' \in [Threads -> SUBSET Pipes]
          /\ children' \in [Pipes -> SUBSET Pipes]
          /\ parents' \in [Pipes -> SUBSET Pipes]
      BY <1>7, ParentsLeftEffect DEF SafeInv, TypeOK, Cut
    <3>2. QED BY <2>2, <2>3, <3>1 DEF TypeOK, Goes, Locks
  <2>5. FrameOK'
    BY <2>2 DEF SafeInv, TypeOK, FrameOK, Goes, Locks
  <2>6. QED BY <2>1, <2>4, <2>5 DEF SafeInv
<1>8. ASSUME NEW t \in Threads, NEW p \in Pipes, DeleteBegins(t, p)
      PROVE  SafeInv'
  <2>1. Exclusive'
    BY <1>8, DeleteBeginsEffect, LocksKeepExclusive DEF SafeInv
  <2>2. Goes(t, "deleteChildren", p, NoPipe) /\ Locks(t)
    BY <1>8, DeleteBeginsEffect
  <2>3. \A u \in Threads : pc'[u] = "idle" => held'[u] = {} /\ self'[u] = NoPipe
    BY <2>2 DEF SafeInv, TypeOK, FrameOK, Goes, Locks
  <2>4. TypeOK'
    <3>1. /\ alive' \subseteq Pipes /\ todo' \in [Threads -> SUBSET Pipes]
          /\ children' \in [Pipes -> SUBSET Pipes]
          /\ parents' \in [Pipes -> SUBSET Pipes]
      BY <1>8, DeleteBeginsEffect DEF SafeInv, TypeOK, Cut
    <3>2. QED BY <2>2, <2>3, <3>1 DEF TypeOK, Goes, Locks
  <2>5. FrameOK'
    BY <2>2 DEF SafeInv, TypeOK, FrameOK, Goes, Locks
  <2>6. QED BY <2>1, <2>4, <2>5 DEF SafeInv
<1>9. ASSUME NEW t \in Threads, NEW k \in Pipes, LeaveChild(t, k)
      PROVE  SafeInv'
  <2>1. Exclusive'
    BY <1>9, LeaveChildEffect, LocksKeepExclusive DEF SafeInv
  <2>2. /\ Goes(t, pc[t], self[t], other[t]) /\ UNCHANGED held
        /\ Locks(t) /\ pc[t] = "deleteChildren"
    BY <1>9, LeaveChildEffect
  <2>3. \A u \in Threads : pc'[u] = "idle" => held'[u] = {} /\ self'[u] = NoPipe
    BY <2>2 DEF SafeInv, TypeOK, FrameOK, Goes, Locks
  <2>4. TypeOK'
    <3>1. /\ alive' \subseteq Pipes /\ todo' \in [Threads -> SUBSET Pipes]
          /\ children' \in [Pipes -> SUBSET Pipes]
          /\ parents' \in [Pipes -> SUBSET Pipes]
      BY <1>9, LeaveChildEffect DEF SafeInv, TypeOK, Cut
    <3>2. QED BY <2>2, <2>3, <3>1 DEF TypeOK, Goes, Locks
  <2>5. FrameOK'
    BY <2>2 DEF SafeInv, TypeOK, FrameOK, Goes, Locks
  <2>6. QED BY <2>1, <2>4, <2>5 DEF SafeInv
<1>10. ASSUME NEW t \in Threads, ChildrenLeft(t) PROVE SafeInv'
  <2>1. Exclusive'
    BY <1>10, ChildrenLeftEffect, LocksKeepExclusive DEF SafeInv
  <2>2. /\ Locks(t) /\ pc[t] = "deleteChildren" /\ self[t] \in Pipes
        /\ \/ Goes(t, pc[t], self[t], other[t])
           \/ Goes(t, "deleteParents", self[t], NoPipe)
    BY <1>10, ChildrenLeftEffect
  <2>3. \A u \in Threads : pc'[u] = "idle" => held'[u] = {} /\ self'[u] = NoPipe
    BY <2>2 DEF SafeInv, TypeOK, FrameOK, Goes, Locks
  <2>4. TypeOK'
    <3>1. /\ alive' \subseteq Pipes /\ todo' \in [Threads -> SUBSET Pipes]
          /\ children' \in [Pipes -> SUBSET Pipes]
          /\ parents' \in [Pipes -> SUBSET Pipes]
      BY <1>10, ChildrenLeftEffect DEF SafeInv, TypeOK, Cut
    <3>2. QED BY <2>2, <2>3, <3>1 DEF TypeOK, Goes, Locks
  <2>5. FrameOK'
    BY <2>2 DEF SafeInv, TypeOK, FrameOK, Goes, Locks
  <2>6. QED BY <2>1, <2>4, <2>5 DEF SafeInv
<1>11. ASSUME NEW t \in Threads, NEW p \in Pipes, PushBegins(t, p)
      PROVE  SafeInv'
  <2>1. Exclusive'
    BY <1>11, PushBeginsEffect, LocksKeepExclusive DEF SafeInv
  <2>2. Goes(t, "push", p, NoPipe) /\ Locks(t)
    BY <1>11, PushBeginsEffect
  <2>3. \A u \in Threads : pc'[u] = "idle" => held'[u] = {} /\ self'[u] = NoPipe
    BY <2>2 DEF SafeInv, TypeOK, FrameOK, Goes, Locks
  <2>4. TypeOK'
    <3>1. /\ alive' \subseteq Pipes /\ todo' \in [Threads -> SUBSET Pipes]
          /\ children' \in [Pipes -> SUBSET Pipes]
          /\ parents' \in [Pipes -> SUBSET Pipes]
      BY <1>11, PushBeginsEffect DEF SafeInv, TypeOK, Cut
    <3>2. QED BY <2>2, <2>3, <3>1 DEF TypeOK, Goes, Locks
  <2>5. FrameOK'
    BY <2>2 DEF SafeInv, TypeOK, FrameOK, Goes, Locks
  <2>6. QED BY <2>1, <2>4, <2>5 DEF SafeInv
<1>12. ASSUME NEW t \in Threads, NEW k \in Pipes, VisitChild(t, k)
      PROVE  SafeInv'
  <2>1. Exclusive'
    BY <1>12, VisitChildEffect, LocksKeepExclusive DEF SafeInv
  <2>2. /\ Goes(t, pc[t], self[t], other[t]) /\ UNCHANGED held
        /\ Locks(t) /\ pc[t] = "push"
    BY <1>12, VisitChildEffect
  <2>3. \A u \in Threads : pc'[u] = "idle" => held'[u] = {} /\ self'[u] = NoPipe
    BY <2>2 DEF SafeInv, TypeOK, FrameOK, Goes, Locks
  <2>4. TypeOK'
    <3>1. /\ alive' \subseteq Pipes /\ todo' \in [Threads -> SUBSET Pipes]
          /\ children' \in [Pipes -> SUBSET Pipes]
          /\ parents' \in [Pipes -> SUBSET Pipes]
      BY <1>12, VisitChildEffect DEF SafeInv, TypeOK, Cut
    <3>2. QED BY <2>2, <2>3, <3>1 DEF TypeOK, Goes, Locks
  <2>5. FrameOK'
    BY <2>2 DEF SafeInv, TypeOK, FrameOK, Goes, Locks
  <2>6. QED BY <2>1, <2>4, <2>5 DEF SafeInv
<1>13. ASSUME NEW t \in Threads, PushEnds(t) PROVE SafeInv'
  <2>1. Exclusive'
    BY <1>13, PushEndsEffect, LocksKeepExclusive DEF SafeInv
  <2>2. Goes(t, "idle", NoPipe, NoPipe) /\ Locks(t) /\ held'[t] = {}
    BY <1>13, PushEndsEffect
  <2>3. \A u \in Threads : pc'[u] = "idle" => held'[u] = {} /\ self'[u] = NoPipe
    BY <2>2 DEF SafeInv, TypeOK, FrameOK, Goes, Locks
  <2>4. TypeOK'
    <3>1. /\ alive' \subseteq Pipes /\ todo' \in [Threads -> SUBSET Pipes]
          /\ children' \in [Pipes -> SUBSET Pipes]
          /\ parents' \in [Pipes -> SUBSET Pipes]
      BY <1>13, PushEndsEffect DEF SafeInv, TypeOK, Cut
    <3>2. QED BY <2>2, <2>3, <3>1 DEF TypeOK, Goes, Locks
  <2>5. FrameOK'
    BY <2>2 DEF SafeInv, TypeOK, FrameOK, Goes, Locks
  <2>6. QED BY <2>1, <2>4, <2>5 DEF SafeInv
<1>14. CASE UNCHANGED vars
  BY <1>14 DEF vars, SafeInv, TypeOK, FrameOK, Exclusive
<1>15. QED
  BY <1>1, <1>2, <1>3, <1>4, <1>5, <1>6, <1>7, <1>8,
     <1>9, <1>10, <1>11, <1>12, <1>13, <1>14
  DEF Next, BeginSome, Continue

-----------------------------------------------------------------------------
(***************************************************************************)
(* One thread does the wiring.                                             *)
(***************************************************************************)
LEMMA LinkInit == Init => LinkInv
<1>1. SUFFICES ASSUME Init PROVE LinkInv
  OBVIOUS
<1>2. SafeInv
  BY <1>1, SafeInit
<1>3. WireOK /\ PushOK /\ Agree /\ NamesAlive
  BY <1>1 DEF Init, WireOK, PushOK, Agree, NamesAlive
<1>4. QED BY <1>2, <1>3 DEF LinkInv

\* Nobody else is in the middle of a change of the links.
LEMMA OthersPush ==
  ASSUME OneWirer, LinkInv, NEW t \in Threads, Wires[t] # {}
  PROVE  \A u \in Threads \ {t} : pc[u] \in {"idle", "push"}
<1>1. \A u \in Threads \ {t} : Wires[u] = {}
  BY DEF OneWirer
<1>2. QED BY <1>1 DEF LinkInv, WireOK

\* Who pushes does not notice a change of the links.
LEMMA PushKept ==
  ASSUME LinkInv, NEW t \in Threads, NEW at, NEW p, NEW k,
         pc[t] # "push", at # "push", Goes(t, at, p, k), Locks(t), UNCHANGED todo,
         \A q \in Pipes : \/ children'[q] = children[q]
                          \/ Free(<<"children", q>>)
                          \/ <<"children", q>> \in held[t]
  PROVE  PushOK'
<1>1. ASSUME NEW u \in Threads
      PROVE  /\ pc'[u] # "push" => todo'[u] = {}
             /\ pc'[u] = "push" => /\ <<"children", self'[u]>> \in held'[u]
                                   /\ todo'[u] \subseteq children'[self'[u]]
  <2>1. CASE u = t
    BY <2>1 DEF LinkInv, PushOK, Goes
  <2>2. CASE u # t /\ pc[u] # "push"
    BY <2>2 DEF LinkInv, PushOK, Goes
  <2>3. CASE u # t /\ pc[u] = "push"
    <3>1. /\ pc'[u] = pc[u] /\ self'[u] = self[u] /\ held'[u] = held[u]
      BY <2>3 DEF Goes, Locks
    <3>2. /\ <<"children", self[u]>> \in held[u] /\ self[u] \in Pipes
          /\ todo[u] \subseteq children[self[u]]
      BY <2>3 DEF LinkInv, PushOK, SafeInv, FrameOK
    <3>3. children'[self[u]] = children[self[u]]
      BY <2>3, <3>2 DEF Free, LinkInv, SafeInv, Exclusive
    <3>4. QED BY <2>3, <3>1, <3>2, <3>3
  <2>4. QED BY <2>1, <2>2, <2>3
<1>2. QED BY <1>1 DEF PushOK

\* The link of p and k is cut while no other is being changed.
LEMMA CutKeeps ==
  ASSUME LinkInv, NEW t \in Threads, NEW p \in Pipes, NEW k \in Pipes, Cut(p, k),
         Goes(t, pc[t], self[t], other[t]), UNCHANGED alive,
         pc[t] \notin {"childAdd", "childRemove"},
         \A u \in Threads \ {t} : pc[u] \in {"idle", "push"}
  PROVE  Agree' /\ NamesAlive'
<1>1. \A q, c \in Pipes : c \in children[q] <=> q \in parents[c]
  <2>1. \A u \in Threads : pc[u] \notin {"childAdd", "childRemove"}
    OBVIOUS
  <2>2. QED BY <2>1 DEF LinkInv, Agree
<1>2. ASSUME NEW q \in Pipes, NEW c \in Pipes
      PROVE  c \in children'[q] <=> q \in parents'[c]
  <2>1. c \in children'[q] <=> c \in children[q] /\ ~(q = p /\ c = k)
    BY DEF Cut
  <2>2. q \in parents'[c] <=> q \in parents[c] /\ ~(q = p /\ c = k)
    BY DEF Cut
  <2>3. QED BY <1>1, <2>1, <2>2
<1>3. Agree'
  BY <1>2 DEF Agree
<1>4. NamesAlive'
  BY DEF LinkInv, NamesAlive, Cut
<1>5. QED BY <1>3, <1>4

\* What a step of a thread that pushes, begins to or ends it has to respect: it
\* touches no list, and walks along one whose mutex it holds.
LEMMA WhilePushing ==
  ASSUME LinkInv, NEW t \in Threads, NEW at \in {"idle", "push"}, NEW p, NEW k,
         UNCHANGED <<alive, parents, children>>, Locks(t), Goes(t, at, p, k),
         pc[t] \in {"idle", "push"},
         at = "push" => <<"children", p>> \in held'[t] /\ todo'[t] \subseteq children[p],
         at = "idle" => todo'[t] = {},
         \A u \in Threads \ {t} : todo'[u] = todo[u]
  PROVE  WireOK' /\ PushOK' /\ Agree' /\ NamesAlive'
<1>1. pc'[t] = at /\ self'[t] = p
  BY DEF Goes
<1>2. \A u \in Threads \ {t} :
        /\ pc'[u] = pc[u] /\ self'[u] = self[u] /\ other'[u] = other[u]
        /\ held'[u] = held[u] /\ todo'[u] = todo[u]
  BY DEF Goes, Locks
<1>3. /\ WireOK /\ PushOK /\ Agree /\ NamesAlive
      /\ alive' = alive /\ parents' = parents /\ children' = children
  BY DEF LinkInv
<1>4. WireOK'
  <2>1. SUFFICES ASSUME NEW u \in Threads
        PROVE  /\ pc'[u] \notin {"idle", "push"} =>
                    self'[u] \in Wires[u] \cap alive'
               /\ pc'[u] = "childAdd" =>
                    /\ other'[u] \in alive'
                    /\ self'[u] \in parents'[other'[u]]
               /\ pc'[u] = "childRemove" =>
                    /\ other'[u] \in alive'
                    /\ self'[u] \notin parents'[other'[u]]
               /\ pc'[u] = "deleteChildren" =>
                    \/ <<"children", self'[u]>> \in held'[u]
                    \/ children'[self'[u]] = {}
               /\ pc'[u] = "deleteParents" => children'[self'[u]] = {}
    BY DEF WireOK
  <2>2. CASE u = t BY <1>1, <2>2
  <2>3. CASE u # t
    <3>1. /\ pc[u] \notin {"idle", "push"} => self[u] \in Wires[u] \cap alive
          /\ pc[u] = "childAdd" =>
               other[u] \in alive /\ self[u] \in parents[other[u]]
          /\ pc[u] = "childRemove" =>
               other[u] \in alive /\ self[u] \notin parents[other[u]]
          /\ pc[u] = "deleteChildren" =>
               <<"children", self[u]>> \in held[u] \/ children[self[u]] = {}
          /\ pc[u] = "deleteParents" => children[self[u]] = {}
      BY <1>3 DEF WireOK
    <3>2. /\ pc'[u] = pc[u] /\ self'[u] = self[u] /\ other'[u] = other[u]
          /\ held'[u] = held[u]
      BY <1>2, <2>3
    <3>3. QED BY <1>3, <3>1, <3>2
  <2>4. QED BY <2>2, <2>3
<1>5. PushOK'
  <2>1. SUFFICES ASSUME NEW u \in Threads
        PROVE  /\ pc'[u] # "push" => todo'[u] = {}
               /\ pc'[u] = "push" => /\ <<"children", self'[u]>> \in held'[u]
                                     /\ todo'[u] \subseteq children'[self'[u]]
    BY DEF PushOK
  <2>2. CASE u = t BY <1>1, <1>3, <2>2
  <2>3. CASE u # t
    <3>1. /\ pc[u] # "push" => todo[u] = {}
          /\ pc[u] = "push" => /\ <<"children", self[u]>> \in held[u]
                               /\ todo[u] \subseteq children[self[u]]
      BY <1>3 DEF PushOK
    <3>2. QED BY <1>2, <1>3, <2>3, <3>1
  <2>4. QED BY <2>2, <2>3
<1>6. Agree'
  <2>1. SUFFICES ASSUME NEW q \in Pipes, NEW c \in Pipes,
                        ~(c \in children[q] <=> q \in parents[c])
                 PROVE  \E u \in Threads : /\ pc'[u] \in {"childAdd", "childRemove"}
                                           /\ self'[u] = q /\ other'[u] = c
    BY <1>3 DEF Agree
  <2>2. PICK u \in Threads : /\ pc[u] \in {"childAdd", "childRemove"}
                             /\ self[u] = q /\ other[u] = c
    BY <1>3, <2>1 DEF Agree
  <2>3. u # t
    BY <2>2
  <2>4. QED BY <1>2, <2>2, <2>3
<1>7. NamesAlive'
  BY <1>3 DEF NamesAlive
<1>8. QED BY <1>4, <1>5, <1>6, <1>7

\* The steps of the wiring thread, and of those who push.
LEMMA LinkStep ==
  ASSUME OneWirer, LinkInv, [Next]_vars
  PROVE  LinkInv'
<1>0. SafeInv'
  BY SafeStep DEF LinkInv
<1>1. ASSUME NEW t \in Threads, NEW p \in Pipes, NEW k \in Pipes, ConnectBegins(t, p, k)
      PROVE  LinkInv'
  <2>1. SafeInv'
    BY <1>0
  <2>2. \A u \in Threads \ {t} : pc[u] \in {"idle", "push"}
    BY <1>1, ConnectBeginsEffect, OthersPush DEF LinkInv
  <2>3. /\ Goes(t, "childAdd", p, k) /\ Locks(t) /\ pc[t] = "idle"
        /\ UNCHANGED <<alive, children, todo>> /\ parents'[k] = {p} /\ parents[k] = {}
        /\ p \in Wires[t] /\ p \in alive /\ k \in alive
        /\ \A q \in Pipes \ {k} : parents'[q] = parents[q]
    BY <1>1, ConnectBeginsEffect DEF LinkInv
  <2>4. WireOK'
    BY <2>2, <2>3 DEF WireOK, Goes
  <2>5. PushOK'
    BY <2>3, PushKept
  <2>6. Agree'
    <3>1. \A q, c \in Pipes : c \in children[q] <=> q \in parents[c]
      BY <2>2, <2>3 DEF LinkInv, Agree
    <3>2. /\ pc'[t] = "childAdd" /\ self'[t] = p /\ other'[t] = k
      BY <2>3 DEF Goes
    <3>3. QED BY <2>3, <3>1, <3>2 DEF Agree
  <2>7. NamesAlive'
    BY <2>3 DEF LinkInv, NamesAlive
  <2>8. QED BY <2>1, <2>4, <2>5, <2>6, <2>7 DEF LinkInv
<1>2. ASSUME NEW t \in Threads, childAdd(t) PROVE LinkInv'
  <2>1. SafeInv'
    BY <1>0
  <2>2. Wires[t] # {} /\ self[t] \in alive /\ other[t] \in alive
        /\ self[t] \in parents[other[t]]
    BY <1>2, childAddEffect DEF LinkInv, WireOK
  <2>3. \A u \in Threads \ {t} : pc[u] \in {"idle", "push"}
    BY <2>2, OthersPush
  <2>4. /\ Goes(t, "idle", NoPipe, NoPipe) /\ Locks(t) /\ pc[t] = "childAdd"
        /\ UNCHANGED <<alive, parents, todo>> /\ Free(<<"children", self[t]>>)
        /\ children'[self[t]] = children[self[t]] \cup {other[t]}
        /\ \A q \in Pipes \ {self[t]} : children'[q] = children[q]
        /\ self[t] \in Pipes /\ other[t] \in Pipes
    BY <1>2, childAddEffect DEF LinkInv
  <2>5. WireOK'
    BY <2>3, <2>4 DEF WireOK, Goes
  <2>6. PushOK'
    BY <2>4, PushKept
  <2>7. Agree'
    <3>1. ASSUME NEW q \in Pipes, NEW c \in Pipes
          PROVE  c \in children'[q] <=> q \in parents'[c]
      <4>1. CASE q = self[t] /\ c = other[t]
        BY <2>2, <2>4, <4>1
      <4>2. CASE ~(q = self[t] /\ c = other[t])
        <5>1. c \in children[q] <=> q \in parents[c]
          BY <2>3, <4>2 DEF LinkInv, Agree
        <5>2. QED BY <2>4, <4>2, <5>1
      <4>3. QED BY <4>1, <4>2
    <3>2. QED BY <3>1 DEF Agree
  <2>8. NamesAlive'
    BY <2>2, <2>4 DEF LinkInv, NamesAlive
  <2>9. QED BY <2>1, <2>5, <2>6, <2>7, <2>8 DEF LinkInv
<1>3. ASSUME NEW t \in Threads, NEW p \in Pipes, NEW k \in Pipes, DisconnectBegins(t, p, k)
      PROVE  LinkInv'
  <2>1. SafeInv'
    BY <1>0
  <2>2. \A u \in Threads \ {t} : pc[u] \in {"idle", "push"}
    BY <1>3, DisconnectBeginsEffect, OthersPush DEF LinkInv
  <2>3. /\ Goes(t, "childRemove", p, k) /\ Locks(t) /\ pc[t] = "idle"
        /\ UNCHANGED <<alive, children, todo>> /\ parents'[k] = parents[k] \ {p}
        /\ p \in Wires[t] /\ p \in alive /\ k \in alive
        /\ \A q \in Pipes \ {k} : parents'[q] = parents[q]
    BY <1>3, DisconnectBeginsEffect DEF LinkInv
  <2>4. WireOK'
    BY <2>2, <2>3 DEF WireOK, Goes
  <2>5. PushOK'
    BY <2>3, PushKept
  <2>6. Agree'
    <3>1. \A q, c \in Pipes : c \in children[q] <=> q \in parents[c]
      BY <2>2, <2>3 DEF LinkInv, Agree
    <3>2. /\ pc'[t] = "childRemove" /\ self'[t] = p /\ other'[t] = k
      BY <2>3 DEF Goes
    <3>3. \A q, c \in Pipes : (q \in parents'[c] <=> q \in parents[c]) \/ (q = p /\ c = k)
      BY <2>3
    <3>4. QED BY <2>3, <3>1, <3>2, <3>3 DEF Agree
  <2>7. NamesAlive'
    BY <2>3 DEF LinkInv, NamesAlive
  <2>8. QED BY <2>1, <2>4, <2>5, <2>6, <2>7 DEF LinkInv
<1>4. ASSUME NEW t \in Threads, childRemove(t) PROVE LinkInv'
  <2>1. SafeInv'
    BY <1>0
  <2>2. Wires[t] # {} /\ self[t] \in alive /\ other[t] \in alive
        /\ self[t] \notin parents[other[t]]
    BY <1>4, childRemoveEffect DEF LinkInv, WireOK
  <2>3. \A u \in Threads \ {t} : pc[u] \in {"idle", "push"}
    BY <2>2, OthersPush
  <2>4. /\ Goes(t, "idle", NoPipe, NoPipe) /\ Locks(t) /\ pc[t] = "childRemove"
        /\ UNCHANGED <<alive, parents, todo>> /\ Free(<<"children", self[t]>>)
        /\ children'[self[t]] = children[self[t]] \ {other[t]}
        /\ \A q \in Pipes \ {self[t]} : children'[q] = children[q]
        /\ self[t] \in Pipes /\ other[t] \in Pipes
    BY <1>4, childRemoveEffect DEF LinkInv
  <2>5. WireOK'
    BY <2>3, <2>4 DEF WireOK, Goes
  <2>6. PushOK'
    BY <2>4, PushKept
  <2>7. Agree'
    <3>1. ASSUME NEW q \in Pipes, NEW c \in Pipes
          PROVE  c \in children'[q] <=> q \in parents'[c]
      <4>1. CASE q = self[t] /\ c = other[t]
        BY <2>2, <2>4, <4>1
      <4>2. CASE ~(q = self[t] /\ c = other[t])
        <5>1. c \in children[q] <=> q \in parents[c]
          BY <2>3, <4>2 DEF LinkInv, Agree
        <5>2. QED BY <2>4, <4>2, <5>1
      <4>3. QED BY <4>1, <4>2
    <3>2. QED BY <3>1 DEF Agree
  <2>8. NamesAlive'
    BY <2>2, <2>4 DEF LinkInv, NamesAlive
  <2>9. QED BY <2>1, <2>5, <2>6, <2>7, <2>8 DEF LinkInv
<1>5. ASSUME NEW t \in Threads, NEW k \in Pipes, parentDisconnect(t, k)
      PROVE  LinkInv'
  <2>1. SafeInv'
    BY <1>0
  <2>2. /\ UNCHANGED <<alive, parents, children, todo>> /\ Locks(t)
        /\ pc[t] = "idle" /\ k \in Wires[t] /\ k \in alive
        /\ Goes(t, "parentDisconnect", k, NoPipe)
    BY <1>5, parentDisconnectEffect DEF LinkInv, WireOK
  <2>3. \A u \in Threads \ {t} : pc[u] \in {"idle", "push"}
    BY <2>2, OthersPush
  <2>4. WireOK'
    BY <2>2, <2>3 DEF LinkInv, WireOK, Goes
  <2>5. PushOK'
    BY <2>2, PushKept
  <2>6. Agree' /\ NamesAlive'
    BY <2>2, <2>3 DEF LinkInv, Agree, NamesAlive, Goes
  <2>7. QED BY <2>1, <2>4, <2>5, <2>6 DEF LinkInv
<1>6. ASSUME NEW t \in Threads, NEW p \in Pipes, LeaveParent(t, p)
      PROVE  LinkInv'
  <2>1. SafeInv'
    BY <1>0
  <2>2. /\ UNCHANGED <<alive, todo, held>> /\ Locks(t) /\ Cut(p, self[t])
        /\ Goes(t, pc[t], self[t], other[t])
        /\ self[t] \in Wires[t] \cap alive /\ self[t] \in Pipes
        /\ pc[t] \in {"parentDisconnect", "deleteParents"}
        /\ Free(<<"children", p>>) /\ p \in Pipes
    BY <1>6, LeaveParentEffect DEF LinkInv, WireOK
  <2>3. \A u \in Threads \ {t} : pc[u] \in {"idle", "push"}
    BY <2>2, OthersPush
  <2>4. WireOK'
    <3>1. \A u \in Threads \ {t} : pc'[u] \in {"idle", "push"}
      BY <2>2, <2>3 DEF Goes
    <3>2. /\ pc'[t] = pc[t] /\ self'[t] = self[t] /\ alive' = alive
          /\ pc[t] = "deleteParents" => children[self[t]] = {}
      BY <2>2 DEF LinkInv, WireOK, Goes
    <3>3. children'[self[t]] \subseteq children[self[t]]
      BY <2>2 DEF Cut
    <3>4. QED BY <2>2, <3>1, <3>2, <3>3 DEF WireOK
  <2>5. PushOK'
    <3>1. \A q \in Pipes : \/ children'[q] = children[q]
                           \/ Free(<<"children", q>>)
                           \/ <<"children", q>> \in held[t]
      BY <2>2 DEF Cut
    <3>2. QED BY <2>2, <3>1, PushKept
  <2>6. Agree' /\ NamesAlive'
    BY <2>2, <2>3, CutKeeps
  <2>7. QED BY <2>1, <2>4, <2>5, <2>6 DEF LinkInv
<1>7. ASSUME NEW t \in Threads, ParentsLeft(t) PROVE LinkInv'
  <2>1. SafeInv'
    BY <1>0
  <2>2. /\ pc[t] \in {"parentDisconnect", "deleteParents"}
        /\ self[t] \in Wires[t] \cap alive /\ self[t] \in Pipes
        /\ parents[self[t]] = {} /\ UNCHANGED <<parents, children, todo>>
        /\ alive' = IF pc[t] = "deleteParents" THEN alive \ {self[t]} ELSE alive
        /\ Goes(t, "idle", NoPipe, NoPipe) /\ Locks(t)
        /\ pc[t] = "deleteParents" => children[self[t]] = {}
    BY <1>7, ParentsLeftEffect DEF LinkInv, WireOK
  <2>3. \A u \in Threads \ {t} : pc[u] \in {"idle", "push"}
    BY <2>2, OthersPush
  <2>4. WireOK'
    BY <2>2, <2>3 DEF WireOK, Goes
  <2>5. PushOK'
    BY <2>2, PushKept
  <2>6. \A q, c \in Pipes : c \in children[q] <=> q \in parents[c]
    BY <2>2, <2>3 DEF LinkInv, Agree
  <2>7. Agree'
    BY <2>2, <2>6 DEF Agree
  <2>8. NamesAlive'
    <3>1. CASE pc[t] = "deleteParents"
      <4>1. \A q \in Pipes : self[t] \notin children[q] /\ self[t] \notin parents[q]
        BY <2>2, <2>6, <3>1
      <4>2. QED BY <2>2, <3>1, <4>1 DEF LinkInv, NamesAlive
    <3>2. CASE pc[t] # "deleteParents"
      BY <2>2, <3>2 DEF LinkInv, NamesAlive
    <3>3. QED BY <3>1, <3>2
  <2>9. QED BY <2>1, <2>4, <2>5, <2>7, <2>8 DEF LinkInv
<1>8. ASSUME NEW t \in Threads, NEW p \in Pipes, DeleteBegins(t, p)
      PROVE  LinkInv'
  <2>1. SafeInv'
    BY <1>0
  <2>2. /\ UNCHANGED <<alive, parents, children, todo>> /\ Locks(t)
        /\ pc[t] = "idle" /\ p \in Wires[t] /\ p \in alive
        /\ Goes(t, "deleteChildren", p, NoPipe) /\ <<"children", p>> \in held'[t]
    BY <1>8, DeleteBeginsEffect DEF LinkInv, WireOK
  <2>3. \A u \in Threads \ {t} : pc[u] \in {"idle", "push"}
    BY <2>2, OthersPush
  <2>4. WireOK'
    BY <2>2, <2>3 DEF LinkInv, WireOK, Goes
  <2>5. PushOK'
    BY <2>2, PushKept
  <2>6. Agree' /\ NamesAlive'
    BY <2>2, <2>3 DEF LinkInv, Agree, NamesAlive, Goes
  <2>7. QED BY <2>1, <2>4, <2>5, <2>6 DEF LinkInv
<1>9. ASSUME NEW t \in Threads, NEW k \in Pipes, LeaveChild(t, k)
      PROVE  LinkInv'
  <2>1. SafeInv'
    BY <1>0
  <2>2. /\ UNCHANGED <<alive, todo, held>> /\ Locks(t) /\ Cut(self[t], k)
        /\ Goes(t, pc[t], self[t], other[t])
        /\ self[t] \in Wires[t] \cap alive /\ self[t] \in Pipes
        /\ pc[t] = "deleteChildren" /\ k \in Pipes
        /\ <<"children", self[t]>> \in held[t]
    BY <1>9, LeaveChildEffect DEF LinkInv, WireOK
  <2>3. \A u \in Threads \ {t} : pc[u] \in {"idle", "push"}
    BY <2>2, OthersPush
  <2>4. WireOK'
    BY <2>2, <2>3 DEF LinkInv, WireOK, Goes, Cut
  <2>5. PushOK'
    <3>1. \A q \in Pipes : \/ children'[q] = children[q]
                           \/ Free(<<"children", q>>)
                           \/ <<"children", q>> \in held[t]
      BY <2>2 DEF Cut
    <3>2. QED BY <2>2, <3>1, PushKept
  <2>6. Agree' /\ NamesAlive'
    BY <2>2, <2>3, CutKeeps
  <2>7. QED BY <2>1, <2>4, <2>5, <2>6 DEF LinkInv
<1>10. ASSUME NEW t \in Threads, ChildrenLeft(t) PROVE LinkInv'
  <2>1. SafeInv'
    BY <1>0
  <2>2. /\ UNCHANGED <<alive, parents, children, todo>> /\ Locks(t)
        /\ pc[t] = "deleteChildren" /\ self[t] \in Wires[t] \cap alive
        /\ children[self[t]] = {} /\ self[t] \in Pipes
        /\ \/ Goes(t, pc[t], self[t], other[t])
           \/ Goes(t, "deleteParents", self[t], NoPipe)
    BY <1>10, ChildrenLeftEffect DEF LinkInv, WireOK
  <2>3. \A u \in Threads \ {t} : pc[u] \in {"idle", "push"}
    BY <2>2, OthersPush
  <2>4. WireOK'
    BY <2>2, <2>3 DEF LinkInv, WireOK, Goes
  <2>5. PushOK'
    <3>1. CASE Goes(t, pc[t], self[t], other[t])
      BY <2>2, <3>1, PushKept
    <3>2. CASE Goes(t, "deleteParents", self[t], NoPipe)
      BY <2>2, <3>2, PushKept
    <3>3. QED BY <2>2, <3>1, <3>2
  <2>6. Agree' /\ NamesAlive'
    BY <2>2, <2>3 DEF LinkInv, Agree, NamesAlive, Goes
  <2>7. QED BY <2>1, <2>4, <2>5, <2>6 DEF LinkInv
<1>11. ASSUME NEW t \in Threads, NEW p \in Pipes, PushBegins(t, p)
      PROVE  LinkInv'
  <2>1. /\ UNCHANGED <<alive, parents, children>> /\ Locks(t)
        /\ Goes(t, "push", p, NoPipe)
        /\ pc[t] = "idle" /\ <<"children", p>> \in held'[t]
        /\ todo'[t] = children[p]
        /\ \A u \in Threads \ {t} : todo'[u] = todo[u]
    BY <1>11, PushBeginsEffect DEF LinkInv
  <2>2. QED BY <1>0, <2>1, WhilePushing DEF LinkInv
<1>12. ASSUME NEW t \in Threads, NEW k \in Pipes, VisitChild(t, k)
      PROVE  LinkInv'
  <2>1. /\ UNCHANGED <<alive, parents, children>> /\ Locks(t)
        /\ Goes(t, "push", self[t], other[t])
        /\ UNCHANGED held /\ pc[t] = "push" /\ todo'[t] \subseteq todo[t]
        /\ \A u \in Threads \ {t} : todo'[u] = todo[u]
    BY <1>12, VisitChildEffect DEF LinkInv
  <2>2. /\ <<"children", self[t]>> \in held'[t]
        /\ todo'[t] \subseteq children[self[t]]
    BY <2>1 DEF LinkInv, PushOK
  <2>3. QED BY <1>0, <2>1, <2>2, WhilePushing DEF LinkInv
<1>13. ASSUME NEW t \in Threads, PushEnds(t) PROVE LinkInv'
  <2>1. /\ UNCHANGED <<alive, parents, children>> /\ Locks(t)
        /\ Goes(t, "idle", NoPipe, NoPipe)
        /\ pc[t] = "push" /\ todo[t] = {} /\ todo'[t] = todo[t]
        /\ \A u \in Threads \ {t} : todo'[u] = todo[u]
    BY <1>13, PushEndsEffect DEF LinkInv
  <2>2. QED BY <1>0, <2>1, WhilePushing DEF LinkInv
<1>14. CASE UNCHANGED vars
  <2>1. SafeInv'
    BY <1>0
  <2>2. WireOK' /\ PushOK'
    BY <1>14 DEF vars, LinkInv, WireOK, PushOK
  <2>3. Agree' /\ NamesAlive'
    BY <1>14 DEF vars, LinkInv, Agree, NamesAlive
  <2>4. QED BY <2>1, <2>2, <2>3 DEF LinkInv
<1>15. QED
  BY <1>1, <1>2, <1>3, <1>4, <1>5, <1>6, <1>7, <1>8,
     <1>9, <1>10, <1>11, <1>12, <1>13, <1>14
  DEF Next, BeginSome, Continue

-----------------------------------------------------------------------------
(***************************************************************************)
(* Waiting.                                                                *)
(***************************************************************************)

\* The mutexes that an operation keeps while it takes those of other pipes.
HoldOK ==
  \A t \in Threads :
    /\ pc[t] \in {"parentDisconnect", "deleteParents"} =>
         held[t] = {<<"parents", self[t]>>}
    /\ pc[t] = "deleteChildren" => held[t] \subseteq {<<"children", self[t]>>}

\* The step that the operation of t is at waits for a mutex of somebody.
Waits(t) ==
  \/ /\ pc[t] \in {"childAdd", "childRemove"}
     /\ ~Free(<<"children", self[t]>>)
  \/ /\ pc[t] \in {"parentDisconnect", "deleteParents"}
     /\ \E p \in parents[self[t]] : ~Free(<<"children", p>>)
  \/ /\ pc[t] = "deleteChildren"
     /\ \E k \in children[self[t]] : ~Free(<<"parents", k>>)
  \/ /\ pc[t] = "deleteChildren" /\ held[t] = {}
     /\ ~Free(<<"parents", self[t]>>)

\* Not all who have begun an operation wait.
SomebodyGoesOn ==
  (\E t \in Threads : pc[t] # "idle") =>
    \E t \in Threads : pc[t] # "idle" /\ ~Waits(t)

LEMMA HoldStep == SafeInv /\ HoldOK /\ [Next]_vars => HoldOK'
<1> SUFFICES ASSUME SafeInv, HoldOK, [Next]_vars PROVE HoldOK'
  OBVIOUS
<1> TypeOK
  BY DEF SafeInv
<1>1. ASSUME NEW t \in Threads, BeginSome(t) PROVE HoldOK'
  <2>1. pc[t] = "idle" /\ held[t] = {}
    BY <1>1 DEF BeginSome, parentDisconnect, DeleteBegins, PushBegins, ConnectBegins,
          DisconnectBegins, Idle, TypeOK
  <2>2. PICK p \in Pipes, k \in Pipes :
          \/ parentDisconnect(t, p) \/ DeleteBegins(t, p) \/ PushBegins(t, p)
          \/ ConnectBegins(t, p, k) \/ DisconnectBegins(t, p, k)
    BY <1>1 DEF BeginSome
  <2> DEFINE Others == \A u \in Threads \ {t} :
               pc'[u] = pc[u] /\ self'[u] = self[u] /\ held'[u] = held[u]
             Begun == \/ pc'[t] \in {"childAdd", "childRemove", "push"}
                      \/ /\ pc'[t] = "parentDisconnect"
                         /\ held'[t] = held[t] \cup {<<"parents", self'[t]>>}
                      \/ /\ pc'[t] = "deleteChildren"
                         /\ held'[t] = {<<"children", self'[t]>>}
  <2>3. Others /\ Begun
    <3>1. CASE parentDisconnect(t, p)
      BY <3>1 DEF parentDisconnect, ParentsLocked, Begin, TypeOK
    <3>2. CASE DeleteBegins(t, p)
      BY <3>2 DEF DeleteBegins, Begin, TypeOK
    <3>3. CASE PushBegins(t, p)
      BY <3>3 DEF PushBegins, Begin, TypeOK
    <3>4. CASE ConnectBegins(t, p, k)
      BY <3>4 DEF ConnectBegins, Begin, TypeOK
    <3>5. CASE DisconnectBegins(t, p, k)
      BY <3>5 DEF DisconnectBegins, Begin, TypeOK
    <3>6. QED BY <2>2, <3>1, <3>2, <3>3, <3>4, <3>5
  <2>4. QED BY <2>1, <2>3 DEF HoldOK
<1>2. ASSUME NEW t \in Threads, Continue(t) PROVE HoldOK'
  <2>1. \A u \in Threads \ {t} :
          pc'[u] = pc[u] /\ self'[u] = self[u] /\ held'[u] = held[u]
    BY <1>2 DEF Continue, childAdd, childRemove, ParentsLeft, ChildrenLeft, PushEnds,
          LeaveParent, LeaveChild, VisitChild, ParentsLocked, Begin, Done, TypeOK
  <2>2. \/ pc'[t] = "idle"
        \/ pc'[t] = pc[t] /\ self'[t] = self[t] /\ held'[t] = held[t]
        \/ pc'[t] = pc[t] /\ pc[t] = "deleteChildren" /\ held'[t] = {}
        \/ /\ pc[t] = "deleteChildren" /\ <<"children", self[t]>> \notin held[t]
           /\ pc'[t] = "deleteParents" /\ self'[t] = self[t]
           /\ held'[t] = held[t] \cup {<<"parents", self[t]>>}
    BY <1>2 DEF Continue, childAdd, childRemove, ParentsLeft, ChildrenLeft, PushEnds,
          LeaveParent, LeaveChild, VisitChild, ParentsLocked, Begin, Done, TypeOK
  <2>3. pc'[t] = "deleteParents" /\ pc[t] = "deleteChildren" =>
          held'[t] = {<<"parents", self'[t]>>}
    BY <2>2 DEF HoldOK
  <2>4. QED BY <2>1, <2>2, <2>3 DEF HoldOK
<1>3. CASE UNCHANGED vars
  BY <1>3 DEF vars, HoldOK
<1>4. QED BY <1>1, <1>2, <1>3 DEF Next

-----------------------------------------------------------------------------
(***************************************************************************)
(* Theorems.                                                               *)
(***************************************************************************)

\* For any threads that wire and push: who holds which mutex is known, and two
\* threads never hold the same one (Pipe.h:300-480).
THEOREM MutexesExclude == Spec => []SafeInv
<1>1. QED
  BY SafeInit, SafeStep, PTL DEF Spec

\* The lists, the mutexes and the operations keep their types (Pipe.h:300-480).
THEOREM TypeCorrect == Spec => []TypeOK
<1>1. SafeInv => TypeOK
  BY DEF SafeInv
<1>2. QED BY <1>1, MutexesExclude, PTL

\* The two halves of each operation, and the order of its mutexes, keep the lists
\* in step when one thread wires.
THEOREM LinksInvariant ==
  ASSUME OneWirer
  PROVE  Spec => []LinkInv
<1>1. LinkInv /\ [Next]_vars => LinkInv'
  BY LinkStep
<1>2. QED
  BY <1>1, LinkInit, PTL DEF Spec

\* Any number of threads may push while one connects, disconnects and deletes
\* pipes in any order: when none of it is in progress at two pipes, each of them
\* lists the other or neither does (Pipe.h:300-380).
THEOREM LinksAlwaysAgree ==
  ASSUME OneWirer
  PROVE  Spec => []LinksAgree
<1>1. LinkInv => LinksAgree
  <2>1. SUFFICES ASSUME LinkInv, NEW p \in alive, NEW k \in alive,
                        ~InProgress(p, k)
                 PROVE  k \in children[p] <=> p \in parents[k]
    BY DEF LinksAgree
  <2>2. p \in Pipes /\ k \in Pipes
    BY <2>1 DEF LinkInv, SafeInv, TypeOK
  <2>3. ASSUME NEW t \in Threads,
               pc[t] \in {"childAdd", "childRemove"}, self[t] = p
        PROVE  FALSE
    <3>1. pc[t] \notin {"idle", "push"}
      BY <2>3
    <3>2. p \in {self[t], other[t]} \cap {p, k}
      BY <2>3
    <3>3. QED BY <2>1, <3>1, <3>2 DEF InProgress
  <2>4. QED BY <2>1, <2>2, <2>3 DEF LinkInv, Agree
<1>2. QED BY <1>1, LinksInvariant, PTL

\* A pipe that is deleted is in no list, and nobody who pushes is about to visit
\* it (Pipe.h:395-480).
THEOREM NoLinkDangles ==
  ASSUME OneWirer
  PROVE  Spec => []NoDanglingLink
<1>1. ASSUME LinkInv PROVE NoDanglingLink
  <2>1. /\ \A t \in Threads : todo[t] \subseteq alive
    <3>1. ASSUME NEW t \in Threads, pc[t] = "push" PROVE todo[t] \subseteq alive
      <4>1. self[t] \in Pipes /\ todo[t] \subseteq children[self[t]]
        BY <1>1, <3>1 DEF LinkInv, SafeInv, FrameOK, PushOK
      <4>2. QED BY <1>1, <4>1 DEF LinkInv, NamesAlive
    <3>2. ASSUME NEW t \in Threads, pc[t] # "push" PROVE todo[t] \subseteq alive
      BY <1>1, <3>2 DEF LinkInv, PushOK
    <3>3. QED BY <3>1, <3>2
  <2>2. \A p \in alive : children[p] \cup parents[p] \subseteq alive
    BY <1>1 DEF LinkInv, SafeInv, TypeOK, NamesAlive
  <2>3. QED BY <2>1, <2>2 DEF NoDanglingLink
<1>2. LinkInv => NoDanglingLink
  BY <1>1
<1>3. QED BY <1>2, LinksInvariant, PTL

\* While one thread wires and any number of them push, the mutexes that the
\* operations hold two at a time never close a circle (Pipe.h:322-335, 452-480):
\* who pushes waits for nobody, and whom the wiring thread waits for pushes.
THEOREM NoCircleOfThreads ==
  ASSUME OneWirer
  PROVE  Spec => []SomebodyGoesOn
<1>1. ASSUME LinkInv, HoldOK PROVE SomebodyGoesOn
  <2>1. SUFFICES ASSUME NEW t \in Threads, pc[t] # "idle",
                        \A u \in Threads : pc[u] # "push"
                 PROVE  ~Waits(t)
    BY DEF SomebodyGoesOn, Waits
  <2>2. pc[t] \notin {"idle", "push"}
    BY <2>1
  <2>3. Wires[t] # {}
    BY <1>1, <2>2 DEF LinkInv, WireOK
  <2>4. \A u \in Threads \ {t} : pc[u] \in {"idle", "push"}
    BY <1>1, <2>3, OthersPush
  <2>5. \A u \in Threads \ {t} : held[u] = {}
    BY <1>1, <2>1, <2>4 DEF LinkInv, SafeInv, TypeOK
  <2>6. \A m : ~Free(m) => m \in held[t]
    BY <2>5 DEF Free
  <2>7. pc[t] \in {"childAdd", "childRemove"} => held[t] = {}
    BY <1>1 DEF LinkInv, SafeInv, FrameOK
  <2>8. pc[t] \in {"parentDisconnect", "deleteParents"} =>
          held[t] = {<<"parents", self[t]>>}
    BY <1>1 DEF HoldOK
  <2>9. pc[t] = "deleteChildren" => held[t] \subseteq {<<"children", self[t]>>}
    BY <1>1 DEF HoldOK
  <2>10. \A p, q : <<"children", p>> # <<"parents", q>>
    OBVIOUS
  <2>11. ASSUME pc[t] \in {"childAdd", "childRemove"} PROVE ~Waits(t)
    <3>1. Free(<<"children", self[t]>>)
      BY <2>6, <2>7, <2>11
    <3>2. QED BY <2>11, <3>1 DEF Waits
  <2>12. ASSUME pc[t] \in {"parentDisconnect", "deleteParents"} PROVE ~Waits(t)
    <3>1. \A p : Free(<<"children", p>>)
      BY <2>6, <2>8, <2>10, <2>12
    <3>2. QED BY <2>12, <3>1 DEF Waits
  <2>13. ASSUME pc[t] = "deleteChildren" PROVE ~Waits(t)
    <3>1. \A p : Free(<<"parents", p>>)
      BY <2>6, <2>9, <2>10, <2>13
    <3>2. QED BY <2>13, <3>1 DEF Waits
  <2>14. pc[t] \in Pcs
    BY <1>1 DEF LinkInv, SafeInv, TypeOK
  <2>15. QED BY <2>2, <2>11, <2>12, <2>13, <2>14 DEF Pcs
<1>2. Init => HoldOK
  BY DEF Init, HoldOK
<1>3. SafeInv /\ HoldOK /\ [Next]_vars => HoldOK'
  BY HoldStep
<1>4. Spec => []HoldOK
  BY <1>2, <1>3, MutexesExclude, PTL DEF Spec
<1>5. LinkInv /\ HoldOK => SomebodyGoesOn
  BY <1>1
<1>6. QED BY <1>4, <1>5, LinksInvariant, PTL
=============================================================================
