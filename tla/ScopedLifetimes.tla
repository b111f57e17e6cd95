-------------------------- MODULE ScopedLifetimes --------------------------
(***************************************************************************)
(* What the process tree promises about lifetimes (README.md: "Process and *)
(* data lifetimes are tied together"): a process is created by a working   *)
(* parent, works, finishes, and is deleted once it has finished and all    *)
(* the processes it created are deleted.  Threads, ticks and flags do not  *)
(* exist at this level.                                                    *)
(***************************************************************************)
CONSTANTS Proc, Root, Parent

VARIABLE stage

Stages == {"unborn", "working", "finished", "deleted"}

TypeOK == stage \in [Proc -> Stages]

Init == stage = [p \in Proc |-> IF p = Root THEN "working" ELSE "unborn"]

Create(p) ==
  /\ stage[p] = "unborn"
  /\ Parent[p] \in Proc /\ stage[Parent[p]] = "working"
  /\ stage' = [stage EXCEPT ![p] = "working"]

Finish(p) ==
  /\ stage[p] = "working"
  /\ stage' = [stage EXCEPT ![p] = "finished"]

Delete(p) ==
  /\ stage[p] = "finished"
  /\ \A c \in Proc : Parent[c] = p => stage[c] \in {"unborn", "deleted"}
  /\ stage' = [stage EXCEPT ![p] = "deleted"]

Next == \E p \in Proc : Create(p) \/ Finish(p) \/ Delete(p)

Spec == Init /\ [][Next]_stage
=============================================================================
