------------------------- MODULE MCSystemDebugging -------------------------
(***************************************************************************)
(* Instances of SystemDebugging: connections p and q to the port of the    *)
(* process tree, l to that of the log and m to that of the command line.   *)
(***************************************************************************)
EXTENDS SystemDebugging, TLC

CONSTANTS p, q, l, m

KindOf == (p :> "proc") @@ (q :> "proc") @@ (l :> "log") @@ (m :> "cmd")
FamOf  == (p :> "v4") @@ (q :> "v6") @@ (l :> "v4") @@ (m :> "v4")

ConnKinds == [c \in Conns |-> KindOf[c]]
ConnFams  == [c \in Conns |-> FamOf[c]]
OneQueued == [k \in Kinds |-> 1]

\* Two viewers of the tree and a queue for one; a viewer and changes; a log
\* peer and entries; a viewer and a log peer; a command line.
Small == {
  [conns |-> {p, q}, entries |-> 0, trees |-> 1],
  [conns |-> {p},    entries |-> 0, trees |-> 3],
  [conns |-> {l},    entries |-> 2, trees |-> 1],
  [conns |-> {p, l}, entries |-> 0, trees |-> 1],
  [conns |-> {m},    entries |-> 0, trees |-> 1]}
LogOnly == {[conns |-> {l}, entries |-> 1, trees |-> 1]}

CmdMayFail == {<<"cmd", "v4">>}
=============================================================================
