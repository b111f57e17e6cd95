--------------------------- MODULE CommandHistory ---------------------------
(***************************************************************************)
(* What the command line promises about its history: the lines entered     *)
(* last, newest first, a repeated line once, and a position in them that   *)
(* the up and down keys move.  Ring buffers, cursors and bytes do not      *)
(* exist at this level.                                                    *)
(***************************************************************************)
EXTENDS Naturals, Sequences

CONSTANTS Lines, Depth

VARIABLES line, past, pos

vars == <<line, past, pos>>

\* The line that is typed or edited.
Init == line = <<>> /\ past = <<>> /\ pos = 0

Edit == line' \in Lines /\ UNCHANGED <<past, pos>>

Up ==
  /\ pos < Len(past)
  /\ pos' = pos + 1
  /\ line' = past[pos + 1]
  /\ UNCHANGED past

Down ==
  /\ pos > 0
  /\ pos' = pos - 1
  /\ line' = IF pos = 1 THEN <<>> ELSE past[pos - 1]
  /\ UNCHANGED past

Latest(s) == IF Len(s) <= Depth THEN s ELSE SubSeq(s, 1, Depth)

Enter ==
  /\ past' = IF line = <<>> \/ (past # <<>> /\ line = Head(past))
             THEN past ELSE Latest(<<line>> \o past)
  /\ line' = <<>>
  /\ pos' = 0

Next == Edit \/ Up \/ Down \/ Enter

Spec == Init /\ [][Next]_vars
=============================================================================
