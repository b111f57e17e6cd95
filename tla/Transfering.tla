---------------------------- MODULE Transfering ----------------------------
(***************************************************************************)
(* What the interface Transfering promises of read() (src/Transfering.h,   *)
(* the comment above the function): a positive number of bytes, each of    *)
(* them sent by the peer before; zero while data can still be expected;    *)
(* a negative number when no data can be expected any more.                *)
(*                                                                         *)
(* The promise of the zero is restricted here to the time when the member  *)
(* mReadReady is set: the comment says nothing of it, but the              *)
(* implementation returns zero before, and for ever if that time never     *)
(* comes.                                                                  *)
(***************************************************************************)
EXTENDS Naturals

CONSTANT MaxBytes   \* bound on the bytes a peer sends

VARIABLES
  sent, got,        \* bytes the peer has sent, bytes read() has handed out
  last,             \* what the last read() said
  ready,            \* mReadReady
  over              \* no data can be expected in the future

TypeOK ==
  /\ sent \in 0 .. MaxBytes
  /\ got \in 0 .. sent
  /\ last \in {"none", "data", "nothing", "end"}
  /\ {ready, over} \subseteq BOOLEAN

Init ==
  /\ sent = 0 /\ got = 0 /\ last = "none"
  /\ ready = FALSE
  /\ over \in BOOLEAN

PeerSends ==
  /\ ~over /\ sent < MaxBytes
  /\ sent' = sent + 1
  /\ UNCHANGED <<got, last, ready, over>>

GetsReady ==
  /\ ready' = TRUE
  /\ UNCHANGED <<sent, got, last, over>>

\* Peer, process or user have ended it; there is no way back.
Ends ==
  /\ over' = TRUE
  /\ UNCHANGED <<sent, got, last, ready>>

ReadData ==
  /\ ready /\ ~over
  /\ got' \in (got + 1) .. sent
  /\ last' = "data"
  /\ over' \in BOOLEAN
  /\ UNCHANGED <<sent, ready>>

ReadNothing ==
  /\ ready => ~over
  /\ last' = "nothing"
  /\ UNCHANGED <<sent, got, ready, over>>

ReadEnd ==
  /\ ready
  /\ last' = "end" /\ over' = TRUE
  /\ UNCHANGED <<sent, got, ready>>

Next ==
  PeerSends \/ GetsReady \/ Ends \/ ReadData \/ ReadNothing \/ ReadEnd

Spec == Init /\ [][Next]_<<sent, got, last, ready, over>>
=============================================================================
