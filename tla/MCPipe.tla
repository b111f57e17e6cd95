------------------------------- MODULE MCPipe -------------------------------
(***************************************************************************)
(* A blocking source s with the reader k and a pipe n, which drops what    *)
(* its children cannot take and has the late reader j.                     *)
(***************************************************************************)
EXTENDS Pipe, TLC

CONSTANTS s, k, n, j

TreeWired == (s :> {k, n}) @@ (k :> {}) @@ (n :> {}) @@ (j :> {})
TreeLate == (s :> {}) @@ (k :> {}) @@ (n :> {j}) @@ (j :> {})
TreeSize == (s :> 2) @@ (k :> 1) @@ (n :> 1) @@ (j :> 1)
=============================================================================
