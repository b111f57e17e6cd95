---------------------------- MODULE MCPipeLinks ----------------------------
(***************************************************************************)
(* Pipes p, k and j; p may feed k and j, k may feed j.                     *)
(***************************************************************************)
EXTENDS PipeLinks, TLC

CONSTANTS p, k, j, main, worker

\* One thread does the wiring, the other pushes.
WiredByMain == (main :> {p, k, j}) @@ (worker :> {})
PushedByWorker == (main :> {}) @@ (worker :> {p, k})

\* Two threads wire: the worker owns k, and may disconnect and delete it.
WiredByOwners == (main :> {p, j}) @@ (worker :> {k})
PushedByNobody == (main :> {}) @@ (worker :> {})

AllFeeds == {<<p, k>>, <<p, j>>, <<k, j>>}
OneFeed == {<<p, k>>}
=============================================================================
