--------------------------- MODULE MCProcessTree ---------------------------
(***************************************************************************)
(* Instances of ProcessTree: the root r with processes a and b.            *)
(***************************************************************************)
EXTENDS ProcessTree, TLC

CONSTANTS r, a, b, None

\* r walks the tree and may end with an error.  It starts a in a thread, which
\* may fail to be created and be tried again; a is a service and drives b.
ChainParent == (r :> None) @@ (a :> r) @@ (b :> a)
ChainStartModes == (r :> {}) @@ (a :> {"internal"}) @@ (b :> {"parent"})
ChainResults == (r :> {"Negative"}) @@ (a :> {}) @@ (b :> {})
ChainUses ==
  (r :> {"restart", "cancel", "repel", "whenFinished"}) @@ (a :> {}) @@ (b :> {})

\* r and one child, started in a thread or for an external driver.
PairParent == (r :> None) @@ (a :> r)
PairStartModes == (r :> {}) @@ (a :> {"internal", "external"})
PairResults == (r :> {"Positive"}) @@ (a :> {"Positive"})
PairUses == (r :> {"cancel", "repel", "whenFinished"}) @@ (a :> {})
=============================================================================
