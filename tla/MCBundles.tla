----------------------------- MODULE MCBundles ------------------------------
(***************************************************************************)
(* Small instances of Bundles: two links, two updaters, one range query.   *)
(***************************************************************************)
EXTENDS Bundles, TLC

CONSTANTS b1, b2, x, y

MCBundleSet == {b1, b2}
MCPtrs == {x, y}
\* The constructor has set up b1; the node of b2 does not exist yet.
MCInitBundle == (b1 :> [entries |-> <<[ts |-> 2, ptr |-> x]>>, low |-> 1]) @@
                (b2 :> EmptyBundle)

\* An update that links a new node (its own bundle first, as doInsert does)
\* and one that redirects a link alone.
MCUpdates ==
  { <<[bundle |-> b2, ptr |-> x], [bundle |-> b1, ptr |-> y]>>,
    <<[bundle |-> b1, ptr |-> x]>>,
    <<[bundle |-> b2, ptr |-> y]>> }
=============================================================================
