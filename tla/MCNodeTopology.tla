--------------------------- MODULE MCNodeTopology ---------------------------
(***************************************************************************)
(* NodeTopology for TLC: a relay and a far node.                        *)
(***************************************************************************)
EXTENDS NodeTopology, TLC

\* The far node is behind the relay; then it is a neighbour too.
MCGraphs ==
    {(({Self, "r"} :> 1) @@ ({"r", "d"} :> 1)),
     (({Self, "r"} :> 1) @@ ({Self, "d"} :> 1) @@ ({"r", "d"} :> 1))}
=============================================================================
