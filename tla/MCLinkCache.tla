---------------------------- MODULE MCLinkCache ----------------------------
(***************************************************************************)
(* LinkCache for TLC: four nodes of any kind and policies that split them. *)
(***************************************************************************)
EXTENDS LinkCache

MCHash == [p \in Nodes \X Nodes |-> (3 * p[1] + 5 * p[2]) % 7]
MCCapacity == [n \in Nodes |-> IF n = 2 THEN 2 ELSE 1]

Policy(manual, blocked, degree, clientLinks, symmetricLinks) ==
    [manual |-> manual, blocked |-> blocked, degree |-> degree,
     clientLinks |-> clientLinks, symmetricLinks |-> symmetricLinks]

MCReported == {<<1, 3>>}

\* The automatic graph with the smallest degree, manual islands, and blocks that
\* cut the ring (of a larger degree), and a manual link.
MCPolicies ==
    {Policy({}, {}, 1, 2, 2),
     Policy({{1, 3}, {2, 4}}, {}, 2, 1, 1),
     Policy({}, {{1, 2}, {2, 3}, {3, 4}}, 3, 1, 1),
     Policy({{1, 2}, {3, 4}}, {{1, 2}, {1, 3}}, 2, 2, 1)}
=============================================================================
