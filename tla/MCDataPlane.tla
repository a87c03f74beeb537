----------------------------- MODULE MCDataPlane -----------------------------
(***************************************************************************)
(* DataPlane for TLC: two nodes on either side of a superpeer, whose       *)
(* address has also taken the place of the receiver's old one.             *)
(***************************************************************************)
EXTENDS DataPlane, TLC

NeighborsOf == [n \in Nodes |-> Nodes \ {n}]
HopsOf == [n \in Nodes |-> [d \in Nodes |-> CASE n = d -> {}
                                              [] n \in Relays -> {d}
                                              [] OTHER -> Relays]]
ReachesOf == [n \in Nodes |-> IF n = "b" THEN {"b", "r"} ELSE {n}]
Exchange == {[src |-> "a", dst |-> "b", flow |-> 1], [src |-> "b", dst |-> "a", flow |-> 1]}
Leaves == {<<"b", "a">>}
Keepalives == {[type |-> "HELLO", src |-> "a", dst |-> "b"], [type |-> "PING", src |-> "b", dst |-> "r"]}
OneQueueEach == [f \in Flows |-> f]
CONSTANTS w1, w2
Plans == {[sealed |-> 2, control |-> 0], [sealed |-> 1, control |-> 2], [sealed |-> 0, control |-> 3]}
WorkersOf == [n \in Nodes |-> IF n = "b" THEN {w1, w2} ELSE {w1}]

=============================================================================
