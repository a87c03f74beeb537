----------------------------- MODULE MCRegistry -----------------------------
(***************************************************************************)
(* Registry for TLC: two nodes and the requests that make them meet.       *)
(***************************************************************************)
EXTENDS Registry, TLC

Symmetry == Permutations(Handlers)

Ask(n, nat, ip, scope, cred) ==
    [node |-> n, nat |-> nat, role |-> "auto", relay |-> TRUE, ip |-> ip,
     scope |-> scope, cred |-> cred]

\* Node 1 enrolls with an invitation of account 7 and comes back with its node
\* token; node 2 has the address of node 1 configured.
Meeting == {Ask(1, "cone", NoIP, 7, "invite"),
            Ask(1, "cone", NoIP, NoAccount, "node"),
            Ask(2, "cone", 1, NoAccount, "network")}

\* Two nodes of different owners that come and go.
Heartbeats == {Ask(1, "cone", NoIP, 7, "network"),
               Ask(2, "cone", NoIP, NoAccount, "network")}
=============================================================================
