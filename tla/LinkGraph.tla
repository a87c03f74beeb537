----------------------------- MODULE LinkGraph -----------------------------
(***************************************************************************)
(* The forwarding graph of the coordinator: server.links and the functions *)
(* it is made of.  A node is its identifier, and identifiers are ordered.  *)
(* A list of links is a sequence of pairs: the order is kept because the   *)
(* roots of the union-find in ensureConnected depend on it.  The costs     *)
(* that decorateLinks computes do not select links and are left out.       *)
(***************************************************************************)
EXTENDS Naturals, Sequences, SequencesExt, FiniteSets, FiniteSetsExt

CONSTANTS
    Nodes,      \* node identifiers, natural numbers
    Hash,       \* Hash[<<c, p>>]: the first bytes of SHA-256 of "c:p"
    Capacity    \* the registered capacity of every node

\* NAT type and role, as links reads them: a "symmetric" node is a client
\* behind a symmetric NAT, "offline" one whose lease is over.
Kinds == {"offline", "client", "symmetric", "superpeer"}
Clients == {"client", "symmetric"}

Views == [Nodes -> Kinds]
Pairs == {e \in SUBSET Nodes : Cardinality(e) = 2}

LinkPolicies ==
    [manual : SUBSET Pairs, blocked : SUBSET Pairs,
     degree : Nat, clientLinks : Nat, symmetricLinks : Nat]

ASSUME LinkGraphConstants ==
    /\ Nodes \subseteq Nat
    /\ IsFiniteSet(Nodes)
    /\ Hash \in [Nodes \X Nodes -> Nat]
    /\ Capacity \in [Nodes -> Nat \ {0}]

\* sort.Strings, sort.Slice: the elements of a finite set from first to last,
\* where before holds the pairs whose first element comes first.  The element at
\* place i has i - 1 before it.
Sorted(S, before) ==
    [i \in 1..Cardinality(S) |->
        CHOOSE x \in S : Cardinality({y \in S : <<y, x>> \in before}) = i - 1]

Ids(S) == Sorted(S, {p \in S \X S : p[1] < p[2]})

EdgeKey(e) == {e[1], e[2]}

\* The order of "ORDER BY a,b", and the last resort of bridgeNodes.
Lexical(e, f) == e[1] < f[1] \/ (e[1] = f[1] /\ e[2] < f[2])

\* The pair with its smaller identifier first, as graph_links stores it and
\* as backboneLinks adds it.
InOrder(a, b) == IF a > b THEN <<b, a>> ELSE <<a, b>>

Online(view) == {n \in Nodes : view[n] # "offline"}

SuperpeerNodes(view) == {n \in Nodes : view[n] = "superpeer"}

RendezvousScore(client, peer, capacity) == Hash[<<client, peer>>] \div capacity

-----------------------------------------------------------------------------
(* The backbone: a ring over the superpeers and chords.                    *)

\* The closure add of backboneLinks: no self-link and no link twice.
AddLink(out, e) ==
    IF e[1] = e[2] \/ \E i \in DOMAIN out : out[i] = e THEN out ELSE Append(out, e)

\* Mutant: a degree of one is honoured, the ring is a matching.
BackboneMatching(superpeers, degree) ==
    LET n == Len(superpeers)
        half == n \div 2
        d == Min({degree, n - 1})
        Step(k) == [i \in 1..n |-> InOrder(superpeers[i], superpeers[((i - 1 + k) % n) + 1])]
        Across == [i \in 1..half |-> InOrder(superpeers[i], superpeers[i + half])]
    IN  IF n < 2 THEN <<>>
        ELSE FoldLeft(AddLink, <<>>,
                      FlattenSeq([k \in 1..(d \div 2) |-> Step(k)])
                          \o (IF d % 2 = 1 THEN Across ELSE <<>>))

BackboneLinks(superpeers, degree) ==
    LET n == Len(superpeers)
        d == Min({Max({degree, 2}), n - 1})
        Step(k) == [i \in 1..n |-> InOrder(superpeers[i], superpeers[((i - 1 + k) % n) + 1])]
        half == n \div 2
        Across == [i \in 1..half |-> InOrder(superpeers[i], superpeers[i + half])]
        Ring == [k \in 1..Max({1, d \div 2}) |-> Step(k)]
    IN  IF n < 2 THEN <<>>
        ELSE FoldLeft(AddLink, <<>>,
                      FlattenSeq(Ring) \o (IF d % 2 = 1 THEN Across ELSE <<>>))

-----------------------------------------------------------------------------
(* Clients attach to the best of their possible peers.                     *)

\* metric[<<c, p>>] is what c last reported of its link to p: "up", "down", or
\* "unknown" when there is no report of the last 45 seconds.
MetricRank(m) == CASE m = "up" -> 2 [] m = "unknown" -> 1 [] m = "down" -> 0

TelemetryPeerOrder(client, peers, metric) ==
    LET state(p) ==
            IF <<client, p>> \in DOMAIN metric THEN MetricRank(metric[<<client, p>>]) ELSE 1
        score(p) == RendezvousScore(client, p, Capacity[p])
        better(p, q) ==
            \/ state(p) > state(q)
            \/ state(p) = state(q) /\ score(p) < score(q)
            \/ state(p) = state(q) /\ score(p) = score(q) /\ p < q
    IN  Sorted(peers, {e \in peers \X peers : better(e[1], e[2])})

\* Mutant: a client that is its own possible peer is not skipped.
AttachClientToItself(out, client, peers, blocked, policy, kind, metric) ==
    LET connected == {p \in Nodes : \E i \in DOMAIN out : EdgeKey(out[i]) = {client, p}}
        free == {p \in peers \ connected : {client, p} \notin blocked}
        order == TelemetryPeerOrder(client, free, metric)
    IN  out \o [i \in 1..Min({policy.clientLinks, Len(order)}) |-> <<client, order[i]>>]

\* One round of addAutomaticClientLinks: the links client still wants, in its
\* order of preference, to peers it is not linked to and not kept from.
AttachClient(out, client, peers, blocked, policy, kind, metric) ==
    LET want == Max({1, IF kind = "symmetric" THEN policy.symmetricLinks
                                               ELSE policy.clientLinks})
        connected == {p \in Nodes \ {client} :
                        \E i \in DOMAIN out : EdgeKey(out[i]) = {client, p}}
        count == Cardinality(connected \cap peers)
        free == {p \in peers \ (connected \cup {client}) : {client, p} \notin blocked}
        order == TelemetryPeerOrder(client, free, metric)
        added == IF count >= want THEN 0 ELSE Min({want - count, Len(order)})
    IN  out \o [i \in 1..added |-> <<client, order[i]>>]

AddAutomaticClientLinks(out, view, peers, blocked, policy, metric) ==
    IF peers = {} THEN out
    ELSE FoldLeft(LAMBDA acc, c : AttachClient(acc, c, peers, blocked, policy, view[c], metric),
                  out, Ids({n \in Nodes : view[n] \in Clients}))

RemoveBlockedEdges(edges, blocked) ==
    FoldLeft(LAMBDA out, e : IF EdgeKey(e) \in blocked THEN out ELSE Append(out, e),
             <<>>, edges)

-----------------------------------------------------------------------------
(* The safety net: what is still apart is bridged.                         *)

\* The root of every node after the union-find has seen all the edges: an edge
\* hangs the root of its first end below the root of its second end.
Roots(edges, online) ==
    FoldLeft(LAMBDA root, e : [n \in online |-> IF root[n] = root[e[1]] THEN root[e[2]]
                                                                         ELSE root[n]],
             [n \in online |-> n], edges)

\* Mutant: only superpeers make a bridge.
BridgeSuperpeers(A, B, view, blocked) ==
    LET open == {e \in A \X B : EdgeKey(e) \notin blocked
                                /\ view[e[1]] = "superpeer" /\ view[e[2]] = "superpeer"}
    IN  IF open = {} THEN <<>> ELSE << CHOOSE e \in open : TRUE >>

\* Mutant: a bridge need not respect the blocks.
BridgeAnyway(A, B, view, blocked) == << CHOOSE e \in A \X B : TRUE >>

\* The bridge between two components, as a list of at most one link.
BridgeNodes(A, B, view, blocked) ==
    LET open == {e \in A \X B : EdgeKey(e) \notin blocked}
        tier(n) == IF view[n] = "superpeer" THEN 0 ELSE 1
        tiers(e) == tier(e[1]) + tier(e[2])
        score(e) == Min({RendezvousScore(e[1], e[2], Capacity[e[1]]),
                         RendezvousScore(e[2], e[1], Capacity[e[2]])})
        better(e, f) ==
            \/ tiers(e) < tiers(f)
            \/ /\ tiers(e) = tiers(f)
               /\ \/ score(e) < score(f)
                  \/ score(e) = score(f) /\ Lexical(e, f)
    IN  IF open = {} THEN <<>>
        ELSE << CHOOSE e \in open : \A f \in open \ {e} : better(e, f) >>

\* Only components whose roots are next to each other in the sorted order are
\* bridged.
EnsureConnected(edges, view, blocked) ==
    LET root == Roots(edges, Online(view))
        component(r) == {n \in Online(view) : root[n] = r}
        roots == Ids({root[n] : n \in Online(view)})
    IN  edges \o FlattenSeq([i \in 1..(Len(roots) - 1) |->
                   BridgeNodes(component(roots[i]), component(roots[i + 1]), view, blocked)])

-----------------------------------------------------------------------------
BlockedEdgeSet(view, policy) == {e \in policy.blocked : e \subseteq Online(view)}

ManualLinksForNodes(view, policy) ==
    LET kept == {InOrder(Min(e), Max(e)) : e \in {x \in policy.manual : x \subseteq Online(view)}}
    IN  Sorted(kept, {ef \in kept \X kept : Lexical(ef[1], ef[2])})

Links(view, policy, metric) ==
    LET blocked == BlockedEdgeSet(view, policy)
        manual == ManualLinksForNodes(view, policy)
        superpeers == SuperpeerNodes(view)
        base == IF manual # <<>> THEN RemoveBlockedEdges(manual, blocked)
                ELSE BackboneLinks(Ids(superpeers), policy.degree)
        peers == IF superpeers = {} /\ manual = <<>> THEN Online(view) ELSE superpeers
        attached == AddAutomaticClientLinks(base, view, peers, blocked, policy, metric)
    IN  EnsureConnected(RemoveBlockedEdges(attached, blocked), view, blocked)
=============================================================================
