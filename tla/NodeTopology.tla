---------------------------- MODULE NodeTopology ----------------------------
(***************************************************************************)
(* One node's view of the mesh: the coordinator pushes topologies over the *)
(* control channel and answers conditional polls, the node applies both in *)
(* goroutines of their own, and four goroutines compute routes from a      *)
(* snapshot and install them later.  Links of the node come up and go      *)
(* down, and its telemetry feeds them back into the links it is served.    *)
(*                                                                         *)
(* A version is a fingerprint of what is served: here it is the content    *)
(* itself, the graph and the node's last reports.                          *)
(***************************************************************************)
EXTENDS Naturals, Sequences, FiniteSets

CONSTANTS
    Self,
    Peers,          \* the other nodes
    Graphs,         \* the link graphs the coordinator may build: edge -> cost
    MaxEvents       \* bound: changes of the graph, lapses of the lease, links
                    \* that fall silent and LAN beacons of unknown peers

VARIABLES
    graph, reported,    \* coordinator: the links it builds, the node's reports
    leased,             \* the node's lease holds: it is in the topology
    owed,               \* a change has not been pushed yet
    pushes,             \* topologies on the way on the control channel
    poll,               \* the request or answer of the poll under way
    version, links,     \* node: topologyVersion and links
    neighbors, usable, up,      \* neighbours, heard from lately, flagged up
    holes,              \* pendingLAN: peers with a buffered unusable address
    table,              \* routes and altRoutes
    pc, calc,           \* the goroutines that compute routes, what they computed
    events              \* counts what MaxEvents bounds

server == <<graph, reported, leased, owed>>
net == <<pushes, poll>>
node == <<version, links, neighbors, usable, up, holes>>
vars == <<server, net, node, table, pc, calc, events>>

Workers == {"push", "poll", "health", "send"}
Everyone == Peers \cup {Self}
None == "none"
Edges == {e \in SUBSET Everyone : Cardinality(e) = 2}

ASSUME NodeTopologyConstants ==
    /\ Self \notin Peers
    /\ IsFiniteSet(Peers)
    /\ None \notin Everyone
    /\ \A g \in Graphs : DOMAIN g \subseteq Edges /\ \A e \in DOMAIN g : g[e] \in Nat \ {0}
    /\ MaxEvents \in Nat

-----------------------------------------------------------------------------
(* What is served.                                                         *)

NoVersion == [graph |-> <<>>, reported |-> <<>>]
Served == [graph |-> graph, reported |-> reported]

\* The links of a version: decorateLinks makes a link that the node reports
\* down twice as dear as one it knows nothing of.
LinksOf(v) ==
    [e \in DOMAIN v.graph |->
        IF \E p \in Peers : e = {Self, p} /\ v.reported[p] = "down"
        THEN 2 * v.graph[e] ELSE v.graph[e]]

Full(v) == [version |-> v, unchanged |-> FALSE, links |-> LinksOf(v)]
\* The answer to a poll whose condition still holds has no body.
VersionOnly(v) == [version |-> v, unchanged |-> TRUE, links |-> <<>>]

\* Mutant: the version leaves out the costs that telemetry has changed.
AnswerIgnoringReports(condition) ==
    IF condition.graph = graph THEN VersionOnly(Served) ELSE Full(Served)

\* bootstrapUnchanged
Answer(condition) == IF condition = Served THEN VersionOnly(Served) ELSE Full(Served)

-----------------------------------------------------------------------------
(* Routes.                                                                 *)

Adjacent(ls, n) == {m \in Everyone : {n, m} \in DOMAIN ls}
Directory(ls) == (UNION DOMAIN ls) \ {Self}

Far == 1000

\* Dijkstra from destination d, not through this node.
Distance(ls, d) ==
    LET least(S) == CHOOSE x \in S : \A y \in S : x <= y
        within[k \in Nat] ==
            IF k = 0 THEN [n \in Peers |-> IF n = d THEN 0 ELSE Far]
            ELSE LET nearer == within[k - 1]
                 IN  [n \in Peers |->
                        least({nearer[n]} \cup {ls[{n, m}] + nearer[m] : m \in Adjacent(ls, n) \ {Self}})]
    IN  within[Cardinality(Peers)]

\* firstHopTable and firstHopFrom: the usable first hops of the shortest paths;
\* which of several equal ones is taken depends on the order of the heap.
FirstHops(ls, live, d, exclude) ==
    LET dist == Distance(ls, d)
        open == {h \in (live \cap Adjacent(ls, Self)) \ {exclude} : dist[h] < Far}
    IN  {h \in open : \A k \in open : ls[{Self, h}] + dist[h] <= ls[{Self, k}] + dist[k]}

OrNone(S) == IF S = {} THEN {None} ELSE S

\* computeRoutes, for one destination: the hop and the alternate.
RouteTo(ls, live, d) ==
    IF d \notin Directory(ls) THEN {<<None, None>>}
    ELSE IF d \in live THEN {<<d, None>>}
    ELSE UNION {{<<h, a>> : a \in IF h = None THEN {None}
                                  ELSE OrNone(FirstHops(ls, live, d, h))}
                : h \in OrNone(FirstHops(ls, live, d, None))}

Tables(ls, live) ==
    LET choices == [d \in Peers |-> RouteTo(ls, live, d)]
    IN  {t \in [Peers -> UNION {choices[d] : d \in Peers}] : \A d \in Peers : t[d] \in choices[d]}

NoRoutes == [d \in Peers |-> <<None, None>>]

-----------------------------------------------------------------------------
(* The coordinator.                                                        *)

\* Nodes, policy or measurements of others change: another graph is built.
GraphChanges(g) ==
    /\ events < MaxEvents
    /\ g # graph
    /\ graph' = g
    /\ owed' = TRUE
    /\ events' = events + 1
    /\ UNCHANGED <<reported, leased, net, node, table, pc, calc>>

LeaseEnds ==
    /\ events < MaxEvents
    /\ leased
    /\ leased' = FALSE
    /\ events' = events + 1
    /\ UNCHANGED <<graph, reported, owed, net, node, table, pc, calc>>

\* pushTopology: a bootstrap without a condition.  A node without a lease is
\* unknown to it, and the push is dropped.
PushTopology ==
    /\ owed
    /\ owed' = FALSE
    /\ pushes' = IF leased THEN Append(pushes, Full(Served)) ELSE pushes
    /\ UNCHANGED <<graph, reported, leased, poll, node, table, pc, calc, events>>

\* The telemetry of the node: a changed report is in the next links.  It only
\* changes their costs here; that it may also change which relays a client is
\* given (telemetryPeerOrder) is left to GraphChanges.
Report ==
    LET now == [p \in Peers |-> IF p \in usable THEN "up"
                                ELSE IF p \in neighbors THEN "down" ELSE reported[p]]
    IN  /\ reported # now
        /\ reported' = now
        /\ UNCHANGED <<graph, leased, owed, net, node, table, pc, calc, events>>

-----------------------------------------------------------------------------
(* Polls and pushes on the node.                                           *)

\* bootstrap: the version goes along as the condition.
PollStart ==
    /\ pc["poll"] = "idle"
    /\ poll.stage = "none"
    /\ poll' = [stage |-> "asked", condition |-> version]
    /\ UNCHANGED <<server, pushes, node, table, pc, calc, events>>

\* The coordinator answers; "404: unknown node" renews the lease and asks again.
PollAnswered ==
    /\ poll.stage = "asked"
    /\ \/ /\ leased
          /\ poll' = [stage |-> "answered", topology |-> Answer(poll.condition)]
          /\ UNCHANGED leased
       \/ /\ ~leased
          /\ leased' = TRUE
          /\ UNCHANGED poll
    /\ UNCHANGED <<graph, reported, owed, pushes, node, table, pc, calc, events>>

\* Mutant: the states of all the old neighbours are kept.
ApplyKeepsStates(w, t) ==
    LET kept == Adjacent(t.links, Self) \ holes
    IN  IF t.unchanged \/ t.version = version
        THEN UNCHANGED <<node, pc>>
        ELSE /\ version' = t.version
             /\ links' = t.links
             /\ neighbors' = kept
             /\ holes' = holes \ Adjacent(t.links, Self)
             /\ pc' = [pc EXCEPT ![w] = "compute"]
             /\ UNCHANGED <<usable, up>>

\* Mutant: only the version of an answer is looked at.
ApplyVersionOnly(w, t) ==
    LET kept == Adjacent(t.links, Self) \ holes
    IN  IF t.version = version
        THEN UNCHANGED <<node, pc>>
        ELSE /\ version' = t.version
             /\ links' = t.links
             /\ neighbors' = kept
             /\ usable' = usable \cap kept
             /\ up' = up \cap kept
             /\ holes' = holes \ Adjacent(t.links, Self)
             /\ pc' = [pc EXCEPT ![w] = "compute"]

\* applyTopology up to the first unlock.  What is known of a neighbour is kept.
\* A neighbour with a buffered LAN address that is really a NAT endpoint is
\* skipped altogether.  The check of the version is made under the read lock and
\* before the write, but is one step with it: in between the other goroutine can
\* only install a version that this one overwrites as it would have done later, or
\* the very version it is about to write.
Apply(w, t) ==
    LET adjacent == Adjacent(t.links, Self)
        kept == adjacent \ holes
    IN  IF t.unchanged \/ t.version = version
        THEN UNCHANGED <<node, pc>>
        ELSE /\ version' = t.version
             /\ links' = t.links
             /\ neighbors' = kept
             /\ usable' = usable \cap kept
             /\ up' = up \cap kept
             /\ holes' = holes \ adjacent
             /\ pc' = [pc EXCEPT ![w] = "compute"]

PollApply ==
    /\ pc["poll"] = "idle"
    /\ poll.stage = "answered"
    /\ Apply("poll", poll.topology)
    /\ poll' = [stage |-> "none"]
    /\ UNCHANGED <<server, pushes, table, calc, events>>

\* readControl applies a push before it reads the next frame.
PushApply ==
    /\ pc["push"] = "idle"
    /\ pushes # <<>>
    /\ Apply("push", Head(pushes))
    /\ pushes' = Tail(pushes)
    /\ UNCHANGED <<server, poll, table, calc, events>>

-----------------------------------------------------------------------------
(* Computing routes: a snapshot under the read lock, the table later.      *)

Compute(w) ==
    /\ pc[w] = "compute"
    /\ pc' = [pc EXCEPT ![w] = "install"]
    /\ \E t \in Tables(links, usable) : calc' = [calc EXCEPT ![w] = t]
    /\ UNCHANGED <<server, net, node, table, events>>

InstallRoutes(w) ==
    /\ pc[w] = "install"
    /\ table' = calc[w]
    /\ calc' = [calc EXCEPT ![w] = NoRoutes]
    /\ pc' = [pc EXCEPT ![w] = "idle"]
    /\ UNCHANGED <<server, net, node, events>>

\* A tick of linkHealth: routes are computed when a flag was wrong.  touch sets
\* the flag itself, so only links that went down are noticed here.
LinkHealth ==
    /\ pc["health"] = "idle"
    /\ up # usable
    /\ up' = usable
    /\ pc' = [pc EXCEPT !["health"] = "compute"]
    /\ UNCHANGED <<server, net, version, links, neighbors, usable, holes, table, calc, events>>

\* Mutant: a hop that has become unusable is replaced, a missing one is not.
NextHopOnlyStale(d) ==
    /\ pc["send"] = "idle"
    /\ table[d][1] \notin usable \cup {None}
    /\ pc' = [pc EXCEPT !["send"] = "compute"]
    /\ UNCHANGED <<server, net, node, table, calc, events>>

\* A packet for d and no usable hop in the table: nextHop claims the recompute
\* window.  Packets with a usable hop, or within the window of another, change
\* nothing.
NextHop(d) ==
    /\ pc["send"] = "idle"
    /\ table[d][1] \notin usable
    /\ pc' = [pc EXCEPT !["send"] = "compute"]
    /\ UNCHANGED <<server, net, node, table, calc, events>>

-----------------------------------------------------------------------------
(* Links.                                                                  *)

\* A datagram of a neighbour: touch.
Touch(p) ==
    /\ p \in neighbors \ usable
    /\ usable' = usable \cup {p}
    /\ up' = up \cup {p}
    /\ UNCHANGED <<server, net, version, links, neighbors, holes, table, pc, calc, events>>

\* linkTimeout passes without one.
Silent(p) ==
    /\ events < MaxEvents
    /\ p \in usable
    /\ usable' = usable \ {p}
    /\ events' = events + 1
    /\ UNCHANGED <<server, net, version, links, neighbors, up, holes, table, pc, calc>>

\* A LAN beacon of a peer that is no neighbour, from an address that is a
\* published NAT endpoint: it is buffered in pendingLAN.
Beacon(p) ==
    /\ events < MaxEvents
    /\ p \notin neighbors \cup holes
    /\ holes' = holes \cup {p}
    /\ events' = events + 1
    /\ UNCHANGED <<server, net, version, links, neighbors, usable, up, table, pc, calc>>

-----------------------------------------------------------------------------
Init ==
    /\ graph \in Graphs
    /\ reported = [p \in Peers |-> "none"]
    /\ leased = TRUE
    /\ owed = FALSE
    /\ pushes = <<>>
    /\ poll = [stage |-> "none"]
    /\ version = NoVersion
    /\ links = <<>>
    /\ neighbors = {} /\ usable = {} /\ up = {} /\ holes = {}
    /\ table = NoRoutes
    /\ pc = [w \in Workers |-> "idle"]
    /\ calc = [w \in Workers |-> NoRoutes]
    /\ events = 0

Next ==
    \/ \E g \in Graphs : GraphChanges(g)
    \/ LeaseEnds \/ PushTopology \/ Report
    \/ PollStart \/ PollAnswered \/ PollApply \/ PushApply
    \/ \E w \in Workers : Compute(w) \/ InstallRoutes(w)
    \/ LinkHealth
    \/ \E d \in Peers : NextHop(d)
    \/ \E p \in Peers : Touch(p) \/ Silent(p) \/ Beacon(p)

Spec == Init /\ [][Next]_vars

\* Telemetry and polls are periodic, goroutines run on, pushes are read, and
\* packets to every destination keep coming.
Fairness ==
    /\ WF_vars(Report)
    /\ WF_vars(PollStart) /\ WF_vars(PollAnswered) /\ WF_vars(PollApply)
    /\ WF_vars(PushTopology) /\ WF_vars(PushApply)
    /\ \A w \in Workers : WF_vars(Compute(w) \/ InstallRoutes(w))
    /\ \A d \in Peers : WF_vars(NextHop(d))

FairSpec == Spec /\ Fairness

-----------------------------------------------------------------------------
Tabled == [Peers -> (Peers \cup {None}) \X (Peers \cup {None})]

\* What the node keeps about its links stays together: only neighbours are
\* usable or up, a neighbour is an end of a link of the view it applied, and a
\* goroutine holds a table only between computeRoutes and the install.
TypeOK ==
    /\ graph \in Graphs
    /\ reported \in [Peers -> {"none", "up", "down"}]
    /\ usable \subseteq neighbors /\ up \subseteq neighbors
    /\ neighbors \subseteq Adjacent(links, Self)
    /\ neighbors \cap holes = {}
    /\ table \in Tabled
    /\ \A w \in Workers :
          /\ pc[w] \in {"idle", "compute", "install"}
          /\ calc[w] \in Tabled
          /\ pc[w] # "install" => calc[w] = NoRoutes
    /\ Len(pushes) <= events

\* "A version-only response must never replace that view": whatever pushes
\* overtake a poll, the links a node routes by are those of the version it
\* names as the condition of its next poll.
ViewIsWhole == version # NoVersion => links = LinksOf(version)

\* Pushes and answers may be applied in any order, and an older one over a
\* newer one, but once the mesh is quiet the node has the view that is served
\* and keeps it.
NodeCatchesUp == <>[](version = Served)

\* Destinations the node could reach through a link that works now.
WayOut(d) == d \in usable \/ FirstHops(links, usable, d, None) # {}

\* A table computed from an older snapshot may be installed last.  A node that
\* keeps sending still ends up with a usable hop to every destination that
\* stays reachable.
TrafficFindsAWay ==
    \A d \in Peers : (<>[]WayOut(d)) => <>[](table[d][1] \in usable)
=============================================================================
