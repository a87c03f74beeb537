------------------------- MODULE NodeTopologyProofs -------------------------
(***************************************************************************)
(* The view of a node is that of one version, and what it keeps about its  *)
(* links agrees with it, for any mesh, any graphs and any number of        *)
(* events.                                                                 *)
(***************************************************************************)
EXTENDS NodeTopology, FiniteSetTheorems, TLAPS

\* A topology that a node applies as a whole carries the links of its version.
Versions == [graph : Graphs, reported : [Peers -> {"none", "up", "down"}]]
Fulls == {Full(v) : v \in Versions}
Answers == Fulls \cup {VersionOnly(v) : v \in Versions}

\* What is served now has a version.
ServedOK ==
    /\ graph \in Graphs
    /\ reported \in [Peers -> {"none", "up", "down"}]

\* What is on the way to the node: every push is a full topology; the answer to
\* a poll may have no body.
OnTheWay ==
    /\ pushes \in Seq(Fulls)
    /\ poll.stage = "answered" => poll.topology \in Answers

IInv == ServedOK /\ OnTheWay /\ ViewIsWhole

\* What the coordinator serves is the fingerprint of a graph and of reports.
LEMMA ServedIsAVersion == ServedOK => Served \in Versions
  BY DEF ServedOK, Served, Versions

\* applyTopology leaves the view whole, whatever it had before.
LEMMA ApplyIsWhole ==
    ASSUME NEW w, NEW t \in Answers, ViewIsWhole, Apply(w, t)
    PROVE  ViewIsWhole'
  <1>1. CASE t.unchanged \/ t.version = version
    BY <1>1 DEF Apply, ViewIsWhole, node, LinksOf
  <1>2. CASE ~(t.unchanged \/ t.version = version)
    <2>1. PICK v \in Versions : t = Full(v) \/ t = VersionOnly(v)
      BY DEF Answers, Fulls
    <2>2. t # VersionOnly(v)
      BY <1>2 DEF VersionOnly
    <2>3. t.version = v /\ t.links = LinksOf(v)
      BY <2>1, <2>2 DEF Full
    <2>4. version' = v /\ links' = LinksOf(v)
      BY <1>2, <2>3 DEF Apply
    <2> QED
      BY <2>4 DEF ViewIsWhole, LinksOf
  <1> QED
    BY <1>1, <1>2

\* A new node has no view, and nothing is on the way to it.
LEMMA ViewInit == Init => IInv
  BY DEF Init, IInv, ServedOK, OnTheWay, ViewIsWhole

\* Every step keeps the invariant; only PollApply and PushApply change the view.
LEMMA ViewStep == IInv /\ [Next]_vars => IInv'
  <1> SUFFICES ASSUME IInv, [Next]_vars PROVE IInv'
    OBVIOUS
  <1> USE DEF IInv
  <1>1. ServedOK'
    <2>1. CASE \E g \in Graphs : GraphChanges(g)
      BY <2>1 DEF GraphChanges, ServedOK
    <2>2. CASE Report
      BY <2>2 DEF Report, ServedOK
    <2>3. CASE UNCHANGED <<graph, reported>>
      BY <2>3 DEF ServedOK
    <2> QED
      BY <2>1, <2>2, <2>3 DEF Next, vars, server, LeaseEnds, PushTopology, PollStart, PollAnswered,
         PollApply, PushApply, Compute, InstallRoutes, LinkHealth, NextHop, Touch, Silent, Beacon
  <1>2. OnTheWay'
    <2>1. CASE PushTopology
      <3>1. Full(Served) \in Fulls
        BY ServedIsAVersion DEF Fulls
      <3> QED
        BY <2>1, <3>1 DEF PushTopology, OnTheWay
    <2>2. CASE PollStart
      BY <2>2 DEF PollStart, OnTheWay
    <2>3. CASE PollAnswered
      <3>1. Answer(poll.condition) \in Answers
        BY ServedIsAVersion DEF Answer, Answers, Fulls
      <3> QED
        BY <2>3, <3>1 DEF PollAnswered, OnTheWay
    <2>4. CASE PollApply
      BY <2>4 DEF PollApply, OnTheWay
    <2>5. CASE PushApply
      BY <2>5 DEF PushApply, OnTheWay
    <2>6. CASE UNCHANGED net
      BY <2>6 DEF net, OnTheWay
    <2> QED
      BY <2>1, <2>2, <2>3, <2>4, <2>5, <2>6 DEF Next, vars, GraphChanges, LeaseEnds, Report,
         Compute, InstallRoutes, LinkHealth, NextHop, Touch, Silent, Beacon
  <1>3. ViewIsWhole'
    <2>1. CASE PollApply
      <3>1. poll.topology \in Answers /\ Apply("poll", poll.topology)
        BY <2>1 DEF PollApply, OnTheWay
      <3> QED
        BY <3>1, ApplyIsWhole
    <2>2. CASE PushApply
      <3>1. Head(pushes) \in Answers /\ Apply("push", Head(pushes))
        BY <2>2 DEF PushApply, OnTheWay, Answers
      <3> QED
        BY <3>1, ApplyIsWhole
    <2>3. CASE UNCHANGED <<version, links>>
      BY <2>3 DEF ViewIsWhole, LinksOf
    <2> QED
      BY <2>1, <2>2, <2>3 DEF Next, vars, node, GraphChanges, LeaseEnds, PushTopology, Report, PollStart,
         PollAnswered, Compute, InstallRoutes, LinkHealth, NextHop, Touch, Silent, Beacon
  <1> QED
    BY <1>1, <1>2, <1>3

-----------------------------------------------------------------------------
\* The inductive invariant: what is on the way is whole, and so is the view.
THEOREM ViewInvariant == Spec => []IInv
  BY ViewInit, ViewStep, PTL DEF Spec

\* applyTopology: whatever pushes overtake a poll and in whatever order they are
\* applied, the links of a node are those of the version it names in its polls.
THEOREM WholeView == Spec => []ViewIsWhole
  <1>1. IInv => ViewIsWhole
    BY DEF IInv
  <1> QED
    BY <1>1, ViewInvariant, PTL

-----------------------------------------------------------------------------
(* What the node keeps about its links. *)

\* Only the links of a view: pairs of nodes.
LinksOK == DOMAIN links \subseteq Edges

NeighborsOK ==
    /\ usable \subseteq neighbors /\ up \subseteq neighbors
    /\ neighbors \subseteq Adjacent(links, Self)
    /\ neighbors \cap holes = {}

TablesOK ==
    /\ table \in Tabled
    /\ pc \in [Workers -> {"idle", "compute", "install"}]
    /\ calc \in [Workers -> Tabled]
    /\ \A w \in Workers : pc[w] # "install" => calc[w] = NoRoutes

\* A push on the way, or one that is owed, stands for a change of the graph.
PushesOK ==
    /\ events \in Nat /\ owed \in BOOLEAN
    /\ Len(pushes) + (IF owed THEN 1 ELSE 0) <= events

KeptInv == IInv /\ LinksOK /\ NeighborsOK /\ TablesOK /\ PushesOK

\* A node is no neighbour of itself: a link has two ends.
LEMMA NeighborsArePeers ==
    ASSUME NEW ls, DOMAIN ls \subseteq Edges PROVE Adjacent(ls, Self) \subseteq Peers
  <1> SUFFICES ASSUME NEW m \in Adjacent(ls, Self) PROVE m \in Peers
    OBVIOUS
  <1>1. m \in Everyone /\ {Self, m} \in Edges
    BY DEF Adjacent
  <1>2. m # Self
    <2> SUFFICES ASSUME m = Self PROVE FALSE
      OBVIOUS
    <2>1. Cardinality({Self}) = 1
      BY FS_Singleton
    <2>2. {Self, m} = {Self}
      OBVIOUS
    <2>3. \A e \in Edges : Cardinality(e) = 2
      BY DEF Edges
    <2>4. Cardinality({Self, m}) = 2
      BY <1>1, <2>3
    <2> QED
      BY <2>1, <2>2, <2>4
  <1> QED
    BY <1>1, <1>2 DEF Everyone

\* The first hops of a destination are usable neighbours.
LEMMA HopsAreUsable ==
    ASSUME NEW ls, NEW live, NEW d, NEW x PROVE FirstHops(ls, live, d, x) \subseteq live
  BY DEF FirstHops

\* computeRoutes gives every destination a hop and an alternate that are peers,
\* or none.
LEMMA TablesTyped ==
    ASSUME NEW ls, NEW live \in SUBSET Peers, NEW t \in Tables(ls, live) PROVE t \in Tabled
  <1> DEFINE Hop == Peers \cup {None}
  <1>1. ASSUME NEW d, NEW x PROVE OrNone(FirstHops(ls, live, d, x)) \subseteq Hop
    BY HopsAreUsable DEF OrNone
  <1>2. ASSUME NEW d \in Peers PROVE RouteTo(ls, live, d) \subseteq Hop \X Hop
    <2>1. CASE d \notin Directory(ls)
      BY <2>1 DEF RouteTo
    <2>2. CASE d \in Directory(ls) /\ d \in live
      BY <2>2 DEF RouteTo
    <2>3. CASE d \in Directory(ls) /\ d \notin live
      <3>1. RouteTo(ls, live, d) =
              UNION {{<<h, a>> : a \in IF h = None THEN {None}
                                       ELSE OrNone(FirstHops(ls, live, d, h))}
                     : h \in OrNone(FirstHops(ls, live, d, None))}
        BY <2>3 DEF RouteTo
      <3>2. ASSUME NEW r \in RouteTo(ls, live, d) PROVE r \in Hop \X Hop
        <4>1. PICK h \in OrNone(FirstHops(ls, live, d, None)) :
                r \in {<<h, a>> : a \in IF h = None THEN {None}
                                        ELSE OrNone(FirstHops(ls, live, d, h))}
          BY <3>1
        <4>2. PICK a \in IF h = None THEN {None} ELSE OrNone(FirstHops(ls, live, d, h)) :
                r = <<h, a>>
          BY <4>1
        <4>3. h \in Hop
          BY <1>1
        <4>4. a \in Hop
          BY <1>1
        <4> QED
          BY <4>2, <4>3, <4>4
      <3> QED
        BY <3>2
    <2> QED
      BY <2>1, <2>2, <2>3
  <1>3. DOMAIN t = Peers /\ \A d \in Peers : t[d] \in RouteTo(ls, live, d)
    BY DEF Tables
  <1>4. t = [d \in Peers |-> t[d]]
    BY DEF Tables
  <1> QED
    BY <1>2, <1>3, <1>4 DEF Tabled

\* applyTopology keeps what is known of the neighbours that stay, and of
\* nobody else.
LEMMA ApplyKeeps ==
    ASSUME KeptInv, NEW w \in Workers, NEW t \in Answers, pc[w] = "idle", Apply(w, t),
           UNCHANGED <<table, calc>>
    PROVE  LinksOK' /\ NeighborsOK' /\ TablesOK'
  <1>1. CASE t.unchanged \/ t.version = version
    <2>1. UNCHANGED <<node, pc>>
      BY <1>1 DEF Apply
    <2> QED
      BY <2>1 DEF KeptInv, node, LinksOK, NeighborsOK, TablesOK, Adjacent
  <1>2. CASE ~(t.unchanged \/ t.version = version)
    <2>1. PICK v \in Versions : t = Full(v) \/ t = VersionOnly(v)
      BY DEF Answers, Fulls
    <2>2. t.links = LinksOf(v)
      BY <1>2, <2>1 DEF Full, VersionOnly
    <2>3. DOMAIN t.links \subseteq Edges
      BY <2>2, NodeTopologyConstants DEF LinksOf, Versions
    <2>4. /\ links' = t.links
          /\ neighbors' = Adjacent(t.links, Self) \ holes
          /\ usable' = usable \cap neighbors' /\ up' = up \cap neighbors'
          /\ holes' = holes \ Adjacent(t.links, Self)
          /\ pc' = [pc EXCEPT ![w] = "compute"]
      BY <1>2 DEF Apply
    <2>5. LinksOK'
      BY <2>3, <2>4 DEF LinksOK
    <2>6. NeighborsOK'
      BY <2>4 DEF NeighborsOK, Adjacent
    <2>7. TablesOK'
      BY <2>4 DEF KeptInv, TablesOK
    <2> QED
      BY <2>5, <2>6, <2>7
  <1> QED
    BY <1>1, <1>2

\* A node that has just started knows nothing.
LEMMA KeptInit == Init => KeptInv
  <1> SUFFICES ASSUME Init PROVE KeptInv
    OBVIOUS
  <1>1. IInv
    BY ViewInit
  <1>2. LinksOK /\ NeighborsOK
    BY DEF Init, LinksOK, NeighborsOK
  <1>3. NoRoutes \in Tabled
    BY DEF NoRoutes, Tabled
  <1>4. TablesOK
    BY <1>3 DEF Init, TablesOK
  <1>5. PushesOK
    <2>1. pushes = <<>> /\ ~owed /\ events = 0 /\ owed \in BOOLEAN
      BY DEF Init
    <2>2. Len(pushes) = 0
      BY <2>1
    <2> QED
      BY <2>1, <2>2 DEF PushesOK
  <1> QED
    BY <1>1, <1>2, <1>4, <1>5 DEF KeptInv

\* The tables of the goroutines that compute routes.
LEMMA TablesStep == ASSUME KeptInv, [Next]_vars PROVE TablesOK'
  <1>1. TablesOK /\ NoRoutes \in Tabled
    BY DEF KeptInv, NoRoutes, Tabled
  <1>2. ASSUME NEW w \in Workers, Compute(w) PROVE TablesOK'
    <2>1. PICK t \in Tables(links, usable) : calc' = [calc EXCEPT ![w] = t]
      BY <1>2 DEF Compute
    <2>2. usable \in SUBSET Peers
      BY NeighborsArePeers DEF KeptInv, LinksOK, NeighborsOK
    <2>3. t \in Tabled
      BY <2>1, <2>2, TablesTyped
    <2>4. pc' = [pc EXCEPT ![w] = "install"] /\ table' = table
      BY <1>2 DEF Compute
    <2> QED
      BY <1>1, <2>1, <2>3, <2>4 DEF TablesOK
  <1>3. ASSUME NEW w \in Workers, InstallRoutes(w) PROVE TablesOK'
    BY <1>1, <1>3 DEF TablesOK, InstallRoutes
  <1>4. ASSUME NEW w \in Workers, pc[w] = "idle", pc' = [pc EXCEPT ![w] = "compute"],
               UNCHANGED <<table, calc>>
        PROVE  TablesOK'
    BY <1>1, <1>4 DEF TablesOK
  <1>5. CASE LinkHealth \/ \E d \in Peers : NextHop(d)
    BY <1>4, <1>5 DEF LinkHealth, NextHop, Workers
  <1>6. CASE PollApply \/ PushApply
    <2>1. PICK w \in Workers, t \in Answers : pc[w] = "idle" /\ Apply(w, t)
      BY <1>6 DEF PollApply, PushApply, KeptInv, IInv, OnTheWay, Answers, Workers
    <2> QED
      BY <1>6, <2>1, ApplyKeeps DEF PollApply, PushApply
  <1>7. CASE UNCHANGED <<table, pc, calc>>
    BY <1>1, <1>7 DEF TablesOK
  <1> QED
    BY <1>2, <1>3, <1>5, <1>6, <1>7 DEF Next, vars, GraphChanges, LeaseEnds, PushTopology, Report,
       PollStart, PollAnswered, Touch, Silent, Beacon

\* The neighbours, the flags of their links and the buffered addresses.
LEMMA NeighborsStep == ASSUME KeptInv, [Next]_vars PROVE LinksOK' /\ NeighborsOK'
  <1>1. LinksOK /\ NeighborsOK
    BY DEF KeptInv
  <1>2. CASE PollApply \/ PushApply
    <2>1. PICK w \in Workers, t \in Answers : pc[w] = "idle" /\ Apply(w, t)
      BY <1>2 DEF PollApply, PushApply, KeptInv, IInv, OnTheWay, Answers, Workers
    <2> QED
      BY <1>2, <2>1, ApplyKeeps DEF PollApply, PushApply
  <1>3. ASSUME NEW p \in Peers, Touch(p) \/ Silent(p) \/ Beacon(p) PROVE LinksOK' /\ NeighborsOK'
    BY <1>1, <1>3 DEF LinksOK, NeighborsOK, Touch, Silent, Beacon, Adjacent
  <1>4. CASE LinkHealth
    BY <1>1, <1>4 DEF LinksOK, NeighborsOK, LinkHealth, Adjacent
  <1>5. CASE UNCHANGED <<links, neighbors, usable, up, holes>>
    BY <1>1, <1>5 DEF LinksOK, NeighborsOK, Adjacent
  <1> QED
    BY <1>2, <1>3, <1>4, <1>5 DEF Next, vars, node, GraphChanges, LeaseEnds, PushTopology, Report,
       PollStart, PollAnswered, Compute, InstallRoutes, NextHop

\* The channel holds no more pushes than there were changes.
LEMMA PushesStep == ASSUME KeptInv, [Next]_vars PROVE PushesOK'
  <1>1. PushesOK /\ pushes \in Seq(Fulls) /\ Len(pushes) \in Nat
    BY DEF KeptInv, IInv, OnTheWay
  <1>2. ASSUME NEW g \in Graphs, GraphChanges(g) PROVE PushesOK'
    <2>1. pushes' = pushes /\ owed' = TRUE /\ events' = events + 1
      BY <1>2 DEF GraphChanges, net
    <2>2. Len(pushes) <= events /\ events \in Nat
      BY <1>1 DEF PushesOK
    <2>3. owed' \in BOOLEAN /\ (IF owed' THEN 1 ELSE 0) = 1
      BY <2>1, Zenon
    <2>4. Len(pushes') + 1 <= events' /\ events' \in Nat
      BY <1>1, <2>1, <2>2
    <2>5. Len(pushes') + (IF owed' THEN 1 ELSE 0) <= events'
      BY <2>3, <2>4, Zenon
    <2> QED
      BY <2>3, <2>4, <2>5, Zenon DEF PushesOK
  <1>3. CASE PushTopology
    <2>1. owed /\ owed' = FALSE /\ events' = events
      BY <1>3 DEF PushTopology
    <2>2. Len(pushes') <= Len(pushes) + 1 /\ Len(pushes') \in Nat
      <3>1. Full(Served) \in Fulls
        BY ServedIsAVersion DEF KeptInv, IInv, Fulls
      <3> QED
        BY <1>1, <1>3, <3>1 DEF PushTopology
    <2>3. Len(pushes) + 1 <= events /\ events \in Nat
      <3>1. (IF owed THEN 1 ELSE 0) = 1
        BY <2>1, Zenon
      <3> QED
        BY <1>1, <3>1 DEF PushesOK
    <2>4. (IF owed' THEN 1 ELSE 0) = 0 /\ owed' \in BOOLEAN
      BY <2>1, Zenon
    <2>5. Len(pushes') + 0 <= events' /\ events' \in Nat
      BY <1>1, <2>1, <2>2, <2>3
    <2> QED
      BY <2>4, <2>5, Zenon DEF PushesOK
  <1>4. CASE PushApply
    <2>1. Len(pushes') = Len(pushes) - 1 /\ owed' = owed /\ events' = events
      BY <1>1, <1>4 DEF PushApply, server
    <2> QED
      BY <1>1, <2>1 DEF PushesOK
  <1>5. CASE UNCHANGED <<pushes, owed>> /\ events' \in {events, events + 1}
    BY <1>1, <1>5 DEF PushesOK
  <1> QED
    BY <1>2, <1>3, <1>4, <1>5 DEF Next, vars, server, net, LeaseEnds, Report,
       PollStart, PollAnswered, PollApply, Compute, InstallRoutes, LinkHealth, NextHop, Touch,
       Silent, Beacon

\* The strengthened invariant holds in every state a node reaches.
THEOREM KeptInvariant == Spec => []KeptInv
  <1>1. KeptInv /\ [Next]_vars => KeptInv'
    <2>1. KeptInv /\ [Next]_vars => IInv'
      BY ViewStep DEF KeptInv
    <2> QED
      BY <2>1, NeighborsStep, TablesStep, PushesStep DEF KeptInv
  <1> QED
    BY <1>1, KeptInit, PTL DEF Spec

\* What the node keeps about its links stays together, whatever pushes, polls,
\* beacons and four goroutines that install routes do to each other.
THEOREM NodeTypeCorrect == Spec => []TypeOK
  <1>1. KeptInv => TypeOK
    <2> SUFFICES ASSUME KeptInv PROVE TypeOK
      OBVIOUS
    <2>1. Len(pushes) \in Nat
      BY DEF KeptInv, IInv, OnTheWay
    <2>2. Len(pushes) <= events
      BY <2>1 DEF KeptInv, PushesOK
    <2> QED
      BY <2>2 DEF KeptInv, IInv, ServedOK, NeighborsOK, TablesOK, TypeOK
  <1> QED
    BY <1>1, KeptInvariant, PTL
=============================================================================
