-------------------------- MODULE LinkCacheProofs --------------------------
(***************************************************************************)
(* What the coordinator serves, for any mesh, any number of handlers, any  *)
(* policies and any number of edits.                                       *)
(*                                                                         *)
(* First, no request is answered from an outdated entry of linkCache; what *)
(* links computes plays no part in it.  Then what links computes: lists    *)
(* that are sorted and folded, the backbone, the manual links, the links   *)
(* of the clients and the bridges, and how they join the nodes.  Last, the *)
(* two together: what every entry is worth.                                *)
(***************************************************************************)
EXTENDS LinkCache, FiniteSetTheorems, WellFoundedInduction, TLAPS

\* What the proof needs of the types.
StateOK ==
    /\ policy \in LinkPolicies
    /\ metric \in [Reported -> Reports]
    /\ stamp \in Nat
    /\ flushing \in BOOLEAN /\ bumping \in BOOLEAN
    /\ pc \in [Handlers -> {"idle", "rows", "key", "build"}]
    /\ req = [h \in Handlers |-> req[h]]

\* Only the holder of topologyMu builds.
BuildsLocked == \A h \in Handlers : pc[h] = "build" => lock = h

\* No key has a stamp that is still to come.
StampsPast ==
    /\ \A entry \in cache : entry.key.stamp \in Nat /\ entry.key.stamp <= stamp
    /\ \A h \in Handlers :
         /\ pc[h] = "key" => req[h].stamp \in Nat /\ req[h].stamp <= stamp
         /\ pc[h] = "build" => req[h].key.stamp \in Nat /\ req[h].key.stamp <= stamp

\* The blocks and the degree that links read first are those of now, or an
\* invalidation is due that cannot come before the entry is stored.
FirstReads ==
    \A h \in Handlers : pc[h] = "build" /\ ~flushing =>
        req[h].blocked = policy.blocked /\ req[h].degree = policy.degree

IInv == StateOK /\ BuildsLocked /\ StampsPast /\ FirstReads /\ CacheIsCurrent

\* What links makes of the reports of now is one of the readings.
LEMMA RankedIsAReading == StateOK => Ranked(metric) \in Readings
  BY DEF StateOK, Ranked, Readings, Reports, Old

\* A report that says again what the last one said leaves every reading
\* possible, however old the last one was.
LEMMA ReportKeepsReadings ==
    ASSUME StateOK, NEW p \in Reported, NEW now \in {"up", "down"},
           ~StateChanged(metric[p], now), metric' = [metric EXCEPT ![p] = now]
    PROVE  Readings \subseteq Readings'
  <1> SUFFICES ASSUME NEW m \in Readings, NEW x \in Reported
               PROVE  m[x] = "unknown" \/ metric'[x] \in {m[x], Old(m[x])}
    BY DEF Readings
  <1>1. m[x] \in {"up", "down", "unknown"}
        /\ (m[x] = "unknown" \/ metric[x] \in {m[x], Old(m[x])})
    BY DEF Readings
  <1>2. CASE x # p
    BY <1>1, <1>2 DEF StateOK
  <1>3. CASE x = p
    <2>1. metric'[x] = now /\ metric[x] \in {now, Old(now)}
      BY <1>3 DEF StateOK, StateChanged
    <2> QED
      BY <1>1, <2>1 DEF Old
  <1> QED
    BY <1>2, <1>3

\* A report that grows old does so too.
LEMMA AgeKeepsReadings ==
    ASSUME StateOK, NEW p \in Reported, MetricAges(p)
    PROVE  Readings \subseteq Readings'
  <1> SUFFICES ASSUME NEW m \in Readings, NEW x \in Reported
               PROVE  m[x] = "unknown" \/ metric'[x] \in {m[x], Old(m[x])}
    BY DEF Readings
  <1>1. m[x] \in {"up", "down", "unknown"}
        /\ (m[x] = "unknown" \/ metric[x] \in {m[x], Old(m[x])})
    BY DEF Readings
  <1>2. CASE x # p
    BY <1>1, <1>2 DEF StateOK, MetricAges
  <1>3. CASE x = p
    <2>1. metric[x] \in {"up", "down"} /\ metric'[x] = Old(metric[x])
      BY <1>3 DEF StateOK, MetricAges
    <2> QED
      BY <1>1, <2>1 DEF Old
  <1> QED
    BY <1>2, <1>3

\* The cache stays current in a step that leaves it, the policy and the
\* stamps alone and every reading possible.
LEMMA SameCache ==
    ASSUME CacheIsCurrent, UNCHANGED <<cache, policy, stamp>>,
           ~flushing' => ~flushing, ~bumping' => ~bumping, Readings \subseteq Readings'
    PROVE  CacheIsCurrent'
  BY DEF CacheIsCurrent

\* What links may have made of the reports depends on the reports only.
LEMMA SameReadings == ASSUME metric' = metric PROVE Readings' = Readings
  BY DEF Readings

-----------------------------------------------------------------------------
(* The steps. *)

\* A handler that moves on without touching the cache.
LEMMA MovesOn ==
    ASSUME IInv, UNCHANGED <<policy, metric, stamp, cache, flushing, bumping>>,
           StateOK', BuildsLocked', StampsPast', FirstReads'
    PROVE  IInv'
  BY SameCache, SameReadings DEF IInv

\* A bootstrap reads the rows.
LEMMA ReadRowsStep == ASSUME IInv, NEW h \in Handlers, ReadRows(h) PROVE IInv'
  <1>1. StateOK' /\ BuildsLocked' /\ StampsPast' /\ FirstReads'
    BY DEF IInv, ReadRows, StateOK, BuildsLocked, StampsPast, FirstReads
  <1> QED
    BY <1>1, MovesOn DEF ReadRows

\* The key takes the stamp of now, before the lock.
LEMMA MakeKeyStep == ASSUME IInv, NEW h \in Handlers, MakeKey(h) PROVE IInv'
  <1>1. StateOK' /\ BuildsLocked' /\ FirstReads'
    BY DEF IInv, MakeKey, StateOK, BuildsLocked, FirstReads
  <1>2. req'[h].stamp = stamp /\ \A g \in Handlers : g # h => req'[g] = req[g] /\ pc'[g] = pc[g]
    BY DEF IInv, StateOK, MakeKey
  <1>3. StampsPast'
    BY <1>2 DEF IInv, StateOK, MakeKey, StampsPast
  <1> QED
    BY <1>1, <1>3, MovesOn DEF MakeKey

\* The handler that misses takes the lock and reads blocks and degree of now.
LEMMA LookupStep == ASSUME IInv, NEW h \in Handlers, Lookup(h) PROVE IInv'
  <1>1. CASE pc' = [pc EXCEPT ![h] = "idle"] /\ req' = [req EXCEPT ![h] = Idle] /\ lock' = lock
    <2>1. StateOK' /\ BuildsLocked' /\ StampsPast' /\ FirstReads'
      BY <1>1 DEF IInv, Lookup, StateOK, BuildsLocked, StampsPast, FirstReads
    <2> QED
      BY <2>1, MovesOn DEF Lookup
  <1>2. CASE /\ lock' = h /\ pc' = [pc EXCEPT ![h] = "build"]
             /\ req' = [req EXCEPT ![h] = [key |-> req[h], blocked |-> policy.blocked,
                                           degree |-> policy.degree]]
    <2>1. StateOK'
      BY <1>2 DEF IInv, Lookup, StateOK
    <2>2. \A g \in Handlers : pc[g] # "build"
      BY LinkCacheConstants DEF IInv, Lookup, BuildsLocked
    <2>3. /\ req'[h].key = req[h]
          /\ req'[h].blocked = policy.blocked /\ req'[h].degree = policy.degree
          /\ pc[h] = "key" /\ pc'[h] = "build"
          /\ \A g \in Handlers : g # h => req'[g] = req[g] /\ pc'[g] = pc[g]
      BY <1>2 DEF IInv, StateOK, Lookup
    <2>4. BuildsLocked' /\ FirstReads'
      BY <1>2, <2>2, <2>3 DEF Lookup, BuildsLocked, FirstReads
    <2>5. StampsPast'
      BY <2>2, <2>3 DEF IInv, Lookup, StampsPast
    <2> QED
      BY <2>1, <2>4, <2>5, MovesOn DEF Lookup
  <1> QED
    BY <1>1, <1>2 DEF Lookup

\* When nothing is to be invalidated, what links has seen is the policy.
LEMMA SeenIsPolicy ==
    ASSUME IInv, NEW h \in Handlers, pc[h] = "build", ~flushing
    PROVE  [policy EXCEPT !.blocked = req[h].blocked, !.degree = req[h].degree] = policy
  <1>1. req[h].blocked = policy.blocked /\ req[h].degree = policy.degree /\ policy \in LinkPolicies
    BY DEF IInv, FirstReads, StateOK
  <1> QED
    BY <1>1 DEF LinkPolicies

\* The new entry is current, or an invalidation is due.
LEMMA StoreStep == ASSUME IInv, NEW h \in Handlers, Store(h) PROVE IInv'
  <1> DEFINE seen == [policy EXCEPT !.blocked = req[h].blocked, !.degree = req[h].degree]
             entry == [key |-> req[h].key,
                       links |-> Links(req[h].key.view, seen, Ranked(metric))]
  <1>1. /\ pc[h] = "build" /\ cache' = cache \cup {entry} /\ lock' = NoOne
        /\ pc' = [pc EXCEPT ![h] = "idle"] /\ req' = [req EXCEPT ![h] = Idle]
        /\ UNCHANGED <<policy, metric, stamp, flushing, bumping>>
    BY DEF Store, Done
  <1>2. entry.key = req[h].key /\ entry.links = Links(entry.key.view, seen, Ranked(metric))
    OBVIOUS
  <1>3. ~flushing => seen = policy
    BY <1>1, SeenIsPolicy
  <1>4. Ranked(metric) \in Readings
    BY RankedIsAReading DEF IInv
  <1> HIDE DEF seen, entry
  <1>5. StateOK'
    BY <1>1 DEF IInv, StateOK
  <1>6. \A g \in Handlers : pc'[g] # "build"
    BY <1>1 DEF IInv, StateOK, BuildsLocked
  <1>7. BuildsLocked' /\ FirstReads'
    BY <1>6 DEF BuildsLocked, FirstReads
  <1>8. \A g \in Handlers : g # h => pc'[g] = pc[g] /\ req'[g] = req[g]
    BY <1>1 DEF IInv, StateOK
  <1>9. StampsPast'
    <2>1. entry.key.stamp \in Nat /\ entry.key.stamp <= stamp
      BY <1>1, <1>2 DEF IInv, StampsPast
    <2>2. pc'[h] = "idle"
      BY <1>1 DEF IInv, StateOK
    <2> QED
      BY <1>1, <1>8, <2>1, <2>2 DEF IInv, StampsPast
  <1>10. CacheIsCurrent'
    <2>1. Readings' = Readings
      BY <1>1, SameReadings
    <2>2. ~flushing => \E m \in Readings : entry.links = Links(entry.key.view, policy, m)
      BY <1>2, <1>3, <1>4
    <2> QED
      BY <1>1, <2>1, <2>2 DEF IInv, CacheIsCurrent
  <1> QED
    BY <1>5, <1>7, <1>9, <1>10 DEF IInv

\* A panic empties the cache.
LEMMA PanicStep ==
    ASSUME IInv, NEW h \in Handlers, RequestPanics(h) \/ PushPanics(h) PROVE IInv'
  <1>1. CASE RequestPanics(h)
    <2>1. CacheIsCurrent'
      BY <1>1 DEF RequestPanics, CacheIsCurrent
    <2>2. StateOK'
      BY <1>1 DEF IInv, RequestPanics, Done, StateOK
    <2>3. BuildsLocked' /\ StampsPast' /\ FirstReads'
      BY <1>1 DEF IInv, RequestPanics, Done, StateOK, BuildsLocked, StampsPast, FirstReads
    <2> QED
      BY <2>1, <2>2, <2>3 DEF IInv
  <1>2. CASE PushPanics(h)
    <2>1. CacheIsCurrent' /\ BuildsLocked' /\ StampsPast' /\ FirstReads'
      BY <1>2 DEF PushPanics, CacheIsCurrent, BuildsLocked, StampsPast, FirstReads
    <2>2. StateOK'
      BY <1>2 DEF IInv, PushPanics, StateOK, Reports
    <2> QED
      BY <2>1, <2>2 DEF IInv
  <1> QED
    BY <1>1, <1>2

\* After a commit every entry may be outdated until the invalidation, which
\* waits for the handler that builds.
LEMMA AdminStep ==
    ASSUME IInv, AdminInvalidate \/ \E next \in Policies : AdminCommit(next) PROVE IInv'
  <1>1. CASE AdminInvalidate
    <2>1. \A g \in Handlers : pc[g] # "build"
      BY <1>1, LinkCacheConstants DEF IInv, AdminInvalidate, BuildsLocked
    <2> QED
      BY <1>1, <2>1 DEF IInv, AdminInvalidate, StateOK, BuildsLocked, StampsPast, FirstReads,
                        CacheIsCurrent
  <1>2. ASSUME NEW next \in Policies, AdminCommit(next) PROVE IInv'
    BY <1>2, LinkCacheConstants DEF IInv, AdminCommit, StateOK, BuildsLocked, StampsPast,
                                    FirstReads, CacheIsCurrent
  <1> QED
    BY <1>1, <1>2

\* A changed report makes entries outdated until the stamp moves on, and no
\* entry has the next stamp yet.
LEMMA MetricStep ==
    ASSUME IInv,
           \/ \E p \in Reported, now \in {"up", "down"} : UpdateLinkMetrics(p, now)
           \/ BumpStamp
           \/ \E p \in Reported : MetricAges(p)
    PROVE  IInv'
  <1>1. ASSUME NEW p \in Reported, NEW now \in {"up", "down"}, UpdateLinkMetrics(p, now)
        PROVE  IInv'
    <2>1. StateOK'
      BY <1>1 DEF IInv, UpdateLinkMetrics, StateOK, Reports, StateChanged
    <2>2. BuildsLocked' /\ StampsPast' /\ FirstReads'
      BY <1>1 DEF IInv, UpdateLinkMetrics, BuildsLocked, StampsPast, FirstReads
    <2>3. CASE StateChanged(metric[p], now)
      BY <1>1, <2>1, <2>2, <2>3 DEF IInv, UpdateLinkMetrics, CacheIsCurrent
    <2>4. CASE ~StateChanged(metric[p], now)
      <3>1. Readings \subseteq Readings'
        BY <1>1, <2>4, ReportKeepsReadings DEF IInv, UpdateLinkMetrics
      <3>2. CacheIsCurrent'
        BY <1>1, <3>1, SameCache DEF IInv, UpdateLinkMetrics
      <3> QED
        BY <2>1, <2>2, <3>2 DEF IInv
    <2> QED
      BY <2>3, <2>4
  <1>2. CASE BumpStamp
    <2>1. stamp' \in Nat
      BY <1>2 DEF IInv, BumpStamp, StateOK
    <2>2. StateOK' /\ BuildsLocked' /\ FirstReads'
      BY <1>2, <2>1, Zenon DEF IInv, BumpStamp, StateOK, BuildsLocked, FirstReads
    <2>3. StampsPast'
      BY <1>2 DEF IInv, BumpStamp, StateOK, StampsPast
    <2>4. \A entry \in cache : entry.key.stamp # stamp'
      BY <1>2 DEF IInv, BumpStamp, StateOK, StampsPast
    <2>5. CacheIsCurrent'
      BY <1>2, <2>4 DEF BumpStamp, CacheIsCurrent
    <2> QED
      BY <2>2, <2>3, <2>5 DEF IInv
  <1>3. ASSUME NEW p \in Reported, MetricAges(p) PROVE IInv'
    <2>1. StateOK'
      BY <1>3 DEF IInv, MetricAges, StateOK, Reports, Old
    <2>2. BuildsLocked' /\ StampsPast' /\ FirstReads'
      BY <1>3 DEF IInv, MetricAges, BuildsLocked, StampsPast, FirstReads
    <2>3. CacheIsCurrent'
      BY <1>3, AgeKeepsReadings, SameCache DEF IInv, MetricAges
    <2> QED
      BY <2>1, <2>2, <2>3 DEF IInv
  <1> QED
    BY <1>1, <1>2, <1>3

-----------------------------------------------------------------------------
(* The theorems. *)

\* An empty cache is current.
LEMMA CacheInit == Init => IInv
  <1> SUFFICES ASSUME Init PROVE IInv
    OBVIOUS
  <1>1. StateOK
    BY LinkCacheConstants DEF Init, StateOK, Reports
  <1> QED
    BY <1>1 DEF Init, IInv, BuildsLocked, StampsPast, FirstReads, CacheIsCurrent

\* Every step preserves the invariant.
LEMMA CacheStep == IInv /\ [Next]_vars => IInv'
  <1> SUFFICES ASSUME IInv, [Next]_vars PROVE IInv'
    OBVIOUS
  <1>1. CASE UNCHANGED vars \/ \E n \in Nodes, kind \in Kinds : NodeChanges(n, kind)
    <2>1. UNCHANGED <<policy, metric, stamp, cache, lock, pc, req, flushing, bumping>>
      BY <1>1 DEF NodeChanges, vars
    <2>2. StateOK' /\ BuildsLocked' /\ StampsPast' /\ FirstReads'
      BY <2>1 DEF IInv, StateOK, BuildsLocked, StampsPast, FirstReads
    <2> QED
      BY <2>1, <2>2, MovesOn
  <1>2. CASE \E h \in Handlers : Bootstrap(h)
    BY <1>2, ReadRowsStep, MakeKeyStep, LookupStep, StoreStep, PanicStep DEF Bootstrap
  <1> QED
    BY <1>1, <1>2, AdminStep, MetricStep DEF Next

\* The invariant holds in every state the coordinator reaches.
THEOREM CacheInvariant == Spec => []IInv
  BY CacheInit, CacheStep, PTL DEF Spec

\* Once edits are invalidated and reports are stamped, every entry that a
\* lookup can hit holds the links of now, although links read the policy and
\* the reports at different times.
THEOREM CurrentCache == Spec => []CacheIsCurrent
  <1>1. IInv => CacheIsCurrent
    BY DEF IInv
  <1> QED
    BY <1>1, CacheInvariant, PTL

-----------------------------------------------------------------------------
(* Counting up, and folding a list from the left. *)

\* Induction up to n, on the set of the numbers for which a fact holds.
LEMMA CountUp ==
    ASSUME NEW n \in Nat, NEW B, 0 \in B, \A i \in 0 .. n - 1 : i \in B => i + 1 \in B
    PROVE  \A i \in 0 .. n : i \in B
  <1> DEFINE R == {ss \in Nat \X Nat : ss[1] < ss[2]}
             Bad == {i \in 0 .. n : i \notin B}
  <1> SUFFICES ASSUME Bad # {} PROVE FALSE
    OBVIOUS
  <1>1. IsWellFoundedOn(R, Nat)
    BY NatLessThanWellFounded, Zenon DEF OpToRel
  <1> HIDE DEF R
  <1>2. Bad \in SUBSET Nat
    OBVIOUS
  <1>3. PICK x \in Bad : \A y \in Bad : ~ (<<y, x>> \in R)
    BY <1>1, <1>2, WFMin
  <1>4. x \in 0 .. n /\ x \notin B /\ x # 0
    OBVIOUS
  <1>5. x - 1 \in 0 .. n - 1 /\ x - 1 \in 0 .. n /\ x - 1 \in Nat /\ x - 1 < x
    BY <1>4
  <1>6. <<x - 1, x>> \in R
    BY <1>5, <1>4 DEF R
  <1>7. x - 1 \in B
    BY <1>3, <1>5, <1>6
  <1>8. x - 1 + 1 \in B
    BY <1>5, <1>7
  <1> QED
    BY <1>4, <1>8

\* The largest element of a set of numbers up to m that has m.
LEMMA MaxUpTo ==
    ASSUME NEW m \in Nat, NEW s \in SUBSET (1..m), m \in s
    PROVE  Max(s) = m
  <1>1. m \in s /\ \A y \in s : m >= y
    OBVIOUS
  <1>2. \A x \in s : (\A y \in s : x >= y) => x = m
    OBVIOUS
  <1> QED
    BY <1>1, <1>2 DEF Max

\* A set of numbers up to n that is not empty has a largest element.
LEMMA MaxOfSome ==
    ASSUME NEW n \in Nat, NEW s \in SUBSET (1..n), s # {}
    PROVE  Max(s) \in s
  <1> DEFINE B == {m \in 0..n : \A t \in SUBSET (1..m) : t # {} => \E x \in t : \A y \in t : x >= y}
  <1>1. 0 \in B
    <2>1. \A t \in SUBSET (1..0) : t = {}
      OBVIOUS
    <2>2. 0 \in 0..n
      OBVIOUS
    <2> QED
      BY <2>1, <2>2, Zenon
  <1>2. ASSUME NEW m \in 0..n - 1, m \in B PROVE m + 1 \in B
    <2> SUFFICES ASSUME NEW t \in SUBSET (1..(m + 1)), t # {}
                 PROVE  \E x \in t : \A y \in t : x >= y
      OBVIOUS
    <2>1. CASE m + 1 \in t
      <3>1. \A y \in t : m + 1 >= y
        OBVIOUS
      <3> QED
        BY <2>1, <3>1
    <2>2. CASE m + 1 \notin t
      <3>1. t \in SUBSET (1..m)
        BY <2>2
      <3> QED
        BY <1>2, <3>1
    <2> QED
      BY <2>1, <2>2
  <1> HIDE DEF B
  <1>3. \A m \in 0..n : m \in B
    BY <1>1, <1>2, CountUp
  <1>4. n \in B
    BY <1>3
  <1>5. \E x \in s : \A y \in s : x >= y
    BY <1>4 DEF B
  <1> QED
    BY <1>5 DEF Max

\* The longest list is what the shorter one is and one element.
LEMMA UpTo ==
    ASSUME NEW n \in Nat, NEW k \in 1..n
    PROVE  /\ 1..k \in SUBSET (1..n) /\ 1..k # {}
           /\ Max(1..k) = k
           /\ (1..k) \ {k} = 1..(k - 1)
  <1>1. k \in 1..k /\ k \in Nat
    OBVIOUS
  <1>2. Max(1..k) = k
    BY <1>1, MaxUpTo
  <1> QED
    BY <1>1, <1>2

\* F is the fold of step over the numbers up to n, from the largest number down.
Folds(F, n, base, step) ==
    \A s \in SUBSET (1..n) : F[s] = IF s = {} THEN base ELSE step[<<Max(s), F[s \ {Max(s)}]>>]

\* A fold is defined: the function that FoldLeft chooses exists.
LEMMA FoldExists ==
    ASSUME NEW n \in Nat, NEW D, NEW base \in D, NEW step \in [(1..n) \X D -> D]
    PROVE  \E F \in [SUBSET (1..n) -> D] : Folds(F, n, base, step)
  <1> DEFINE B == {m \in 0..n : \E F \in [SUBSET (1..m) -> D] : Folds(F, m, base, step)}
  <1>1. 0 \in B
    <2> DEFINE F == [s \in SUBSET (1..0) |-> base]
    <2>1. \A s \in SUBSET (1..0) : s = {}
      OBVIOUS
    <2>2. F \in [SUBSET (1..0) -> D]
      OBVIOUS
    <2>3. \A s \in SUBSET (1..0) :
             F[s] = IF s = {} THEN base ELSE step[<<Max(s), F[s \ {Max(s)}]>>]
      BY <2>1
    <2>4. 0 \in 0..n
      OBVIOUS
    <2> HIDE DEF F
    <2> QED
      BY <2>2, <2>3, <2>4 DEF Folds
  <1>2. ASSUME NEW m \in 0..n - 1, m \in B PROVE m + 1 \in B
    <2>1. PICK F \in [SUBSET (1..m) -> D] : Folds(F, m, base, step)
      BY <1>2
    <2> DEFINE G == [s \in SUBSET (1..(m + 1)) |->
                       IF m + 1 \in s THEN step[<<m + 1, F[s \ {m + 1}]>>] ELSE F[s]]
    <2>2. m + 1 \in 0..n /\ m + 1 \in 1..n /\ m + 1 \in Nat
      OBVIOUS
    <2>3. ASSUME NEW s \in SUBSET (1..(m + 1))
          PROVE  s \ {m + 1} \in SUBSET (1..m) /\ (m + 1 \notin s => s \in SUBSET (1..m))
      OBVIOUS
    <2>4. G \in [SUBSET (1..(m + 1)) -> D]
      BY <2>2, <2>3
    <2>5. ASSUME NEW s \in SUBSET (1..(m + 1))
          PROVE  G[s] = IF s = {} THEN base ELSE step[<<Max(s), G[s \ {Max(s)}]>>]
      <3>1. CASE m + 1 \in s
        <4>1. Max(s) = m + 1
          BY <2>2, <3>1, MaxUpTo
        <4>2. G[s \ {m + 1}] = F[s \ {m + 1}]
          BY <2>3
        <4> QED
          BY <3>1, <4>1, <4>2
      <3>2. CASE m + 1 \notin s
        <4>1. s \in SUBSET (1..m) /\ G[s] = F[s]
          BY <2>3, <3>2
        <4> DEFINE r == s \ {Max(s)}
        <4>2. r \in SUBSET (1..(m + 1)) /\ m + 1 \notin r
          BY <3>2
        <4>3. G[r] = F[r]
          BY <4>2
        <4>4. F[s] = IF s = {} THEN base ELSE step[<<Max(s), F[r]>>]
          BY <2>1, <4>1 DEF Folds
        <4> QED
          BY <4>1, <4>3, <4>4
      <3> QED
        BY <3>1, <3>2
    <2> HIDE DEF G
    <2> QED
      BY <2>2, <2>4, <2>5 DEF Folds
  <1> HIDE DEF B
  <1>3. \A m \in 0..n : m \in B
    BY <1>1, <1>2, CountUp
  <1>4. n \in B
    BY <1>3
  <1> QED
    BY <1>4 DEF B

\* What removeBlockedEdges has kept after k of the links.
LEMMA RemoveBlockedFold ==
    ASSUME NEW E, NEW edges \in Seq(E), NEW blocked
    PROVE  \E G : /\ G[0] = <<>>
                  /\ \A k \in 1..Len(edges) :
                       G[k] = IF EdgeKey(edges[k]) \in blocked THEN G[k - 1]
                                                               ELSE Append(G[k - 1], edges[k])
                  /\ RemoveBlockedEdges(edges, blocked) = G[Len(edges)]
  <1> DEFINE n == Len(edges)
             step == [x \in (1..n) \X Seq(E) |->
                        IF EdgeKey(edges[x[1]]) \in blocked THEN x[2] ELSE Append(x[2], edges[x[1]])]
  <1>1. n \in Nat /\ DOMAIN edges = 1..n /\ <<>> \in Seq(E)
    OBVIOUS
  <1>2. ASSUME NEW k \in 1..n, NEW s \in Seq(E)
        PROVE  (IF EdgeKey(edges[k]) \in blocked THEN s ELSE Append(s, edges[k])) \in Seq(E)
    OBVIOUS
  <1>3. step \in [(1..n) \X Seq(E) -> Seq(E)]
    BY <1>2
  <1> HIDE DEF step
  <1>4. PICK F \in [SUBSET (1..n) -> Seq(E)] : Folds(F, n, <<>>, step)
    BY <1>1, <1>3, FoldExists
  <1> DEFINE Rec(f) == f = [s \in SUBSET (1..n) |-> IF s = {} THEN <<>> ELSE
                           IF EdgeKey(edges[Max(s)]) \in blocked THEN f[s \ {Max(s)}]
                           ELSE Append(f[s \ {Max(s)}], edges[Max(s)])]
  <1>5. ASSUME NEW s \in SUBSET (1..n), s # {} PROVE Max(s) \in 1..n
    BY <1>5, <1>1, MaxOfSome
  <1>6. Rec(F)
    BY <1>4, <1>5 DEF step, Folds
  <1>7. PICK f : Rec(f) /\ RemoveBlockedEdges(edges, blocked) = f[1..n]
    BY <1>1, <1>6, Zenon DEF RemoveBlockedEdges, FoldLeft, MapThenFoldSet
  <1> DEFINE G == [k \in 0..n |-> f[1..k]]
  <1>8. G[0] = <<>>
    BY <1>1, <1>7
  <1>9. ASSUME NEW k \in 1..n
        PROVE  G[k] = IF EdgeKey(edges[k]) \in blocked THEN G[k - 1] ELSE Append(G[k - 1], edges[k])
    <2>1. G[k] = f[1..k] /\ G[k - 1] = f[1..(k - 1)]
      BY <1>1
    <2>2. f[1..k] = IF EdgeKey(edges[k]) \in blocked THEN f[1..(k - 1)]
                                                     ELSE Append(f[1..(k - 1)], edges[k])
      BY <1>1, <1>7, UpTo
    <2> QED
      BY <2>1, <2>2
  <1>10. RemoveBlockedEdges(edges, blocked) = G[n]
    BY <1>1, <1>7
  <1> QED
    BY <1>8, <1>9, <1>10

\* What every step of a recursion preserves holds to the end.
LEMMA Stays ==
    ASSUME NEW n \in Nat, NEW D, NEW G, G[0] \in D,
           \A k \in 1..n : G[k - 1] \in D => G[k] \in D
    PROVE  \A k \in 0..n : G[k] \in D
  <1> DEFINE B == {k \in 0..n : G[k] \in D}
  <1>1. 0 \in B
    OBVIOUS
  <1>2. ASSUME NEW k \in 0..n - 1, k \in B PROVE k + 1 \in B
    <2>1. k + 1 \in 1..n /\ k + 1 - 1 = k /\ k + 1 \in 0..n
      OBVIOUS
    <2>2. G[k + 1] \in D
      BY <1>2, <2>1
    <2> QED
      BY <2>1, <2>2
  <1> HIDE DEF B
  <1>3. \A k \in 0..n : k \in B
    BY <1>1, <1>2, CountUp
  <1> QED
    BY <1>3 DEF B

\* removeBlockedEdges leaves links of the list, and none that is blocked.
LEMMA RemoveBlockedKeeps ==
    ASSUME NEW E, NEW edges \in Seq(E), NEW blocked
    PROVE  RemoveBlockedEdges(edges, blocked) \in Seq({e \in E : EdgeKey(e) \notin blocked})
  <1> DEFINE n == Len(edges)
             D == Seq({e \in E : EdgeKey(e) \notin blocked})
  <1>1. PICK G : /\ G[0] = <<>>
                 /\ \A k \in 1..n :
                      G[k] = IF EdgeKey(edges[k]) \in blocked THEN G[k - 1]
                                                              ELSE Append(G[k - 1], edges[k])
                 /\ RemoveBlockedEdges(edges, blocked) = G[n]
    BY RemoveBlockedFold
  <1>2. n \in Nat /\ n \in 0..n /\ G[0] \in D
    BY <1>1
  <1>3. ASSUME NEW k \in 1..n, G[k - 1] \in D PROVE G[k] \in D
    <2>1. edges[k] \in E
      OBVIOUS
    <2>2. CASE EdgeKey(edges[k]) \in blocked
      BY <1>1, <1>3, <2>2
    <2>3. CASE EdgeKey(edges[k]) \notin blocked
      <3>1. edges[k] \in {e \in E : EdgeKey(e) \notin blocked}
        BY <2>1, <2>3
      <3>2. Append(G[k - 1], edges[k]) \in D
        BY <1>3, <3>1
      <3> QED
        BY <1>1, <2>3, <3>2
    <2> QED
      BY <2>2, <2>3
  <1> HIDE DEF D
  <1>4. \A k \in 0..n : G[k] \in D
    BY <1>2, <1>3, Stays
  <1> QED
    BY <1>1, <1>2, <1>4 DEF D

\* The links between two different nodes of S.
Proper(S) == {e \in S \X S : e[1] # e[2]}

\* What backboneLinks has after k of its calls of add.
LEMMA AddLinkFold ==
    ASSUME NEW S, NEW list \in Seq(S \X S)
    PROVE  \E G : /\ G[0] = <<>>
                  /\ \A k \in 1..Len(list) : G[k] = AddLink(G[k - 1], list[k])
                  /\ FoldLeft(AddLink, <<>>, list) = G[Len(list)]
  <1> DEFINE n == Len(list)
             D == Seq(S \X S)
             step == [x \in (1..n) \X D |-> AddLink(x[2], list[x[1]])]
  <1>1. n \in Nat /\ DOMAIN list = 1..n /\ <<>> \in D
    OBVIOUS
  <1>2. ASSUME NEW k \in 1..n, NEW s \in D PROVE AddLink(s, list[k]) \in D
    BY DEF AddLink
  <1>3. step \in [(1..n) \X D -> D]
    BY <1>2
  <1> HIDE DEF step, D
  <1>4. PICK F \in [SUBSET (1..n) -> D] : Folds(F, n, <<>>, step)
    BY <1>1, <1>3, FoldExists
  <1> DEFINE Rec(f) == f = [s \in SUBSET (1..n) |-> IF s = {} THEN <<>> ELSE
                           AddLink(f[s \ {Max(s)}], list[Max(s)])]
  <1>5. ASSUME NEW s \in SUBSET (1..n), s # {} PROVE Max(s) \in 1..n
    BY <1>5, <1>1, MaxOfSome
  <1>6. Rec(F)
    BY <1>4, <1>5 DEF step, Folds
  <1>7. PICK f : Rec(f) /\ FoldLeft(AddLink, <<>>, list) = f[1..n]
    BY <1>1, <1>6, Zenon DEF FoldLeft, MapThenFoldSet
  <1> DEFINE G == [k \in 0..n |-> f[1..k]]
  <1>8. G[0] = <<>>
    BY <1>1, <1>7
  <1>9. ASSUME NEW k \in 1..n PROVE G[k] = AddLink(G[k - 1], list[k])
    <2>1. G[k] = f[1..k] /\ G[k - 1] = f[1..(k - 1)]
      BY <1>1
    <2>2. f[1..k] = AddLink(f[1..(k - 1)], list[k])
      BY <1>1, <1>7, UpTo
    <2> QED
      BY <2>1, <2>2
  <1>10. G[n] = f[1..n]
    BY <1>1
  <1>11. FoldLeft(AddLink, <<>>, list) = G[n]
    BY <1>7, <1>10, Zenon
  <1> QED
    BY <1>8, <1>9, <1>11

\* The closure add of backboneLinks lets no link of a node to itself pass.
LEMMA AddLinkProper ==
    ASSUME NEW S, NEW list \in Seq(S \X S)
    PROVE  FoldLeft(AddLink, <<>>, list) \in Seq(Proper(S))
  <1> DEFINE n == Len(list)
  <1>1. PICK G : /\ G[0] = <<>>
                 /\ \A k \in 1..n : G[k] = AddLink(G[k - 1], list[k])
                 /\ FoldLeft(AddLink, <<>>, list) = G[n]
    BY AddLinkFold
  <1>2. n \in Nat /\ n \in 0..n /\ G[0] \in Seq(Proper(S))
    BY <1>1
  <1>3. ASSUME NEW k \in 1..n, G[k - 1] \in Seq(Proper(S)) PROVE G[k] \in Seq(Proper(S))
    <2>1. list[k] \in S \X S
      OBVIOUS
    <2>2. list[k][1] # list[k][2] => list[k] \in Proper(S)
      BY <2>1 DEF Proper
    <2>3. AddLink(G[k - 1], list[k]) \in Seq(Proper(S))
      BY <1>3, <2>2 DEF AddLink
    <2> QED
      BY <1>1, <2>3
  <1>4. \A k \in 0..n : G[k] \in Seq(Proper(S))
    BY <1>2, <1>3, Stays
  <1> QED
    BY <1>1, <1>2, <1>4

\* Lists put one after another have the elements of every one of them.
LEMMA FlattenKeeps ==
    ASSUME NEW E, NEW seqs \in Seq(Seq(E))
    PROVE  /\ FlattenSeq(seqs) \in Seq(E)
           /\ \A k \in 1..Len(seqs) : \A j \in 1..Len(seqs[k]) :
                \E i \in 1..Len(FlattenSeq(seqs)) : FlattenSeq(seqs)[i] = seqs[k][j]
  <1> DEFINE n == Len(seqs)
             D == Seq(E)
             step == [x \in (1..n) \X D |-> x[2] \o seqs[x[1]]]
             Has(s, k) == \A j \in 1..Len(seqs[k]) : \E i \in 1..Len(s) : s[i] = seqs[k][j]
             Good(k) == {s \in Seq(E) : \A m \in 1..k : Has(s, m)}
  <1>1. n \in Nat /\ DOMAIN seqs = 1..n /\ <<>> \in D
    OBVIOUS
  <1>2. CASE n = 0
    BY <1>2, <1>1 DEF FlattenSeq
  <1>3. CASE n # 0
    <2>1. ASSUME NEW k \in 1..n, NEW s \in D PROVE s \o seqs[k] \in D
      OBVIOUS
    <2>2. step \in [(1..n) \X D -> D]
      BY <2>1
    <2> HIDE DEF step, D
    <2>3. PICK F \in [SUBSET (1..n) -> D] : Folds(F, n, <<>>, step)
      BY <1>1, <2>2, FoldExists
    <2> DEFINE g == [k \in 1..n |-> F[1..k]]
               Rec(f) == f = [i \in 1..n |-> IF i = 1 THEN seqs[i] ELSE f[i - 1] \o seqs[i]]
    <2>4. ASSUME NEW k \in 1..n PROVE F[1..k] = F[1..(k - 1)] \o seqs[k] /\ F[1..(k - 1)] \in D
      <3>1. /\ 1..k \in SUBSET (1..n) /\ 1..k # {}
            /\ Max(1..k) = k
            /\ (1..k) \ {k} = 1..(k - 1)
        BY <1>1, UpTo
      <3>2. 1..(k - 1) \in SUBSET (1..n)
        BY <1>1
      <3>3. F[1..k] = step[<<k, F[1..(k - 1)]>>]
        BY <2>3, <3>1 DEF Folds
      <3> QED
        BY <3>2, <3>3 DEF step
    <2>5. F[1..0] = <<>>
      <3>1. 1..0 = {} /\ {} \in SUBSET (1..n)
        OBVIOUS
      <3> QED
        BY <2>3, <3>1 DEF Folds
    <2>6. ASSUME NEW i \in 1..n
          PROVE  g[i] = IF i = 1 THEN seqs[i] ELSE g[i - 1] \o seqs[i]
      <3>1. CASE i = 1
        <4>1. i - 1 = 0 /\ seqs[i] \in Seq(E)
          BY <3>1
        <4>2. F[1..i] = <<>> \o seqs[i]
          BY <2>4, <2>5, <4>1
        <4>3. <<>> \o seqs[i] = seqs[i]
          BY <4>1
        <4> QED
          BY <3>1, <4>2, <4>3
      <3>2. CASE i # 1
        <4>1. i - 1 \in 1..n
          BY <1>1, <3>2
        <4> QED
          BY <2>4, <3>2, <4>1
      <3> QED
        BY <3>1, <3>2
    <2>7. Rec(g)
      BY <2>6
    <2> HIDE DEF g
    <2>8. PICK f : Rec(f) /\ FlattenSeq(seqs) = f[n]
      BY <1>3, <2>7, Zenon DEF FlattenSeq
    <2> DEFINE B == {k \in 0..n : k # 0 => f[k] \in Good(k)}
    <2>9. 0 \in B
      BY <1>1
    <2>10. ASSUME NEW k \in 0..n - 1, k \in B PROVE k + 1 \in B
      <3>1. k + 1 \in 1..n /\ k + 1 \in 0..n /\ k + 1 - 1 = k /\ seqs[k + 1] \in Seq(E)
        BY <1>1
      <3>2. CASE k = 0
        <4>1. f[k + 1] = seqs[k + 1]
          BY <2>8, <3>1, <3>2
        <4>2. \A m \in 1..(k + 1) : m = k + 1
          BY <3>2
        <4> QED
          BY <3>1, <4>1, <4>2
      <3>3. CASE k # 0
        <4>1. PICK s, t : s = f[k] /\ t = seqs[k + 1]
          OBVIOUS
        <4>2. f[k + 1] = s \o t
          <5>1. k + 1 # 1
            BY <3>3
          <5>2. PICK i \in 1..n : i = k + 1 /\ i # 1 /\ i - 1 = k
            BY <3>1, <5>1
          <5>3. f[i] = f[i - 1] \o seqs[i]
            BY <2>8, <5>2
          <5> QED
            BY <4>1, <5>2, <5>3
        <4>3. s \in Seq(E) /\ t \in Seq(E) /\ \A m \in 1..k : Has(s, m)
          BY <2>10, <3>1, <3>3, <4>1
        <4>4. /\ s \o t \in Seq(E) /\ Len(s \o t) = Len(s) + Len(t)
              /\ \A i \in 1..Len(s) : (s \o t)[i] = s[i] /\ i \in 1..Len(s \o t)
              /\ \A j \in 1..Len(t) : (s \o t)[Len(s) + j] = t[j] /\ Len(s) + j \in 1..Len(s \o t)
          BY <4>3
        <4>5. ASSUME NEW m \in 1..k PROVE Has(s \o t, m)
          BY <4>3, <4>4
        <4>6. Has(s \o t, k + 1)
          BY <4>1, <4>4
        <4>7. \A m \in 1..(k + 1) : m = k + 1 \/ m \in 1..k
          OBVIOUS
        <4> HIDE DEF Has
        <4>8. s \o t \in Good(k + 1)
          BY <4>4, <4>5, <4>6, <4>7
        <4> QED
          BY <3>1, <4>2, <4>8
      <3> QED
        BY <3>2, <3>3
    <2> HIDE DEF B
    <2>11. \A k \in 0..n : k \in B
      BY <1>1, <2>9, <2>10, CountUp
    <2>12. n \in B
      BY <1>1, <2>11
    <2>13. f[n] \in Good(n)
      BY <1>3, <2>12 DEF B
    <2>14. PICK r : r = FlattenSeq(seqs)
      OBVIOUS
    <2>15. r \in Good(n)
      BY <2>8, <2>13, <2>14, Zenon
    <2> HIDE DEF Has
    <2>16. r \in Seq(E) /\ \A m \in 1..n : Has(r, m)
      BY <2>15
    <2> QED
      BY <2>14, <2>16 DEF Has
  <1> QED
    BY <1>2, <1>3

-----------------------------------------------------------------------------
(* Orders, and the lists that are sorted by them. *)

\* before is a strict total order on S.
Orders(before, S) ==
    /\ \A x \in S : <<x, x>> \notin before
    /\ \A x, y, z \in S : <<x, y>> \in before /\ <<y, z>> \in before => <<x, z>> \in before
    /\ \A x, y \in S : x # y => <<x, y>> \in before \/ <<y, x>> \in before

\* A sorted list has every element of the set once.
LEMMA SortedLists ==
    ASSUME NEW S, IsFiniteSet(S), NEW before, Orders(before, S)
    PROVE  /\ Cardinality(S) \in Nat
           /\ Sorted(S, before) \in [1..Cardinality(S) -> S]
           /\ \A i, j \in 1..Cardinality(S) :
                 i # j => Sorted(S, before)[i] # Sorted(S, before)[j]
           /\ \A x \in S : \E i \in 1..Cardinality(S) : Sorted(S, before)[i] = x
           /\ \A i \in 1..Cardinality(S) :
                 Cardinality({y \in S : <<y, Sorted(S, before)[i]>> \in before}) = i - 1
  <1> DEFINE n == Cardinality(S)
             Below(x) == {y \in S : <<y, x>> \in before}
             rank == [x \in S |-> Cardinality(Below(x))]
  <1>1. n \in Nat
    BY FS_CardinalityType
  <1>2. ASSUME NEW x \in S
        PROVE  IsFiniteSet(Below(x)) /\ Cardinality(Below(x)) \in 0..n - 1
    <2>1. Below(x) \in SUBSET (S \ {x})
      BY DEF Orders
    <2>2. IsFiniteSet(S \ {x}) /\ Cardinality(S \ {x}) = n - 1
      BY FS_RemoveElement
    <2>3. IsFiniteSet(Below(x)) /\ Cardinality(Below(x)) <= n - 1
      BY <2>1, <2>2, FS_Subset
    <2>4. Cardinality(Below(x)) \in Nat
      BY <2>3, FS_CardinalityType
    <2> QED
      BY <1>1, <2>3, <2>4
  <1>3. rank \in [S -> 0..n - 1]
    BY <1>2
  <1>4. ASSUME NEW x \in S, NEW y \in S, <<x, y>> \in before PROVE rank[x] # rank[y]
    <2>1. Below(x) \in SUBSET Below(y) /\ x \in Below(y) /\ x \notin Below(x)
      BY <1>4 DEF Orders
    <2>2. Below(x) # Below(y)
      BY <2>1
    <2> QED
      BY <1>2, <2>1, <2>2, FS_Subset
  <1>5. rank \in Injection(S, 0..n - 1)
    BY <1>3, <1>4 DEF Orders, Injection, IsInjective
  <1>6. IsFiniteSet(0..n - 1) /\ Cardinality(0..n - 1) = n
    BY <1>1, FS_Interval
  <1>7. rank \in Surjection(S, 0..n - 1)
    BY <1>5, <1>6, FS_Injection
  <1>8. ASSUME NEW i \in 1..n PROVE \E x \in S : Cardinality(Below(x)) = i - 1
    <2>1. i - 1 \in 0..n - 1
      BY <1>1
    <2> QED
      BY <1>7, <2>1 DEF Surjection
  <1> DEFINE s == Sorted(S, before)
  <1>9. s = [i \in 1..n |-> CHOOSE x \in S : Cardinality(Below(x)) = i - 1]
    BY DEF Sorted
  <1>10. ASSUME NEW i \in 1..n PROVE s[i] \in S /\ Cardinality(Below(s[i])) = i - 1
    BY <1>8, <1>9
  <1> HIDE DEF s
  <1>11. s \in [1..n -> S]
    BY <1>9, <1>10
  <1>12. ASSUME NEW i \in 1..n, NEW j \in 1..n, i # j PROVE s[i] # s[j]
    <2>1. i - 1 # j - 1
      BY <1>12, <1>1
    <2> QED
      BY <1>10, <2>1
  <1>13. ASSUME NEW x \in S PROVE \E i \in 1..n : s[i] = x
    <2> DEFINE i == rank[x] + 1
    <2>1. rank[x] = Cardinality(Below(x)) /\ rank[x] \in 0..n - 1
      BY <1>3
    <2>2. i \in 1..n /\ i - 1 = rank[x]
      BY <1>1, <2>1
    <2>3. s[i] \in S /\ Cardinality(Below(s[i])) = i - 1
      BY <1>10, <2>2
    <2>4. rank[s[i]] = rank[x]
      BY <2>2, <2>3
    <2>5. s[i] = x
      BY <1>4, <2>3, <2>4 DEF Orders
    <2> QED
      BY <2>2, <2>5
  <1> QED
    BY <1>1, <1>10, <1>11, <1>12, <1>13 DEF s

\* The smaller and the larger of two numbers.
LEMMA OfTwo ==
    ASSUME NEW a \in Int, NEW b \in Int
    PROVE  /\ Min({a, b}) = IF a <= b THEN a ELSE b
           /\ Max({a, b}) = IF a >= b THEN a ELSE b
  <1>1. PICK m \in {a, b} : \A y \in {a, b} : m <= y
    OBVIOUS
  <1>2. PICK x \in {a, b} : \A y \in {a, b} : x >= y
    OBVIOUS
  <1>3. Min({a, b}) \in {a, b} /\ \A y \in {a, b} : Min({a, b}) <= y
    BY <1>1 DEF Min
  <1>4. Max({a, b}) \in {a, b} /\ \A y \in {a, b} : Max({a, b}) >= y
    BY <1>2 DEF Max
  <1> QED
    BY <1>3, <1>4

\* A sorted set as a list.
LEMMA SortedIsSeq ==
    ASSUME NEW S, IsFiniteSet(S), NEW before, Orders(before, S)
    PROVE  /\ Sorted(S, before) \in Seq(S)
           /\ Len(Sorted(S, before)) = Cardinality(S)
           /\ DOMAIN Sorted(S, before) = 1..Cardinality(S)
           /\ Cardinality(S) \in Nat
           /\ \A i, j \in 1..Cardinality(S) :
                 i # j => Sorted(S, before)[i] # Sorted(S, before)[j]
           /\ \A x \in S : \E i \in 1..Cardinality(S) : Sorted(S, before)[i] = x
  <1>1. /\ Cardinality(S) \in Nat
        /\ Sorted(S, before) \in [1..Cardinality(S) -> S]
        /\ \A i, j \in 1..Cardinality(S) :
              i # j => Sorted(S, before)[i] # Sorted(S, before)[j]
        /\ \A x \in S : \E i \in 1..Cardinality(S) : Sorted(S, before)[i] = x
    BY SortedLists
  <1>2. PICK n, s : n = Cardinality(S) /\ s = Sorted(S, before)
    OBVIOUS
  <1>3. s \in Seq(S) /\ Len(s) = n /\ DOMAIN s = 1..n
    BY <1>1, <1>2
  <1> QED
    BY <1>1, <1>2, <1>3

\* Something comes first: nothing is before it, and so it is before the others.
LEMMA FirstOfAll ==
    ASSUME NEW S, IsFiniteSet(S), S # {}, NEW before, Orders(before, S)
    PROVE  \E x \in S : \A y \in S \ {x} : <<x, y>> \in before
  <1>1. PICK n, s :
           /\ n \in Nat /\ n = Cardinality(S) /\ s \in [1..n -> S]
           /\ \A i \in 1..n : Cardinality({y \in S : <<y, s[i]>> \in before}) = i - 1
    BY SortedLists
  <1>2. n # 0
    BY <1>1, FS_EmptySet
  <1>3. 1 \in 1..n /\ 1 - 1 = 0 /\ s[1] \in S
    BY <1>1, <1>2
  <1> DEFINE T == {y \in S : <<y, s[1]>> \in before}
  <1>4. Cardinality(T) = 0
    BY <1>1, <1>3
  <1>5. IsFiniteSet(T)
    BY FS_Subset
  <1>6. T = {}
    BY <1>4, <1>5, FS_EmptySet
  <1>7. \A y \in S : <<y, s[1]>> \notin before
    BY <1>6
  <1> HIDE DEF T
  <1> QED
    BY <1>3, <1>7 DEF Orders

\* Identifiers are sorted.
LEMMA IdsIsSeq ==
    ASSUME NEW S \in SUBSET Nat, IsFiniteSet(S)
    PROVE  /\ Ids(S) \in Seq(S)
           /\ Len(Ids(S)) = Cardinality(S)
           /\ Cardinality(S) \in Nat
           /\ \A i, j \in 1..Cardinality(S) : i # j => Ids(S)[i] # Ids(S)[j]
           /\ \A x \in S : \E i \in 1..Cardinality(S) : Ids(S)[i] = x
  <1> DEFINE before == {p \in S \X S : p[1] < p[2]}
  <1>1. Orders(before, S)
    BY DEF Orders
  <1>2. Ids(S) = Sorted(S, before)
    BY DEF Ids
  <1> HIDE DEF before
  <1> QED
    BY <1>1, <1>2, SortedIsSeq

-----------------------------------------------------------------------------
(* The backbone. *)

\* backboneLinks goes through lists of pairs of superpeers; the first is the
\* ring.
LEMMA BackboneShape ==
    ASSUME NEW S \in SUBSET Nat, NEW superpeers \in Seq(S), NEW degree \in Nat,
           Len(superpeers) >= 2
    PROVE  \E list, rounds, rest, m :
              /\ rounds \in Seq(Seq(S \X S)) /\ rest \in Seq(S \X S)
              /\ m \in Nat /\ m >= 1 /\ Len(rounds) = m
              /\ rounds[1] = [j \in 1..Len(superpeers) |->
                    InOrder(superpeers[j], superpeers[((j - 1 + 1) % Len(superpeers)) + 1])]
              /\ list = FlattenSeq(rounds) \o rest
              /\ BackboneLinks(superpeers, degree) = FoldLeft(AddLink, <<>>, list)
  <1> DEFINE n == Len(superpeers)
             d == Min({Max({degree, 2}), n - 1})
             Step(k) == [i \in 1..n |-> InOrder(superpeers[i], superpeers[((i - 1 + k) % n) + 1])]
             half == n \div 2
             Across == [i \in 1..half |-> InOrder(superpeers[i], superpeers[i + half])]
             Ring == [k \in 1..Max({1, d \div 2}) |-> Step(k)]
             Tail2 == IF d % 2 = 1 THEN Across ELSE <<>>
             P == S \X S
  <1>1. n \in Nat /\ n >= 2
    OBVIOUS
  <1>2. PICK c \in Nat : c = Max({degree, 2}) /\ c >= 2
    <2>1. degree \in Int /\ 2 \in Int
      OBVIOUS
    <2>2. Max({degree, 2}) = IF degree >= 2 THEN degree ELSE 2
      BY <2>1, OfTwo
    <2> QED
      BY <2>2
  <1>3. d \in Nat /\ d >= 1
    <2>1. n - 1 \in Int /\ c \in Int
      BY <1>1
    <2>2. Min({c, n - 1}) = IF c <= n - 1 THEN c ELSE n - 1
      BY <2>1, OfTwo
    <2> QED
      BY <1>1, <1>2, <2>2
  <1>4. PICK h \in Nat : h = d \div 2
    BY <1>3
  <1>5. Max({1, d \div 2}) \in Nat /\ Max({1, d \div 2}) >= 1
    <2>1. 1 \in Int /\ h \in Int
      BY <1>4
    <2>2. Max({1, h}) = IF 1 >= h THEN 1 ELSE h
      BY <2>1, OfTwo
    <2> QED
      BY <1>4, <2>2
  <1>6. ASSUME NEW a \in S, NEW b \in S PROVE InOrder(a, b) \in P
    BY DEF InOrder
  <1>7. ASSUME NEW k \in Nat PROVE Step(k) \in Seq(P)
    <2>1. ASSUME NEW i \in 1..n PROVE ((i - 1 + k) % n) + 1 \in 1..n
      BY <1>1
    <2>2. ASSUME NEW i \in 1..n
          PROVE  InOrder(superpeers[i], superpeers[((i - 1 + k) % n) + 1]) \in P
      <3>1. PICK j \in 1..n : j = ((i - 1 + k) % n) + 1
        BY <2>1
      <3>2. superpeers[i] \in S /\ superpeers[j] \in S
        OBVIOUS
      <3>3. InOrder(superpeers[i], superpeers[j]) \in P
        BY <1>6, <3>2
      <3> QED
        BY <3>1, <3>3
    <2> QED
      BY <1>1, <2>2
  <1>8. Across \in Seq(P)
    <2>1. half \in Nat
      BY <1>1
    <2>2. ASSUME NEW i \in 1..half PROVE i \in 1..n /\ i + half \in 1..n
      BY <1>1
    <2>3. ASSUME NEW i \in 1..half PROVE InOrder(superpeers[i], superpeers[i + half]) \in P
      <3>1. PICK j \in 1..n : j = i + half
        BY <2>2
      <3>2. superpeers[i] \in S /\ superpeers[j] \in S
        BY <2>2
      <3>3. InOrder(superpeers[i], superpeers[j]) \in P
        BY <1>6, <3>2
      <3> QED
        BY <3>1, <3>3
    <2> QED
      BY <2>1, <2>3
  <1> HIDE DEF Step, Across, P
  <1>9. Ring \in Seq(Seq(P)) /\ Len(Ring) = Max({1, d \div 2}) /\ Ring[1] = Step(1)
    <2>1. PICK m \in Nat : m = Max({1, d \div 2}) /\ m >= 1
      BY <1>5
    <2>2. ASSUME NEW k \in 1..m PROVE Step(k) \in Seq(P)
      BY <1>7
    <2>3. /\ [k \in 1..m |-> Step(k)] \in Seq(Seq(P))
          /\ Len([k \in 1..m |-> Step(k)]) = m
      BY <2>2
    <2>4. [k \in 1..m |-> Step(k)][1] = Step(1)
      BY <2>1
    <2> QED
      BY <2>1, <2>3, <2>4
  <1> HIDE DEF Ring
  <1>10. Tail2 \in Seq(P)
    BY <1>8
  <1> HIDE DEF Tail2
  <1>11. BackboneLinks(superpeers, degree) = FoldLeft(AddLink, <<>>, FlattenSeq(Ring) \o Tail2)
    <2>1. ~ (n < 2)
      BY <1>1
    <2> QED
      BY <2>1, Zenon DEF BackboneLinks, Tail2, Ring, Step, Across
  <1>12. PICK list : list = FlattenSeq(Ring) \o Tail2
    OBVIOUS
  <1>13. BackboneLinks(superpeers, degree) = FoldLeft(AddLink, <<>>, list)
    BY <1>11, <1>12, Zenon
  <1>14. Ring[1] = [j \in 1..n |-> InOrder(superpeers[j], superpeers[((j - 1 + 1) % n) + 1])]
    BY <1>9 DEF Step
  <1>15. PICK m : m = Max({1, d \div 2}) /\ m \in Nat /\ m >= 1 /\ Len(Ring) = m
    BY <1>5, <1>9
  <1>16. Ring \in Seq(Seq(S \X S)) /\ Tail2 \in Seq(S \X S)
    BY <1>9, <1>10 DEF P
  <1> QED
    BY <1>12, <1>13, <1>14, <1>15, <1>16, Zenon

\* backboneLinks joins superpeers only, and none to itself.
LEMMA BackboneProper ==
    ASSUME NEW S \in SUBSET Nat, NEW superpeers \in Seq(S), NEW degree \in Nat
    PROVE  BackboneLinks(superpeers, degree) \in Seq(Proper(S))
  <1>1. CASE Len(superpeers) < 2
    BY <1>1 DEF BackboneLinks
  <1>2. CASE ~ (Len(superpeers) < 2)
    <2>1. Len(superpeers) >= 2
      BY <1>2
    <2>2. PICK list, rounds, rest, m :
             /\ rounds \in Seq(Seq(S \X S)) /\ rest \in Seq(S \X S)
             /\ m \in Nat /\ m >= 1 /\ Len(rounds) = m
             /\ rounds[1] = [j \in 1..Len(superpeers) |->
                   InOrder(superpeers[j], superpeers[((j - 1 + 1) % Len(superpeers)) + 1])]
             /\ list = FlattenSeq(rounds) \o rest
             /\ BackboneLinks(superpeers, degree) = FoldLeft(AddLink, <<>>, list)
      BY <2>1, BackboneShape
    <2>3. PICK P, flat : P = S \X S /\ flat = FlattenSeq(rounds)
      OBVIOUS
    <2>4. rounds \in Seq(Seq(P)) /\ rest \in Seq(P) /\ list = flat \o rest
      BY <2>2, <2>3
    <2>5. flat \in Seq(P)
      BY <2>3, <2>4, FlattenKeeps
    <2>6. list \in Seq(S \X S)
      BY <2>3, <2>4, <2>5
    <2>7. FoldLeft(AddLink, <<>>, list) \in Seq(Proper(S))
      BY <2>6, AddLinkProper
    <2> QED
      BY <2>2, <2>7, Zenon
  <1> QED
    BY <1>1, <1>2

-----------------------------------------------------------------------------
(* The links an administrator drew. *)

\* Two different nodes are a pair.
LEMMA PairOfTwo ==
    ASSUME NEW a \in Nodes, NEW b \in Nodes, a # b PROVE {a, b} \in Pairs
  <1>1. IsFiniteSet({a}) /\ Cardinality({a}) = 1
    BY FS_Singleton
  <1>2. Cardinality({a} \cup {b}) = Cardinality({a}) + 1
    BY <1>1, FS_AddElement
  <1>3. {a} \cup {b} = {a, b}
    OBVIOUS
  <1> QED
    BY <1>1, <1>2, <1>3 DEF Pairs

\* A pair has two different nodes.
LEMMA TwoOfPair ==
    ASSUME NEW e \in Pairs
    PROVE  \E a, b \in Nodes : a # b /\ e = {a, b}
  <1>1. e \in SUBSET Nodes /\ Cardinality(e) = 2
    BY DEF Pairs
  <1>2. IsFiniteSet(e)
    BY <1>1, LinkGraphConstants, FS_Subset
  <1>3. PICK f : f \in Bijection(1..2, e)
    BY <1>1, <1>2, FS_CardinalityType DEF ExistsBijection
  <1>4. /\ f \in [1..2 -> e]
        /\ \A i, j \in 1..2 : i # j => f[i] # f[j]
        /\ \A x \in e : \E i \in 1..2 : f[i] = x
    BY <1>3 DEF Bijection, Injection, Surjection, IsInjective
  <1>5. f[1] \in e /\ f[2] \in e /\ f[1] # f[2]
    BY <1>4
  <1>6. e = {f[1], f[2]}
    BY <1>4, <1>5
  <1> QED
    BY <1>1, <1>5, <1>6

\* manualLinksForNodes joins online nodes.
LEMMA ManualProper ==
    ASSUME NEW v \in Views, NEW p \in LinkPolicies
    PROVE  ManualLinksForNodes(v, p) \in Seq(Proper(Online(v)))
  <1> DEFINE S == Online(v)
             kept == {InOrder(Min(e), Max(e)) : e \in {x \in p.manual : x \subseteq Online(v)}}
             before == {ef \in kept \X kept : Lexical(ef[1], ef[2])}
  <1>1. S \in SUBSET Nodes /\ IsFiniteSet(S) /\ S \in SUBSET Nat
    <2>1. S \in SUBSET Nodes
      BY DEF Online
    <2> QED
      BY <2>1, LinkGraphConstants, FS_Subset
  <1>2. ASSUME NEW e \in p.manual, e \subseteq S PROVE InOrder(Min(e), Max(e)) \in Proper(S)
    <2>1. PICK a, b \in Nodes : a # b /\ e = {a, b}
      BY TwoOfPair DEF LinkPolicies
    <2>2. a \in S /\ b \in S /\ a \in Int /\ b \in Int
      BY <1>1, <1>2, <2>1
    <2>3. /\ Min({a, b}) = IF a <= b THEN a ELSE b
          /\ Max({a, b}) = IF a >= b THEN a ELSE b
      BY <2>2, OfTwo
    <2>4. Min({a, b}) \in S /\ Max({a, b}) \in S /\ Min({a, b}) # Max({a, b})
      BY <2>1, <2>2, <2>3
    <2>5. PICK lo, hi \in S : lo = Min(e) /\ hi = Max(e) /\ lo # hi
      BY <2>1, <2>4
    <2>6. InOrder(lo, hi) \in Proper(S)
      BY <2>5 DEF InOrder, Proper
    <2> QED
      BY <2>5, <2>6
  <1>3. kept \in SUBSET Proper(S)
    BY <1>2
  <1> HIDE DEF kept, S
  <1>4. IsFiniteSet(kept)
    <2>1. IsFiniteSet(S \X S)
      BY <1>1, FS_Product
    <2>2. kept \in SUBSET (S \X S)
      BY <1>3 DEF Proper
    <2> QED
      BY <2>1, <2>2, FS_Subset
  <1>5. Orders(before, kept)
    <2>1. ASSUME NEW e \in kept PROVE e[1] \in Nat /\ e[2] \in Nat /\ e = <<e[1], e[2]>>
      <3>1. e \in S \X S
        BY <1>3 DEF Proper
      <3>2. PICK a, b \in S : e = <<a, b>>
        BY <3>1
      <3> QED
        BY <1>1, <3>2
    <2>2. \A e \in kept : ~Lexical(e, e)
      BY <2>1 DEF Lexical
    <2>3. ASSUME NEW e \in kept, NEW f \in kept, NEW g \in kept, Lexical(e, f), Lexical(f, g)
          PROVE  Lexical(e, g)
      BY <2>1, <2>3 DEF Lexical
    <2>4. ASSUME NEW e \in kept, NEW f \in kept, e # f PROVE Lexical(e, f) \/ Lexical(f, e)
      BY <2>1, <2>4 DEF Lexical
    <2>5. \A e, f \in kept : <<e, f>> \in before <=> Lexical(e, f)
      OBVIOUS
    <2> HIDE DEF before
    <2> QED
      BY <2>2, <2>3, <2>4, <2>5 DEF Orders
  <1>6. ManualLinksForNodes(v, p) = Sorted(kept, before)
    BY DEF ManualLinksForNodes, kept
  <1> HIDE DEF before
  <1>7. Sorted(kept, before) \in Seq(kept)
    BY <1>4, <1>5, SortedIsSeq
  <1>8. \A q \in Seq(kept) : q \in Seq(Proper(S))
    BY <1>3
  <1> QED
    BY <1>6, <1>7, <1>8 DEF S

-----------------------------------------------------------------------------
(* The links of the clients. *)

\* What telemetryPeerOrder may read of the reports.
Readable(reports) == \A x \in DOMAIN reports : reports[x] \in {"up", "down", "unknown"}

\* The score of a peer is a number.
LEMMA ScoreType ==
    ASSUME NEW a \in Nodes, NEW b \in Nodes, NEW c \in Nodes
    PROVE  RendezvousScore(a, b, Capacity[c]) \in Int
  <1>1. Hash[<<a, b>>] \in Nat
    BY LinkGraphConstants
  <1>2. Capacity[c] \in Nat \ {0}
    BY LinkGraphConstants
  <1>3. PICK h \in Nat, k \in Nat \ {0} : h = Hash[<<a, b>>] /\ k = Capacity[c]
    BY <1>1, <1>2
  <1>4. h \div k \in Int
    OBVIOUS
  <1> QED
    BY <1>3, <1>4 DEF RendezvousScore

\* Two numbers and the identifier order the peers.
LEMMA ThreeKeys ==
    ASSUME NEW S \in SUBSET Nat, NEW f \in [S -> Nat], NEW g \in [S -> Int], NEW before,
           \A p, q \in S : <<p, q>> \in before <=>
               \/ f[p] > f[q]
               \/ f[p] = f[q] /\ g[p] < g[q]
               \/ f[p] = f[q] /\ g[p] = g[q] /\ p < q
    PROVE  Orders(before, S)
  <1>1. \A p \in S : f[p] \in Nat /\ g[p] \in Int /\ p \in Nat
    OBVIOUS
  <1>2. \A x \in S : <<x, x>> \notin before
    BY <1>1
  <1>3. ASSUME NEW x \in S, NEW y \in S, NEW z \in S, <<x, y>> \in before, <<y, z>> \in before
        PROVE  <<x, z>> \in before
    BY <1>1, <1>3
  <1>4. ASSUME NEW x \in S, NEW y \in S, x # y PROVE <<x, y>> \in before \/ <<y, x>> \in before
    BY <1>1, <1>4
  <1> QED
    BY <1>2, <1>3, <1>4 DEF Orders

\* telemetryPeerOrder lists the peers.
LEMMA PeerOrderIsSeq ==
    ASSUME NEW client \in Nodes, NEW peers \in SUBSET Nodes, NEW reports, Readable(reports)
    PROVE  /\ TelemetryPeerOrder(client, peers, reports) \in Seq(peers)
           /\ Len(TelemetryPeerOrder(client, peers, reports)) = Cardinality(peers)
           /\ Cardinality(peers) \in Nat
           /\ \A i, j \in 1..Cardinality(peers) : i # j =>
                TelemetryPeerOrder(client, peers, reports)[i]
                    # TelemetryPeerOrder(client, peers, reports)[j]
           /\ \A q \in peers : \E i \in 1..Cardinality(peers) :
                TelemetryPeerOrder(client, peers, reports)[i] = q
  <1> DEFINE state(p) == IF <<client, p>> \in DOMAIN reports THEN MetricRank(reports[<<client, p>>])
                                                            ELSE 1
             score(p) == RendezvousScore(client, p, Capacity[p])
             better(p, q) ==
                \/ state(p) > state(q)
                \/ state(p) = state(q) /\ score(p) < score(q)
                \/ state(p) = state(q) /\ score(p) = score(q) /\ p < q
             before == {e \in peers \X peers : better(e[1], e[2])}
             f == [p \in peers |-> state(p)]
             g == [p \in peers |-> score(p)]
  <1>1. f \in [peers -> Nat]
    <2>1. \A m \in {"up", "down", "unknown"} : MetricRank(m) \in Nat
      BY DEF MetricRank
    <2> QED
      BY <2>1 DEF Readable
  <1>2. g \in [peers -> Int]
    BY ScoreType
  <1>3. peers \in SUBSET Nat /\ IsFiniteSet(peers)
    BY LinkGraphConstants, FS_Subset
  <1>4. TelemetryPeerOrder(client, peers, reports) = Sorted(peers, before)
    BY DEF TelemetryPeerOrder
  <1>5. \A p \in peers : state(p) = f[p] /\ score(p) = g[p]
    OBVIOUS
  <1>6. ASSUME NEW p \in peers, NEW q \in peers
        PROVE  <<p, q>> \in before <=>
               \/ f[p] > f[q]
               \/ f[p] = f[q] /\ g[p] < g[q]
               \/ f[p] = f[q] /\ g[p] = g[q] /\ p < q
    <2>1. <<p, q>> \in before <=> better(p, q)
      OBVIOUS
    <2> HIDE DEF before, f, g, state, score
    <2> QED
      BY <1>5, <2>1
  <1> HIDE DEF before, f, g
  <1>7. Orders(before, peers)
    BY <1>1, <1>2, <1>3, <1>6, ThreeKeys
  <1> QED
    BY <1>3, <1>4, <1>7, SortedIsSeq

\* What a round of addAutomaticClientLinks computes for a client: the nodes it
\* is linked to, the peers it may still be linked to, the links it wants.
LinkedTo(out, client) ==
    {q \in Nodes \ {client} : \E i \in DOMAIN out : EdgeKey(out[i]) = {client, q}}

FreeFor(out, client, peers, blocked) ==
    {q \in peers \ (LinkedTo(out, client) \cup {client}) : {client, q} \notin blocked}

Wanted(p, kind) == Max({1, IF kind = "symmetric" THEN p.symmetricLinks ELSE p.clientLinks})

\* A client gains links to the first of its free peers: as many as it wants,
\* or to all of them.
AttachShape(out, client, peers, blocked, p, kind, reports, order, added) ==
    LET free == FreeFor(out, client, peers, blocked)
        count == Cardinality(LinkedTo(out, client) \cap peers)
    IN  /\ order \in Seq(free) /\ Len(order) = Cardinality(free)
        /\ \A i, j \in 1..Len(order) : i # j => order[i] # order[j]
        /\ \A q \in free : \E i \in 1..Len(order) : order[i] = q
        /\ added \in 0..Len(order)
        /\ count \in Nat /\ Wanted(p, kind) \in Nat \ {0}
        /\ \/ count >= Wanted(p, kind)
           \/ added = Wanted(p, kind) - count
           \/ added = Len(order)
        /\ AttachClient(out, client, peers, blocked, p, kind, reports)
              = out \o [i \in 1..added |-> <<client, order[i]>>]

\* A round of addAutomaticClientLinks has this shape.
LEMMA AttachIsShaped ==
    ASSUME NEW out, NEW client \in Nodes, NEW peers \in SUBSET Nodes, NEW blocked,
           NEW p \in LinkPolicies, NEW kind, NEW reports, Readable(reports)
    PROVE  \E order, added :
              AttachShape(out, client, peers, blocked, p, kind, reports, order, added)
  <1> DEFINE want == Wanted(p, kind)
             connected == LinkedTo(out, client)
             count == Cardinality(connected \cap peers)
             free == FreeFor(out, client, peers, blocked)
             added == IF count >= want THEN 0 ELSE Min({want - count, Cardinality(free)})
  <1>1. PICK w \in Nat : w = IF kind = "symmetric" THEN p.symmetricLinks ELSE p.clientLinks
    BY DEF LinkPolicies
  <1>2. want \in Nat /\ want >= 1
    <2>1. 1 \in Int /\ w \in Int
      OBVIOUS
    <2>2. Max({1, w}) = IF 1 >= w THEN 1 ELSE w
      BY <2>1, OfTwo
    <2> QED
      BY <1>1, <2>2 DEF Wanted
  <1>3. count \in Nat
    <2>1. connected \cap peers \in SUBSET Nodes
      OBVIOUS
    <2>2. IsFiniteSet(connected \cap peers)
      BY <2>1, LinkGraphConstants, FS_Subset
    <2> QED
      BY <2>2, FS_CardinalityType
  <1>4. free \in SUBSET Nodes
    BY DEF FreeFor
  <1>5. PICK order : order = TelemetryPeerOrder(client, free, reports)
    OBVIOUS
  <1> HIDE DEF want, count, free, connected
  <1>6. /\ order \in Seq(free) /\ Len(order) = Cardinality(free) /\ Cardinality(free) \in Nat
        /\ \A i, j \in 1..Cardinality(free) : i # j => order[i] # order[j]
        /\ \A q \in free : \E i \in 1..Cardinality(free) : order[i] = q
    <2>1. PICK F \in SUBSET Nodes : F = free
      BY <1>4
    <2>2. /\ TelemetryPeerOrder(client, F, reports) \in Seq(F)
          /\ Len(TelemetryPeerOrder(client, F, reports)) = Cardinality(F)
          /\ Cardinality(F) \in Nat
          /\ \A i, j \in 1..Cardinality(F) : i # j =>
               TelemetryPeerOrder(client, F, reports)[i] # TelemetryPeerOrder(client, F, reports)[j]
          /\ \A q \in F : \E i \in 1..Cardinality(F) :
               TelemetryPeerOrder(client, F, reports)[i] = q
      BY PeerOrderIsSeq
    <2> QED
      BY <1>5, <2>1, <2>2
  <1>7. /\ added \in Nat /\ added <= Len(order)
        /\ count >= want \/ added = want - count \/ added = Len(order)
    <2>1. CASE count >= want
      BY <1>6, <2>1
    <2>2. CASE ~ (count >= want)
      <3>1. PICK a \in Int : a = want - count
        BY <1>2, <1>3
      <3>2. PICK b \in Int : b = Cardinality(free)
        BY <1>6
      <3>3. a \in Nat
        BY <1>2, <1>3, <2>2, <3>1
      <3>4. Min({a, b}) = IF a <= b THEN a ELSE b
        BY OfTwo
      <3> QED
        BY <1>6, <2>2, <3>1, <3>2, <3>3, <3>4
    <2> QED
      BY <2>1, <2>2
  <1>8. AttachClient(out, client, peers, blocked, p, kind, reports)
           = out \o [i \in 1..added |-> <<client, order[i]>>]
    <2>1. Len(TelemetryPeerOrder(client, free, reports)) = Cardinality(free)
      BY <1>5, <1>6
    <2> QED
      BY <1>5, <2>1 DEF AttachClient, count, want, free, connected, Wanted, FreeFor, LinkedTo
  <1> HIDE DEF added
  <1>9. AttachShape(out, client, peers, blocked, p, kind, reports, order, added)
    BY <1>2, <1>3, <1>6, <1>7, <1>8 DEF AttachShape, count, want, free, connected
  <1> QED
    BY <1>9

\* The links a client gains join it to other nodes.
LEMMA AttachProper ==
    ASSUME NEW S \in SUBSET Nodes, NEW out \in Seq(Proper(S)), NEW client \in S,
           NEW peers \in SUBSET S, NEW blocked, NEW p \in LinkPolicies, NEW kind,
           NEW reports, Readable(reports)
    PROVE  AttachClient(out, client, peers, blocked, p, kind, reports) \in Seq(Proper(S))
  <1>1. client \in Nodes /\ peers \in SUBSET Nodes
    OBVIOUS
  <1>2. PICK order, added :
           AttachShape(out, client, peers, blocked, p, kind, reports, order, added)
    BY <1>1, AttachIsShaped
  <1> DEFINE new == [i \in 1..added |-> <<client, order[i]>>]
  <1>3. /\ order \in Seq(FreeFor(out, client, peers, blocked)) /\ added \in 0..Len(order)
        /\ AttachClient(out, client, peers, blocked, p, kind, reports) = out \o new
    BY <1>2 DEF AttachShape
  <1>4. FreeFor(out, client, peers, blocked) \in SUBSET (S \ {client})
    BY DEF FreeFor
  <1>5. ASSUME NEW i \in 1..added PROVE <<client, order[i]>> \in Proper(S)
    <2>1. order[i] \in S \ {client}
      BY <1>3, <1>4
    <2> QED
      BY <2>1 DEF Proper
  <1>6. new \in Seq(Proper(S))
    BY <1>3, <1>5
  <1> HIDE DEF new
  <1>7. out \o new \in Seq(Proper(S))
    BY <1>6
  <1> QED
    BY <1>3, <1>7

\* The nodes that addAutomaticClientLinks goes through.
ClientsOf(v) == {n \in Nodes : v[n] \in Clients}

\* The clients are listed.
LEMMA ClientsListed ==
    ASSUME NEW v \in Views
    PROVE  /\ ClientsOf(v) \in SUBSET Online(v)
           /\ Online(v) \in SUBSET Nodes /\ Online(v) \in SUBSET Nat /\ IsFiniteSet(Online(v))
           /\ SuperpeerNodes(v) \in SUBSET Online(v)
           /\ IsFiniteSet(ClientsOf(v)) /\ IsFiniteSet(SuperpeerNodes(v))
           /\ Ids(ClientsOf(v)) \in Seq(ClientsOf(v))
           /\ Ids(SuperpeerNodes(v)) \in Seq(SuperpeerNodes(v))
  <1>1. ClientsOf(v) \in SUBSET Online(v) /\ SuperpeerNodes(v) \in SUBSET Online(v)
        /\ Online(v) \in SUBSET Nodes
    BY DEF ClientsOf, Clients, Online, SuperpeerNodes
  <1>2. /\ IsFiniteSet(Online(v)) /\ Online(v) \in SUBSET Nat
        /\ ClientsOf(v) \in SUBSET Nat /\ SuperpeerNodes(v) \in SUBSET Nat
    BY <1>1, LinkGraphConstants, FS_Subset
  <1>3. IsFiniteSet(ClientsOf(v)) /\ IsFiniteSet(SuperpeerNodes(v))
    BY <1>1, <1>2, FS_Subset
  <1> QED
    BY <1>1, <1>2, <1>3, IdsIsSeq

\* What addAutomaticClientLinks has after k of the clients.
LEMMA AttachFold ==
    ASSUME NEW v \in Views, NEW out \in Seq(Proper(Online(v))), NEW peers \in SUBSET Online(v),
           peers # {}, NEW blocked, NEW p \in LinkPolicies, NEW reports, Readable(reports)
    PROVE  \E G : /\ G[0] = out
                  /\ \A k \in 1..Len(Ids(ClientsOf(v))) :
                       G[k] = AttachClient(G[k - 1], Ids(ClientsOf(v))[k], peers, blocked, p,
                                           v[Ids(ClientsOf(v))[k]], reports)
                  /\ AddAutomaticClientLinks(out, v, peers, blocked, p, reports)
                        = G[Len(Ids(ClientsOf(v)))]
                  /\ \A k \in 0..Len(Ids(ClientsOf(v))) : G[k] \in Seq(Proper(Online(v)))
  <1>1. PICK list : list = Ids(ClientsOf(v))
    OBVIOUS
  <1> DEFINE n == Len(list)
             D == Seq(Proper(Online(v)))
             Attach(s, c) == AttachClient(s, c, peers, blocked, p, v[c], reports)
             step == [x \in (1..n) \X D |-> Attach(x[2], list[x[1]])]
  <1>2. list \in Seq(Online(v)) /\ Online(v) \in SUBSET Nodes
    BY <1>1, ClientsListed
  <1>3. n \in Nat /\ DOMAIN list = 1..n
    BY <1>2
  <1>4. ASSUME NEW k \in 1..n, NEW s \in D PROVE Attach(s, list[k]) \in D
    <2>1. list[k] \in Online(v)
      BY <1>2
    <2> QED
      BY <1>2, <2>1, AttachProper
  <1> HIDE DEF Attach
  <1>5. step \in [(1..n) \X D -> D]
    BY <1>4
  <1> HIDE DEF step, D
  <1>6. out \in D
    BY DEF D
  <1>7. PICK F \in [SUBSET (1..n) -> D] : Folds(F, n, out, step)
    BY <1>3, <1>5, <1>6, FoldExists
  <1> DEFINE Rec(f) == f = [s \in SUBSET (1..n) |-> IF s = {} THEN out ELSE
                           Attach(f[s \ {Max(s)}], list[Max(s)])]
  <1>8. ASSUME NEW s \in SUBSET (1..n), s # {} PROVE Max(s) \in 1..n
    BY <1>8, <1>3, MaxOfSome
  <1>9. Rec(F)
    BY <1>7, <1>8 DEF step, Folds
  <1>10. PICK f : Rec(f) /\ AddAutomaticClientLinks(out, v, peers, blocked, p, reports) = f[1..n]
    <2>1. Ids({c \in Nodes : v[c] \in Clients}) = list
      BY <1>1, Zenon DEF ClientsOf
    <2>2. \E f : Rec(f)
      BY <1>9, Zenon
    <2>3. AddAutomaticClientLinks(out, v, peers, blocked, p, reports)
             = FoldLeft(LAMBDA acc, c : Attach(acc, c), out, list)
      BY <2>1, Zenon DEF AddAutomaticClientLinks, FoldLeft, MapThenFoldSet, Attach
    <2>4. FoldLeft(LAMBDA acc, c : Attach(acc, c), out, list) = (CHOOSE f : Rec(f))[1..n]
      BY <1>3, Zenon DEF FoldLeft, MapThenFoldSet
    <2> QED
      BY <2>2, <2>3, <2>4, Zenon
  <1> DEFINE G == [k \in 0..n |-> f[1..k]]
  <1>11. G[0] = out
    BY <1>3, <1>10
  <1>12. ASSUME NEW k \in 1..n PROVE G[k] = Attach(G[k - 1], list[k])
    <2>1. G[k] = f[1..k] /\ G[k - 1] = f[1..(k - 1)]
      BY <1>3
    <2>2. f[1..k] = Attach(f[1..(k - 1)], list[k])
      BY <1>3, <1>10, UpTo
    <2> QED
      BY <2>1, <2>2
  <1>13. AddAutomaticClientLinks(out, v, peers, blocked, p, reports) = G[n]
    BY <1>3, <1>10
  <1> HIDE DEF G
  <1>14. \A k \in 1..n : G[k - 1] \in D => G[k] \in D
    BY <1>4, <1>12
  <1>15. \A k \in 0..n : G[k] \in D
    BY <1>3, <1>6, <1>11, <1>14, Stays
  <1> QED
    BY <1>1, <1>11, <1>12, <1>13, <1>15 DEF Attach, D

\* addAutomaticClientLinks joins online nodes.
LEMMA AutomaticProper ==
    ASSUME NEW v \in Views, NEW out \in Seq(Proper(Online(v))), NEW peers \in SUBSET Online(v),
           NEW blocked, NEW p \in LinkPolicies, NEW reports, Readable(reports)
    PROVE  AddAutomaticClientLinks(out, v, peers, blocked, p, reports) \in Seq(Proper(Online(v)))
  <1>1. CASE peers = {}
    BY <1>1 DEF AddAutomaticClientLinks
  <1>2. CASE peers # {}
    <2>1. PICK n : n = Len(Ids(ClientsOf(v)))
      OBVIOUS
    <2>2. PICK G : /\ AddAutomaticClientLinks(out, v, peers, blocked, p, reports) = G[n]
                   /\ \A k \in 0..n : G[k] \in Seq(Proper(Online(v)))
      BY <1>2, <2>1, AttachFold
    <2>3. n \in 0..n
      BY <2>1, ClientsListed
    <2> QED
      BY <2>2, <2>3
  <1> QED
    BY <1>1, <1>2

-----------------------------------------------------------------------------
(* The safety net. *)

\* One union: the root of a goes below the root of b.
Merge(S, root, e) == [n \in S |-> IF root[n] = root[e[1]] THEN root[e[2]] ELSE root[n]]

\* The roots after k of the links.
LEMMA RootsFold ==
    ASSUME NEW S, NEW edges \in Seq(S \X S)
    PROVE  \E G : /\ G[0] = [n \in S |-> n]
                  /\ \A k \in 1..Len(edges) : G[k] = Merge(S, G[k - 1], edges[k])
                  /\ Roots(edges, S) = G[Len(edges)]
  <1> DEFINE n == Len(edges)
             D == [S -> S]
             none == [x \in S |-> x]
             step == [x \in (1..n) \X D |-> Merge(S, x[2], edges[x[1]])]
  <1>1. n \in Nat /\ DOMAIN edges = 1..n /\ none \in D
    OBVIOUS
  <1>2. ASSUME NEW k \in 1..n, NEW r \in D PROVE Merge(S, r, edges[k]) \in D
    <2>1. edges[k] \in S \X S
      OBVIOUS
    <2>2. edges[k][2] \in S
      BY <2>1
    <2> QED
      BY <2>2 DEF Merge
  <1>3. step \in [(1..n) \X D -> D]
    BY <1>2
  <1> HIDE DEF step, D, none
  <1>4. PICK F \in [SUBSET (1..n) -> D] : Folds(F, n, none, step)
    BY <1>1, <1>3, FoldExists
  <1> DEFINE Rec(f) == f = [s \in SUBSET (1..n) |-> IF s = {} THEN none ELSE
                           Merge(S, f[s \ {Max(s)}], edges[Max(s)])]
  <1>5. ASSUME NEW s \in SUBSET (1..n), s # {} PROVE Max(s) \in 1..n
    BY <1>5, <1>1, MaxOfSome
  <1>6. Rec(F)
    BY <1>4, <1>5 DEF step, Folds
  <1>7. PICK f : Rec(f) /\ Roots(edges, S) = f[1..n]
    <2>1. \E f : Rec(f)
      BY <1>6, Zenon
    <2>2. Roots(edges, S) = FoldLeft(LAMBDA r, e : Merge(S, r, e), none, edges)
      BY Zenon DEF Roots, FoldLeft, MapThenFoldSet, Merge, none
    <2>3. FoldLeft(LAMBDA r, e : Merge(S, r, e), none, edges) = (CHOOSE f : Rec(f))[1..n]
      BY <1>1, Zenon DEF FoldLeft, MapThenFoldSet
    <2> QED
      BY <2>1, <2>2, <2>3, Zenon
  <1> DEFINE G == [k \in 0..n |-> f[1..k]]
  <1>8. G[0] = none
    BY <1>1, <1>7
  <1>9. ASSUME NEW k \in 1..n PROVE G[k] = Merge(S, G[k - 1], edges[k])
    <2>1. G[k] = f[1..k] /\ G[k - 1] = f[1..(k - 1)]
      BY <1>1
    <2>2. f[1..k] = Merge(S, f[1..(k - 1)], edges[k])
      BY <1>1, <1>7, UpTo
    <2> QED
      BY <2>1, <2>2
  <1>10. Roots(edges, S) = G[n]
    BY <1>1, <1>7
  <1> QED
    BY <1>8, <1>9, <1>10 DEF none

\* No link of the list leads out of C.
Closed(edges, C) == \A i \in DOMAIN edges : edges[i][1] \in C <=> edges[i][2] \in C

\* Nodes with the same root are joined: no set that the links do not lead out
\* of has one of them without the other.
LEMMA SameRoot ==
    ASSUME NEW S, NEW edges \in Seq(S \X S)
    PROVE  /\ Roots(edges, S) \in [S -> S]
           /\ \A C \in SUBSET S : Closed(edges, C) =>
                 \A a, b \in S : Roots(edges, S)[a] = Roots(edges, S)[b] => (a \in C <=> b \in C)
  <1> DEFINE n == Len(edges)
             Apart(C, r) == \A a, b \in S : r[a] = r[b] => (a \in C <=> b \in C)
             D == {r \in [S -> S] : \A C \in SUBSET S : Closed(edges, C) => Apart(C, r)}
  <1>1. PICK G : /\ G[0] = [x \in S |-> x]
                 /\ \A k \in 1..n : G[k] = Merge(S, G[k - 1], edges[k])
                 /\ Roots(edges, S) = G[n]
    BY RootsFold
  <1>2. n \in Nat /\ n \in 0..n /\ G[0] \in D
    BY <1>1
  <1>3. ASSUME NEW k \in 1..n, G[k - 1] \in D PROVE G[k] \in D
    <2>1. PICK x, y \in S : edges[k] = <<x, y>> /\ edges[k][1] = x /\ edges[k][2] = y
      <3>1. edges[k] \in S \X S
        OBVIOUS
      <3> QED
        BY <3>1
    <2>2. PICK r \in [S -> S] : r = G[k - 1] /\ \A C \in SUBSET S : Closed(edges, C) => Apart(C, r)
      BY <1>3
    <2>3. PICK t \in [S -> S] : t = G[k] /\ \A a \in S : t[a] = IF r[a] = r[x] THEN r[y] ELSE r[a]
      <3>1. G[k] = [a \in S |-> IF r[a] = r[x] THEN r[y] ELSE r[a]]
        BY <1>1, <2>1, <2>2 DEF Merge
      <3> QED
        BY <3>1
    <2>4. ASSUME NEW C \in SUBSET S, Closed(edges, C) PROVE Apart(C, t)
      <3>1. x \in C <=> y \in C
        BY <2>1, <2>4 DEF Closed
      <3>2. Apart(C, r)
        BY <2>2, <2>4
      <3> QED
        BY <2>3, <3>1, <3>2
    <2> HIDE DEF Apart
    <2> QED
      BY <2>3, <2>4
  <1> HIDE DEF D
  <1>4. \A k \in 0..n : G[k] \in D
    BY <1>2, <1>3, Stays
  <1>5. PICK r : r = Roots(edges, S) /\ r \in D
    BY <1>1, <1>2, <1>4
  <1>6. r \in [S -> S] /\ \A C \in SUBSET S : Closed(edges, C) => Apart(C, r)
    BY <1>5 DEF D
  <1> QED
    BY <1>5, <1>6

\* Two numbers and the identifiers order the possible bridges.
LEMMA BridgeOrder ==
    ASSUME NEW S \in SUBSET (Nat \X Nat), NEW f \in [S -> Nat], NEW g \in [S -> Int], NEW before,
           \A d, e \in S : <<d, e>> \in before <=>
               \/ f[d] < f[e]
               \/ f[d] = f[e] /\ (g[d] < g[e] \/ (g[d] = g[e] /\ Lexical(d, e)))
    PROVE  Orders(before, S)
  <1>1. ASSUME NEW e \in S
        PROVE  f[e] \in Nat /\ g[e] \in Int /\ e[1] \in Nat /\ e[2] \in Nat /\ e = <<e[1], e[2]>>
    <2>1. e \in Nat \X Nat
      OBVIOUS
    <2>2. PICK a, b \in Nat : e = <<a, b>>
      BY <2>1
    <2> QED
      BY <2>2
  <1>2. \A x \in S : ~Lexical(x, x)
    BY <1>1 DEF Lexical
  <1>3. ASSUME NEW x \in S, NEW y \in S, NEW z \in S, Lexical(x, y), Lexical(y, z)
        PROVE  Lexical(x, z)
    BY <1>1, <1>3 DEF Lexical
  <1>4. ASSUME NEW x \in S, NEW y \in S, x # y PROVE Lexical(x, y) \/ Lexical(y, x)
    <2>1. x[1] # y[1] \/ x[2] # y[2]
      BY <1>1, <1>4
    <2> QED
      BY <1>1, <2>1 DEF Lexical
  <1>5. \A x \in S : f[x] \in Nat /\ g[x] \in Int
    BY <1>1
  <1>6. \A x \in S : <<x, x>> \notin before
    BY <1>2, <1>5
  <1>7. ASSUME NEW x \in S, NEW y \in S, NEW z \in S, <<x, y>> \in before, <<y, z>> \in before
        PROVE  <<x, z>> \in before
    BY <1>3, <1>5, <1>7
  <1>8. ASSUME NEW x \in S, NEW y \in S, x # y PROVE <<x, y>> \in before \/ <<y, x>> \in before
    BY <1>4, <1>5, <1>8
  <1> QED
    BY <1>6, <1>7, <1>8 DEF Orders

\* The links that may bridge A and B.
Open(A, B, blocked) == {e \in A \X B : EdgeKey(e) \notin blocked}

\* bridgeNodes gives a link that is not blocked, if there is one.
LEMMA BridgeOpen ==
    ASSUME NEW A \in SUBSET Nodes, NEW B \in SUBSET Nodes, NEW v, NEW blocked
    PROVE  /\ BridgeNodes(A, B, v, blocked) \in Seq(Open(A, B, blocked))
           /\ Open(A, B, blocked) # {} => Len(BridgeNodes(A, B, v, blocked)) = 1
  <1> DEFINE open == {e \in A \X B : EdgeKey(e) \notin blocked}
             tier(n) == IF v[n] = "superpeer" THEN 0 ELSE 1
             tiers(e) == tier(e[1]) + tier(e[2])
             score(e) == Min({RendezvousScore(e[1], e[2], Capacity[e[1]]),
                              RendezvousScore(e[2], e[1], Capacity[e[2]])})
             better(e, f) ==
                 \/ tiers(e) < tiers(f)
                 \/ /\ tiers(e) = tiers(f)
                    /\ \/ score(e) < score(f)
                       \/ score(e) = score(f) /\ Lexical(e, f)
             best == CHOOSE e \in open : \A f \in open \ {e} : better(e, f)
             f1 == [e \in open |-> tiers(e)]
             g1 == [e \in open |-> score(e)]
             before == {ef \in open \X open : better(ef[1], ef[2])}
  <1>1. CASE open = {}
    BY <1>1 DEF BridgeNodes, Open
  <1>2. CASE open # {}
    <2>1. ASSUME NEW e \in open PROVE e[1] \in Nodes /\ e[2] \in Nodes /\ e = <<e[1], e[2]>>
      <3>1. PICK a \in A, b \in B : e = <<a, b>>
        OBVIOUS
      <3> QED
        BY <3>1
    <2>2. f1 \in [open -> Nat]
      <3>1. \A n : tier(n) \in Nat
        OBVIOUS
      <3> HIDE DEF tier, open
      <3> QED
        BY <3>1
    <2>3. g1 \in [open -> Int]
      <3>1. ASSUME NEW e \in open PROVE score(e) \in Int
        <4>1. PICK x, y \in Int : /\ x = RendezvousScore(e[1], e[2], Capacity[e[1]])
                                  /\ y = RendezvousScore(e[2], e[1], Capacity[e[2]])
          BY <2>1, ScoreType
        <4>2. Min({x, y}) = IF x <= y THEN x ELSE y
          BY OfTwo
        <4> QED
          BY <4>1, <4>2
      <3> HIDE DEF score, open
      <3> QED
        BY <3>1
    <2>4. open \in SUBSET (Nat \X Nat) /\ IsFiniteSet(open)
      <3>1. IsFiniteSet(Nodes \X Nodes)
        BY LinkGraphConstants, FS_Product
      <3>2. open \in SUBSET (Nodes \X Nodes)
        OBVIOUS
      <3>3. open \in SUBSET (Nat \X Nat)
        BY <3>2, LinkGraphConstants
      <3> HIDE DEF open
      <3>4. IsFiniteSet(open)
        BY <3>1, <3>2, FS_Subset
      <3> QED
        BY <3>3, <3>4
    <2>5. \A e \in open : tiers(e) = f1[e] /\ score(e) = g1[e]
      OBVIOUS
    <2>6. \A d, e \in open : <<d, e>> \in before <=> better(d, e)
      OBVIOUS
    <2> HIDE DEF f1, g1, before, tiers, score, open
    <2>7. ASSUME NEW d \in open, NEW e \in open
          PROVE  <<d, e>> \in before <=>
                   \/ f1[d] < f1[e]
                   \/ f1[d] = f1[e] /\ (g1[d] < g1[e] \/ (g1[d] = g1[e] /\ Lexical(d, e)))
      <3>1. PICK x, y, z, w : x = tiers(d) /\ y = tiers(e) /\ z = score(d) /\ w = score(e)
        OBVIOUS
      <3>2. better(d, e) <=> (\/ x < y
                              \/ x = y /\ (z < w \/ (z = w /\ Lexical(d, e))))
        BY <3>1, Zenon
      <3>3. x = f1[d] /\ y = f1[e] /\ z = g1[d] /\ w = g1[e]
        BY <2>5, <3>1, Zenon
      <3> HIDE DEF better
      <3> QED
        BY <2>6, <3>2, <3>3, Zenon
    <2>8. Orders(before, open)
      BY <2>2, <2>3, <2>4, <2>7, BridgeOrder
    <2>9. PICK x \in open : \A y \in open \ {x} : <<x, y>> \in before
      BY <1>2, <2>4, <2>8, FirstOfAll
    <2>10. \A y \in open \ {x} : better(x, y)
      BY <2>6, <2>9
    <2> HIDE DEF better
    <2>11. best \in open
      BY <2>10
    <2>12. BridgeNodes(A, B, v, blocked) = <<best>>
      BY <1>2, Zenon DEF BridgeNodes, best, better, open, tiers, score
    <2> HIDE DEF best
    <2>13. <<best>> \in Seq(open) /\ Len(<<best>>) = 1
      BY <2>11
    <2> QED
      BY <2>12, <2>13 DEF open, Open
  <1> QED
    BY <1>1, <1>2

\* The nodes whose root is r.
Component(v, root, r) == {n \in Online(v) : root[n] = r}

\* What ensureConnected adds: bridges between components with different roots,
\* one after another.
EnsureShape(v, edges, blocked, root, roots, m, bridges) ==
    /\ root = Roots(edges, Online(v)) /\ root \in [Online(v) -> Online(v)]
    /\ roots \in Seq(Online(v))
    /\ \A i, j \in 1..Len(roots) : i # j => roots[i] # roots[j]
    /\ \A x \in Online(v) : \E i \in 1..Len(roots) : roots[i] = root[x]
    /\ \A i \in 1..Len(roots) : \E x \in Online(v) : root[x] = roots[i]
    /\ m \in Nat /\ m = (IF Len(roots) = 0 THEN 0 ELSE Len(roots) - 1)
    /\ bridges \in Seq(Seq({e \in Proper(Online(v)) : EdgeKey(e) \notin blocked}))
    /\ Len(bridges) = m
    /\ \A i \in 1..m : bridges[i] = BridgeNodes(Component(v, root, roots[i]),
                                                Component(v, root, roots[i + 1]), v, blocked)
    /\ EnsureConnected(edges, v, blocked) = edges \o FlattenSeq(bridges)

\* ensureConnected has this shape.
LEMMA EnsureIsShaped ==
    ASSUME NEW v \in Views, NEW edges \in Seq(Proper(Online(v))), NEW blocked
    PROVE  \E root, roots, m, bridges : EnsureShape(v, edges, blocked, root, roots, m, bridges)
  <1> DEFINE S == Online(v)
             E == {e \in Proper(S) : EdgeKey(e) \notin blocked}
  <1>1. S \in SUBSET Nodes /\ S \in SUBSET Nat /\ IsFiniteSet(S)
    BY ClientsListed
  <1>2. edges \in Seq(S \X S)
    BY DEF Proper
  <1> HIDE DEF S
  <1>3. PICK root : root = Roots(edges, S) /\ root \in [S -> S]
    <2>1. Roots(edges, S) \in [S -> S]
      BY <1>2, SameRoot
    <2> QED
      BY <2>1
  <1> DEFINE T == {root[n] : n \in S}
  <1>4. T \in SUBSET S /\ T \in SUBSET Nat
    BY <1>1, <1>3
  <1>5. IsFiniteSet(T)
    BY <1>1, <1>4, FS_Subset
  <1>6. PICK roots : roots = Ids(T)
    OBVIOUS
  <1>7. \A x \in S : root[x] \in T
    OBVIOUS
  <1>8. \A r \in T : \E x \in S : root[x] = r
    OBVIOUS
  <1>9. T = {root[n] : n \in S}
    OBVIOUS
  <1> HIDE DEF T
  <1>10. /\ roots \in Seq(T)
         /\ \A i, j \in 1..Len(roots) : i # j => roots[i] # roots[j]
         /\ \A r \in T : \E i \in 1..Len(roots) : roots[i] = r
    BY <1>4, <1>5, <1>6, IdsIsSeq
  <1>11. PICK m \in Nat : m = IF Len(roots) = 0 THEN 0 ELSE Len(roots) - 1
    <2>1. Len(roots) \in Nat
      BY <1>10
    <2>2. PICK k \in Nat : k = Len(roots)
      BY <2>1
    <2>3. (IF k = 0 THEN 0 ELSE k - 1) \in Nat
      OBVIOUS
    <2> QED
      BY <2>2, <2>3
  <1>12. 1..(Len(roots) - 1) = 1..m
    BY <1>10, <1>11
  <1> DEFINE Comp(r) == {n \in S : root[n] = r}
             Bridge(i) == BridgeNodes(Comp(roots[i]), Comp(roots[i + 1]), v, blocked)
             bridges == [i \in 1..m |-> Bridge(i)]
  <1>13. ASSUME NEW i \in 1..m PROVE Bridge(i) \in Seq(E)
    <2>1. i \in 1..Len(roots) /\ i + 1 \in 1..Len(roots) /\ i # i + 1
      BY <1>10, <1>11
    <2>2. roots[i] # roots[i + 1]
      BY <1>10, <2>1
    <2>3. PICK A, B \in SUBSET Nodes : A = Comp(roots[i]) /\ B = Comp(roots[i + 1])
      BY <1>1
    <2>4. BridgeNodes(A, B, v, blocked) \in Seq(Open(A, B, blocked))
      BY BridgeOpen
    <2>5. Open(A, B, blocked) \subseteq E
      <3> SUFFICES ASSUME NEW a \in A, NEW b \in B PROVE <<a, b>> \in Proper(S)
        BY DEF Open
      <3>1. a \in S /\ b \in S /\ root[a] = roots[i] /\ root[b] = roots[i + 1]
        BY <2>3
      <3>2. a # b
        BY <2>2, <3>1
      <3> QED
        BY <3>1, <3>2 DEF Proper
    <2>6. BridgeNodes(A, B, v, blocked) \in Seq(E)
      <3> HIDE DEF E
      <3> QED
        BY <2>4, <2>5
    <2> QED
      BY <2>3, <2>6
  <1> HIDE DEF Bridge, E
  <1>14. bridges \in Seq(Seq(E)) /\ Len(bridges) = m /\ \A i \in 1..m : bridges[i] = Bridge(i)
    BY <1>13
  <1>15. EnsureConnected(edges, v, blocked) = edges \o FlattenSeq(bridges)
    <2>1. bridges = [i \in 1..(Len(roots) - 1) |-> Bridge(i)]
      BY <1>12
    <2>2. roots = Ids({root[n] : n \in S})
      BY <1>6, <1>9
    <2>3. EnsureConnected(edges, v, blocked)
             = edges \o FlattenSeq([i \in 1..(Len(roots) - 1) |-> Bridge(i)])
      BY <1>3, <2>2, Zenon DEF EnsureConnected, Bridge, S
    <2> QED
      BY <2>1, <2>3, Zenon
  <1> HIDE DEF bridges
  <1>16. roots \in Seq(S) /\ \A i \in 1..Len(roots) : roots[i] \in T
    <2>1. \A i \in 1..Len(roots) : roots[i] \in T
      BY <1>10
    <2>2. Len(roots) \in Nat /\ roots \in [1..Len(roots) -> T]
      BY <1>10
    <2>3. roots \in [1..Len(roots) -> S]
      BY <1>4, <2>2
    <2> QED
      BY <2>1, <2>2, <2>3
  <1>17. \A i \in 1..m : bridges[i] = BridgeNodes(Component(v, root, roots[i]),
                                                  Component(v, root, roots[i + 1]), v, blocked)
    BY <1>14 DEF Bridge, Component, S
  <1>18. EnsureShape(v, edges, blocked, root, roots, m, bridges)
    BY <1>3, <1>7, <1>8, <1>10, <1>11, <1>14, <1>15, <1>16, <1>17 DEF EnsureShape, S, E
  <1> QED
    BY <1>18

\* ensureConnected adds no blocked link and none of a node to itself.
LEMMA EnsureProper ==
    ASSUME NEW v \in Views, NEW blocked,
           NEW edges \in Seq({e \in Proper(Online(v)) : EdgeKey(e) \notin blocked})
    PROVE  EnsureConnected(edges, v, blocked)
              \in Seq({e \in Proper(Online(v)) : EdgeKey(e) \notin blocked})
  <1> DEFINE E == {e \in Proper(Online(v)) : EdgeKey(e) \notin blocked}
  <1>1. edges \in Seq(Proper(Online(v))) /\ edges \in Seq(E)
    OBVIOUS
  <1>2. PICK root, roots, m, bridges : EnsureShape(v, edges, blocked, root, roots, m, bridges)
    BY <1>1, EnsureIsShaped
  <1>3. /\ bridges \in Seq(Seq(E))
        /\ EnsureConnected(edges, v, blocked) = edges \o FlattenSeq(bridges)
    BY <1>2 DEF EnsureShape
  <1> HIDE DEF E
  <1>4. FlattenSeq(bridges) \in Seq(E)
    BY <1>3, FlattenKeeps
  <1>5. edges \o FlattenSeq(bridges) \in Seq(E)
    BY <1>1, <1>4
  <1> QED
    BY <1>3, <1>5 DEF E

\* Once ensureConnected is through and nothing is blocked, no set of online
\* nodes but all of them is one that the links do not lead out of.
LEMMA EnsureJoins ==
    ASSUME NEW v \in Views, NEW edges \in Seq(Proper(Online(v))), NEW C \in SUBSET Online(v),
           C # {}, Closed(EnsureConnected(edges, v, {}), C)
    PROVE  C = Online(v)
  <1> DEFINE S == Online(v)
             E == {e \in Proper(S) : EdgeKey(e) \notin {}}
  <1>1. PICK root, roots, m, bridges : EnsureShape(v, edges, {}, root, roots, m, bridges)
    BY EnsureIsShaped
  <1>2. /\ root = Roots(edges, S) /\ root \in [S -> S]
        /\ roots \in Seq(S)
        /\ \A x \in S : \E i \in 1..Len(roots) : roots[i] = root[x]
        /\ \A i \in 1..Len(roots) : \E x \in S : root[x] = roots[i]
        /\ m \in Nat /\ m = (IF Len(roots) = 0 THEN 0 ELSE Len(roots) - 1)
        /\ bridges \in Seq(Seq(E)) /\ Len(bridges) = m
        /\ \A i \in 1..m : bridges[i] = BridgeNodes(Component(v, root, roots[i]),
                                                    Component(v, root, roots[i + 1]), v, {})
    BY <1>1 DEF EnsureShape
  <1>3. PICK links, flat : /\ links = EnsureConnected(edges, v, {}) /\ flat = FlattenSeq(bridges)
                           /\ links = edges \o flat
    BY <1>1 DEF EnsureShape
  <1> HIDE DEF E
  <1>4. /\ flat \in Seq(E)
        /\ \A k \in 1..m : \A j \in 1..Len(bridges[k]) :
             \E i \in 1..Len(flat) : flat[i] = bridges[k][j]
    <2>1. bridges \in Seq(Seq(E)) /\ Len(bridges) = m
      BY <1>2
    <2>2. /\ FlattenSeq(bridges) \in Seq(E)
          /\ \A k \in 1..Len(bridges) : \A j \in 1..Len(bridges[k]) :
               \E i \in 1..Len(FlattenSeq(bridges)) : FlattenSeq(bridges)[i] = bridges[k][j]
      BY <2>1, FlattenKeeps
    <2> QED
      BY <1>3, <2>1, <2>2
  <1>5. edges \in Seq(S \X S) /\ edges \in Seq(Proper(S))
    BY DEF Proper
  <1>6. /\ \A i \in 1..Len(edges) : i \in DOMAIN links /\ links[i] = edges[i]
        /\ \A i \in 1..Len(flat) : Len(edges) + i \in DOMAIN links /\ links[Len(edges) + i] = flat[i]
    BY <1>3, <1>4, <1>5
  <1>7. Closed(edges, C)
    BY <1>3, <1>5, <1>6 DEF Closed
  <1>8. \A e \in {flat[i] : i \in 1..Len(flat)} : e[1] \in C <=> e[2] \in C
    BY <1>3, <1>6 DEF Closed
  <1>9. \A a, b \in S : root[a] = root[b] => (a \in C <=> b \in C)
    BY <1>2, <1>5, <1>7, SameRoot
  <1> DEFINE In(i) == \A x \in S : root[x] = roots[i] => x \in C
             Out(i) == \A x \in S : root[x] = roots[i] => x \notin C
  <1>10. ASSUME NEW i \in 1..m PROVE In(i) <=> In(i + 1)
    <2>1. i \in 1..Len(roots) /\ i + 1 \in 1..Len(roots)
      BY <1>2
    <2>2. PICK A, B \in SUBSET Nodes : /\ A = Component(v, root, roots[i])
                                       /\ B = Component(v, root, roots[i + 1])
      BY DEF Component, Online
    <2>3. PICK a, b : a \in A /\ b \in B
      BY <1>2, <2>1, <2>2 DEF Component
    <2>4. Open(A, B, {}) # {}
      <3>1. <<a, b>> \in A \X B
        BY <2>3
      <3> QED
        BY <3>1 DEF Open
    <2>5. /\ bridges[i] \in Seq(Open(A, B, {}))
          /\ Len(bridges[i]) = 1
      <3>1. bridges[i] = BridgeNodes(A, B, v, {})
        BY <1>2, <2>2
      <3>2. PICK none : none = {}
        OBVIOUS
      <3>3. /\ BridgeNodes(A, B, v, none) \in Seq(Open(A, B, none))
            /\ Open(A, B, none) # {} => Len(BridgeNodes(A, B, v, none)) = 1
        BY BridgeOpen
      <3> QED
        BY <2>4, <3>1, <3>2, <3>3
    <2>6. PICK x \in A, y \in B : bridges[i][1] = <<x, y>>
      <3>1. bridges[i][1] \in Open(A, B, {})
        BY <2>5
      <3> QED
        BY <3>1 DEF Open
    <2>7. PICK k \in 1..Len(flat) : flat[k] = <<x, y>>
      BY <1>4, <2>5, <2>6
    <2>8. x \in C <=> y \in C
      <3>1. <<x, y>>[1] = x /\ <<x, y>>[2] = y
        OBVIOUS
      <3> QED
        BY <1>8, <2>7, <3>1
    <2>9. x \in S /\ y \in S /\ root[x] = roots[i] /\ root[y] = roots[i + 1]
      BY <2>2 DEF Component
    <2> QED
      BY <1>9, <2>8, <2>9
  <1>11. Len(roots) # 0 /\ Len(roots) = m + 1
    <2>1. PICK c \in S : c \in C
      OBVIOUS
    <2> QED
      BY <1>2, <2>1
  <1> DEFINE B == {k \in 0..m : In(k + 1) <=> In(1)}
  <1>12. 0 \in B
    BY <1>2
  <1>13. ASSUME NEW k \in 0..m - 1, k \in B PROVE k + 1 \in B
    <2>1. PICK i \in 1..m : i = k + 1
      BY <1>2
    <2>2. In(i) <=> In(i + 1)
      BY <1>10
    <2> HIDE DEF In
    <2> QED
      BY <1>2, <1>13, <2>1, <2>2
  <1> HIDE DEF B
  <1>14. \A k \in 0..m : k \in B
    BY <1>2, <1>12, <1>13, CountUp
  <1>15. ASSUME NEW i \in 1..Len(roots) PROVE In(i) <=> In(1)
    <2>1. PICK k \in 0..m : k + 1 = i
      BY <1>2, <1>11
    <2>2. In(k + 1) <=> In(1)
      BY <1>14 DEF B
    <2> HIDE DEF In
    <2> QED
      BY <2>1, <2>2
  <1>16. PICK c \in S : c \in C
    OBVIOUS
  <1>17. PICK i \in 1..Len(roots) : roots[i] = root[c]
    BY <1>2, <1>16
  <1>18. In(i)
    BY <1>9, <1>16, <1>17
  <1>19. \A j \in 1..Len(roots) : In(j)
    BY <1>15, <1>18
  <1> QED
    BY <1>2, <1>19

-----------------------------------------------------------------------------
(* What links returns. *)

\* The links before removeBlockedEdges and ensureConnected.
Attached(v, p, reports) ==
    LET blocked == BlockedEdgeSet(v, p)
        manual == ManualLinksForNodes(v, p)
        superpeers == SuperpeerNodes(v)
        base == IF manual # <<>> THEN RemoveBlockedEdges(manual, blocked)
                ELSE BackboneLinks(Ids(superpeers), p.degree)
        peers == IF superpeers = {} /\ manual = <<>> THEN Online(v) ELSE superpeers
    IN  AddAutomaticClientLinks(base, v, peers, blocked, p, reports)

\* The last two steps of links.
LEMMA LinksFromAttached ==
    ASSUME NEW v \in Views, NEW p \in LinkPolicies, NEW reports, Readable(reports)
    PROVE  /\ Attached(v, p, reports) \in Seq(Proper(Online(v)))
           /\ Links(v, p, reports) =
                 EnsureConnected(RemoveBlockedEdges(Attached(v, p, reports), BlockedEdgeSet(v, p)),
                                 v, BlockedEdgeSet(v, p))
  <1> DEFINE blocked == BlockedEdgeSet(v, p)
             manual == ManualLinksForNodes(v, p)
             superpeers == SuperpeerNodes(v)
             S == Online(v)
             base == IF manual # <<>> THEN RemoveBlockedEdges(manual, blocked)
                     ELSE BackboneLinks(Ids(superpeers), p.degree)
             peers == IF superpeers = {} /\ manual = <<>> THEN S ELSE superpeers
  <1>1. /\ S \in SUBSET Nat /\ superpeers \in SUBSET S
        /\ Ids(superpeers) \in Seq(superpeers)
    BY ClientsListed
  <1>2. base \in Seq(Proper(S))
    <2>1. RemoveBlockedEdges(manual, blocked)
             \in Seq({e \in Proper(S) : EdgeKey(e) \notin blocked})
      BY ManualProper, RemoveBlockedKeeps
    <2>2. RemoveBlockedEdges(manual, blocked) \in Seq(Proper(S))
      BY <2>1
    <2>3. p.degree \in Nat
      BY DEF LinkPolicies
    <2>4. BackboneLinks(Ids(superpeers), p.degree) \in Seq(Proper(superpeers))
      BY <1>1, <2>3, BackboneProper
    <2>5. Proper(superpeers) \subseteq Proper(S)
      BY <1>1 DEF Proper
    <2>6. BackboneLinks(Ids(superpeers), p.degree) \in Seq(Proper(S))
      BY <2>4, <2>5
    <2> QED
      BY <2>2, <2>6
  <1>3. peers \in SUBSET S
    BY <1>1
  <1> HIDE DEF base, peers, blocked
  <1>4. AddAutomaticClientLinks(base, v, peers, blocked, p, reports) \in Seq(Proper(S))
    BY <1>2, <1>3, AutomaticProper
  <1>5. Attached(v, p, reports) = AddAutomaticClientLinks(base, v, peers, blocked, p, reports)
    BY DEF Attached, base, peers, blocked
  <1>6. Links(v, p, reports) = EnsureConnected(RemoveBlockedEdges(
               AddAutomaticClientLinks(base, v, peers, blocked, p, reports), blocked), v, blocked)
    BY DEF Links, base, peers, blocked
  <1> QED
    BY <1>4, <1>5, <1>6 DEF blocked

\* Every link that links returns joins two different online nodes, and no
\* administrator keeps them apart.
LEMMA LinksAllowed ==
    ASSUME NEW v \in Views, NEW p \in LinkPolicies, NEW reports, Readable(reports)
    PROVE  Links(v, p, reports) \in Seq({e \in Proper(Online(v)) : EdgeKey(e) \notin p.blocked})
  <1>1. PICK blocked, S, attached : /\ blocked = BlockedEdgeSet(v, p) /\ S = Online(v)
                                    /\ attached = Attached(v, p, reports)
    OBVIOUS
  <1>2. attached \in Seq(Proper(S))
    BY <1>1, LinksFromAttached
  <1>3. RemoveBlockedEdges(attached, blocked)
           \in Seq({e \in Proper(S) : EdgeKey(e) \notin blocked})
    BY <1>2, RemoveBlockedKeeps
  <1>4. EnsureConnected(RemoveBlockedEdges(attached, blocked), v, blocked)
           \in Seq({e \in Proper(S) : EdgeKey(e) \notin blocked})
    BY <1>1, <1>3, EnsureProper
  <1>5. Links(v, p, reports) = EnsureConnected(RemoveBlockedEdges(attached, blocked), v, blocked)
    BY <1>1, LinksFromAttached
  <1>6. ASSUME NEW e \in Proper(S), EdgeKey(e) \notin blocked PROVE EdgeKey(e) \notin p.blocked
    <2>1. EdgeKey(e) \subseteq S
      BY DEF Proper, EdgeKey
    <2> QED
      BY <1>1, <1>6, <2>1 DEF BlockedEdgeSet
  <1>7. {e \in Proper(S) : EdgeKey(e) \notin blocked}
           \subseteq {e \in Proper(S) : EdgeKey(e) \notin p.blocked}
    BY <1>6
  <1>8. Links(v, p, reports) \in Seq({e \in Proper(S) : EdgeKey(e) \notin p.blocked})
    BY <1>4, <1>5, <1>7
  <1> QED
    BY <1>1, <1>8

-----------------------------------------------------------------------------
(* Reaching nodes over links. *)

\* One more link.
Grow(edges, from, Via, X) ==
    X \cup {n \in Nodes : \E m \in X \cap (Via \cup from) : {m, n} \in edges}

\* As many links as there are nodes are enough: no link leads on from what
\* Reach has.
LEMMA ReachIsClosed ==
    ASSUME NEW edges, NEW from \in SUBSET Nodes, from # {}, NEW Via
    PROVE  /\ from \subseteq Reach(edges, from, Via)
           /\ Reach(edges, from, Via) \subseteq Nodes
           /\ \A m \in Reach(edges, from, Via) \cap (Via \cup from), n \in Nodes :
                 {m, n} \in edges => n \in Reach(edges, from, Via)
  <1> DEFINE Step(X) == Grow(edges, from, Via, X)
             D == SUBSET Nodes
  <1>1. PICK N \in Nat : N = Cardinality(Nodes)
    BY LinkGraphConstants, FS_CardinalityType
  <1> DEFINE step == [x \in (1..N) \X D |-> Step(x[2])]
             Rec(f) == f = [k \in 0..N |-> IF k = 0 THEN from ELSE Step(f[k - 1])]
  <1>2. ASSUME NEW X \in D PROVE Step(X) \in D /\ X \subseteq Step(X)
    BY DEF Grow
  <1> HIDE DEF Step
  <1>3. step \in [(1..N) \X D -> D]
    BY <1>2
  <1>4. from \in D
    OBVIOUS
  <1> HIDE DEF step, D
  <1>5. PICK F \in [SUBSET (1..N) -> D] : Folds(F, N, from, step)
    BY <1>3, <1>4, FoldExists
  <1> DEFINE g == [k \in 0..N |-> F[1..k]]
  <1>6. ASSUME NEW k \in 0..N PROVE g[k] = IF k = 0 THEN from ELSE Step(g[k - 1])
    <2>1. CASE k = 0
      <3>1. 1..0 = {} /\ {} \in SUBSET (1..N)
        OBVIOUS
      <3>2. F[{}] = from
        BY <1>5, <3>1 DEF Folds
      <3>3. F[1..0] = from
        BY <3>1, <3>2
      <3> QED
        BY <2>1, <3>3
    <2>2. CASE k # 0
      <3>1. k \in 1..N /\ k - 1 \in 0..N /\ 1..(k - 1) \in SUBSET (1..N)
        BY <2>2
      <3>2. /\ 1..k \in SUBSET (1..N) /\ 1..k # {}
            /\ Max(1..k) = k
            /\ (1..k) \ {k} = 1..(k - 1)
        BY <3>1, UpTo
      <3>3. F[1..k] = step[<<k, F[1..(k - 1)]>>]
        BY <1>5, <3>2 DEF Folds
      <3>4. F[1..k] = Step(F[1..(k - 1)])
        BY <3>1, <3>3 DEF step
      <3> QED
        BY <2>2, <3>1, <3>4
    <2> QED
      BY <2>1, <2>2
  <1>7. Rec(g)
    BY <1>6
  <1> HIDE DEF g
  <1>8. PICK f : Rec(f) /\ Reach(edges, from, Via) = f[N]
    <2>1. \E f : Rec(f)
      BY <1>7, Zenon
    <2>2. Reach(edges, from, Via) = (CHOOSE f : Rec(f))[N]
      BY <1>1, Zenon DEF Reach, Step, Grow
    <2> QED
      BY <2>1, <2>2, Zenon
  <1>9. f[0] = from
    BY <1>8
  <1>10. ASSUME NEW k \in 1..N PROVE f[k] = Step(f[k - 1])
    BY <1>8
  <1>11. \A k \in 0..N : f[k] \in D
    BY <1>2, <1>4, <1>9, <1>10, Stays
  <1> DEFINE B == {k \in 0..N : /\ from \subseteq f[k]
                                /\ Cardinality(f[k]) > k \/ Step(f[k]) = f[k]}
  <1>12. 0 \in B
    <2>1. IsFiniteSet(from)
      BY LinkGraphConstants, FS_Subset
    <2>2. Cardinality(from) \in Nat /\ Cardinality(from) # 0
      BY <2>1, FS_CardinalityType, FS_EmptySet
    <2>3. Cardinality(f[0]) > 0
      BY <1>9, <2>2
    <2> QED
      BY <1>9, <2>3
  <1>13. ASSUME NEW k \in 0..N - 1, k \in B PROVE k + 1 \in B
    <2>1. PICK i \in 1..N : i = k + 1 /\ i - 1 = k /\ i \in 0..N
      OBVIOUS
    <2>2. PICK X, Y \in SUBSET Nodes : X = f[k] /\ Y = f[i]
      BY <1>11, <2>1 DEF D
    <2>3. Y = Step(X) /\ X \subseteq Y /\ from \subseteq Y
      BY <1>2, <1>10, <1>13, <2>1, <2>2 DEF D
    <2>4. CASE Y = X
      <3>1. Step(Y) = Y
        BY <2>3, <2>4
      <3> QED
        BY <2>1, <2>2, <2>3, <3>1
    <2>5. CASE Y # X
      <3>1. IsFiniteSet(X) /\ IsFiniteSet(Y)
        BY LinkGraphConstants, FS_Subset
      <3>2. Cardinality(X) \in Nat /\ Cardinality(Y) \in Nat
        BY <3>1, FS_CardinalityType
      <3>3. Cardinality(X) <= Cardinality(Y) /\ Cardinality(X) # Cardinality(Y)
        BY <2>3, <2>5, <3>1, FS_Subset
      <3>4. Cardinality(X) > k
        BY <1>13, <2>2, <2>3, <2>5
      <3>5. Cardinality(Y) > i
        BY <2>1, <3>2, <3>3, <3>4
      <3> QED
        BY <2>1, <2>2, <2>3, <3>5
    <2> QED
      BY <2>4, <2>5
  <1> HIDE DEF B
  <1>14. \A k \in 0..N : k \in B
    BY <1>12, <1>13, CountUp
  <1>15. PICK R \in SUBSET Nodes : R = f[N] /\ N \in B
    BY <1>11, <1>14 DEF D
  <1>16. Cardinality(R) <= N /\ Cardinality(R) \in Nat
    BY <1>1, LinkGraphConstants, FS_Subset, FS_CardinalityType
  <1>17. from \subseteq R /\ Step(R) = R
    BY <1>15, <1>16 DEF B
  <1>18. \A m \in R \cap (Via \cup from), n \in Nodes : {m, n} \in edges => n \in R
    BY <1>17 DEF Step, Grow
  <1> QED
    BY <1>8, <1>15, <1>17, <1>18

\* When every online node is joined by links that nothing leads out of, it is
\* reached.
LEMMA ConnectedFromClosed ==
    ASSUME NEW S \in SUBSET Nodes, NEW links \in Seq(Proper(S)),
           \A C \in SUBSET S : C # {} /\ Closed(links, C) => C = S
    PROVE  Connected(EdgesOf(links), S)
  <1> SUFFICES ASSUME NEW n \in S PROVE S \subseteq Reach(EdgesOf(links), {n}, S)
    BY DEF Connected
  <1>1. PICK edges, R : edges = EdgesOf(links) /\ R = Reach(edges, {n}, S)
    OBVIOUS
  <1>2. PICK from : from = {n}
    OBVIOUS
  <1>3. from \in SUBSET Nodes /\ from # {} /\ R = Reach(edges, from, S)
    BY <1>1, <1>2
  <1>4. /\ from \subseteq R /\ R \subseteq Nodes
        /\ \A m \in R \cap (S \cup from), x \in Nodes : {m, x} \in edges => x \in R
    BY <1>3, ReachIsClosed
  <1> DEFINE C == R \cap S
  <1>5. C \in SUBSET S /\ C # {}
    BY <1>2, <1>4
  <1>6. Closed(links, C)
    <2> SUFFICES ASSUME NEW i \in DOMAIN links PROVE links[i][1] \in C <=> links[i][2] \in C
      BY DEF Closed
    <2>1. links[i] \in Proper(S)
      OBVIOUS
    <2>2. PICK a, b \in S : links[i] = <<a, b>>
      BY <2>1 DEF Proper
    <2>3. links[i][1] = a /\ links[i][2] = b
      BY <2>2
    <2>4. {a, b} \in edges
      BY <1>1, <2>3 DEF EdgesOf, EdgeKey
    <2>5. {b, a} \in edges
      <3>1. {b, a} = {a, b}
        OBVIOUS
      <3> QED
        BY <2>4, <3>1
    <2> QED
      BY <1>4, <2>3, <2>4, <2>5
  <1> HIDE DEF C
  <1>7. C = S
    BY <1>5, <1>6
  <1> QED
    BY <1>1, <1>7 DEF C

\* With no block between online nodes, the links join all of them.
LEMMA LinksJoin ==
    ASSUME NEW v \in Views, NEW p \in LinkPolicies, NEW reports, Readable(reports),
           BlockedEdgeSet(v, p) = {}
    PROVE  Connected(EdgesOf(Links(v, p, reports)), Online(v))
  <1>1. PICK links, S : links = Links(v, p, reports) /\ S = Online(v)
    OBVIOUS
  <1>2. PICK edges \in Seq(Proper(S)) : links = EnsureConnected(edges, v, {})
    <2>1. PICK attached, none : attached = Attached(v, p, reports) /\ none = {}
      OBVIOUS
    <2>2. attached \in Seq(Proper(S))
      BY <1>1, <2>1, LinksFromAttached
    <2>3. RemoveBlockedEdges(attached, none)
             \in Seq({e \in Proper(S) : EdgeKey(e) \notin none})
      BY <2>2, RemoveBlockedKeeps
    <2>4. RemoveBlockedEdges(attached, none) \in Seq(Proper(S))
      BY <2>3
    <2>5. links = EnsureConnected(RemoveBlockedEdges(attached, none), v, none)
      BY <1>1, <2>1, LinksFromAttached
    <2> QED
      BY <2>1, <2>4, <2>5
  <1>3. links \in Seq(Proper(S))
    <2>1. links \in Seq({e \in Proper(S) : EdgeKey(e) \notin p.blocked})
      BY <1>1, LinksAllowed
    <2> QED
      BY <2>1
  <1>4. S \in SUBSET Nodes
    BY <1>1, ClientsListed
  <1>5. \A C \in SUBSET S : C # {} /\ Closed(links, C) => C = S
    BY <1>1, <1>2, EnsureJoins
  <1>6. Connected(EdgesOf(links), S)
    BY <1>3, <1>4, <1>5, ConnectedFromClosed
  <1> QED
    BY <1>1, <1>6

-----------------------------------------------------------------------------
(* What is never lost on the way: the ring of the superpeers, and the links *)
(* that every client wants.                                                 *)

\* list has the link e.
Listed(list, e) == \E i \in DOMAIN list : list[i] = e

\* A longer list has what the shorter ones have.
LEMMA ListedInBoth ==
    ASSUME NEW E, NEW s \in Seq(E), NEW t \in Seq(E), NEW e, Listed(s, e) \/ Listed(t, e)
    PROVE  Listed(s \o t, e)
  <1>1. CASE Listed(s, e)
    BY <1>1 DEF Listed
  <1>2. CASE Listed(t, e)
    <2>1. PICK i \in 1..Len(t) : t[i] = e
      BY <1>2 DEF Listed
    <2>2. Len(s) + i \in 1..Len(s \o t) /\ (s \o t)[Len(s) + i] = e
      BY <2>1
    <2> QED
      BY <2>2 DEF Listed
  <1> QED
    BY <1>1, <1>2

\* Appending keeps what is listed and lists one more.
LEMMA ListedAppend ==
    ASSUME NEW E, NEW s \in Seq(E), NEW x \in E
    PROVE  Listed(Append(s, x), x) /\ \A e : Listed(s, e) => Listed(Append(s, x), e)
  <1>1. Len(s) + 1 \in DOMAIN Append(s, x) /\ Append(s, x)[Len(s) + 1] = x
    OBVIOUS
  <1>2. \A i \in DOMAIN s : i \in DOMAIN Append(s, x) /\ Append(s, x)[i] = s[i]
    OBVIOUS
  <1> QED
    BY <1>1, <1>2 DEF Listed

\* removeBlockedEdges keeps what is not blocked.
LEMMA RemoveBlockedLists ==
    ASSUME NEW E, NEW edges \in Seq(E), NEW blocked, NEW e, Listed(edges, e),
           EdgeKey(e) \notin blocked
    PROVE  Listed(RemoveBlockedEdges(edges, blocked), e)
  <1> DEFINE n == Len(edges)
  <1>1. PICK G : /\ G[0] = <<>>
                 /\ \A k \in 1..n :
                      G[k] = IF EdgeKey(edges[k]) \in blocked THEN G[k - 1]
                                                              ELSE Append(G[k - 1], edges[k])
                 /\ RemoveBlockedEdges(edges, blocked) = G[n]
    BY RemoveBlockedFold
  <1> DEFINE B == {k \in 0..n : /\ G[k] \in Seq(E)
                                /\ \A j \in 1..k : edges[j] = e => Listed(G[k], e)}
  <1>2. n \in Nat /\ n \in 0..n
    OBVIOUS
  <1>3. 0 \in B
    <2>1. G[0] \in Seq(E) /\ 0 \in 0..n /\ \A j \in 1..0 : FALSE
      BY <1>1, <1>2
    <2> QED
      BY <2>1
  <1>4. ASSUME NEW k \in 0..n - 1, k \in B PROVE k + 1 \in B
    <2>1. PICK i \in 1..n : i = k + 1 /\ i - 1 = k /\ i \in 0..n
      BY <1>2
    <2>2. PICK s \in Seq(E), x \in E : s = G[k] /\ x = edges[i]
      BY <1>4
    <2>3. G[i] = IF EdgeKey(x) \in blocked THEN s ELSE Append(s, x)
      BY <1>1, <2>1, <2>2
    <2>4. G[i] \in Seq(E)
      BY <2>3
    <2>5. Listed(s, e) => Listed(G[i], e)
      BY <2>3, ListedAppend
    <2>6. x = e => Listed(G[i], e)
      BY <2>3, ListedAppend
    <2>7. \A j \in 1..i : j = i \/ j \in 1..k
      BY <2>1
    <2>8. \A j \in 1..k : edges[j] = e => Listed(s, e)
      BY <1>4, <2>2
    <2>9. \A j \in 1..i : edges[j] = e => Listed(G[i], e)
      BY <2>2, <2>5, <2>6, <2>7, <2>8
    <2> QED
      BY <2>1, <2>4, <2>9
  <1> HIDE DEF B
  <1>5. \A k \in 0..n : k \in B
    BY <1>2, <1>3, <1>4, CountUp
  <1>6. n \in B
    BY <1>2, <1>5
  <1>7. PICK j \in 1..n : edges[j] = e
    BY DEF Listed
  <1>8. Listed(G[n], e)
    BY <1>6, <1>7 DEF B
  <1> QED
    BY <1>1, <1>8

\* add drops only links of a node to itself and repetitions.
LEMMA AddLinkLists ==
    ASSUME NEW S, NEW list \in Seq(S \X S), NEW e, Listed(list, e), e[1] # e[2]
    PROVE  Listed(FoldLeft(AddLink, <<>>, list), e)
  <1> DEFINE n == Len(list)
  <1>1. PICK G : /\ G[0] = <<>>
                 /\ \A k \in 1..n : G[k] = AddLink(G[k - 1], list[k])
                 /\ FoldLeft(AddLink, <<>>, list) = G[n]
    BY AddLinkFold
  <1> DEFINE E == S \X S
             B == {k \in 0..n : /\ G[k] \in Seq(E)
                                /\ \A j \in 1..k : list[j] = e => Listed(G[k], e)}
  <1>2. n \in Nat /\ n \in 0..n /\ list \in Seq(E)
    OBVIOUS
  <1>3. 0 \in B
    <2>1. G[0] \in Seq(E) /\ 0 \in 0..n /\ \A j \in 1..0 : FALSE
      BY <1>1, <1>2
    <2> QED
      BY <2>1
  <1> HIDE DEF E
  <1>4. ASSUME NEW k \in 0..n - 1, k \in B PROVE k + 1 \in B
    <2>1. PICK i \in 1..n : i = k + 1 /\ i - 1 = k /\ i \in 0..n
      BY <1>2
    <2>2. PICK s \in Seq(E), x \in E : s = G[k] /\ x = list[i]
      BY <1>2, <1>4
    <2>3. G[i] = AddLink(s, x)
      BY <1>1, <2>1, <2>2
    <2>4. G[i] \in Seq(E)
      BY <2>3 DEF AddLink
    <2>5. Listed(s, e) => Listed(G[i], e)
      BY <2>3, ListedAppend DEF AddLink
    <2>6. x = e => Listed(G[i], e)
      <3> SUFFICES ASSUME x = e PROVE Listed(G[i], e)
        OBVIOUS
      <3>1. CASE Listed(s, e)
        BY <2>5, <3>1
      <3>2. CASE ~Listed(s, e)
        <4>1. G[i] = Append(s, x)
          BY <2>3, <3>2 DEF AddLink, Listed
        <4> QED
          BY <4>1, ListedAppend
      <3> QED
        BY <3>1, <3>2
    <2>7. \A j \in 1..i : j = i \/ j \in 1..k
      BY <2>1
    <2>8. \A j \in 1..k : list[j] = e => Listed(s, e)
      BY <1>4, <2>2
    <2>9. \A j \in 1..i : list[j] = e => Listed(G[i], e)
      BY <2>2, <2>5, <2>6, <2>7, <2>8
    <2> QED
      BY <2>1, <2>4, <2>9
  <1> HIDE DEF B
  <1>5. \A k \in 0..n : k \in B
    BY <1>2, <1>3, <1>4, CountUp
  <1>6. n \in B
    BY <1>2, <1>5
  <1>7. PICK j \in 1..n : list[j] = e
    BY DEF Listed
  <1>8. Listed(G[n], e)
    BY <1>6, <1>7 DEF B
  <1>9. G[n] = FoldLeft(AddLink, <<>>, list)
    BY <1>1, Zenon
  <1> QED
    BY <1>8, <1>9, Zenon

\* The place after i on the ring of n.
After(i, n) == IF i = n THEN 1 ELSE i + 1

\* The ring is part of the backbone, whatever the degree.
LEMMA BackboneHasRing ==
    ASSUME NEW S \in SUBSET Nat, NEW superpeers \in Seq(S), NEW degree \in Nat,
           Len(superpeers) >= 2, NEW i \in 1..Len(superpeers),
           superpeers[i] # superpeers[After(i, Len(superpeers))]
    PROVE  Listed(BackboneLinks(superpeers, degree),
                  InOrder(superpeers[i], superpeers[After(i, Len(superpeers))]))
  <1> DEFINE n == Len(superpeers)
             e == InOrder(superpeers[i], superpeers[After(i, n)])
  <1>1. PICK list, rounds, rest, m :
           /\ rounds \in Seq(Seq(S \X S)) /\ rest \in Seq(S \X S)
           /\ m \in Nat /\ m >= 1 /\ Len(rounds) = m
           /\ rounds[1] = [j \in 1..n |-> InOrder(superpeers[j], superpeers[((j - 1 + 1) % n) + 1])]
           /\ list = FlattenSeq(rounds) \o rest
           /\ BackboneLinks(superpeers, degree) = FoldLeft(AddLink, <<>>, list)
    BY BackboneShape
  <1>2. /\ FlattenSeq(rounds) \in Seq(S \X S)
        /\ \A j \in 1..Len(rounds[1]) :
             \E k \in 1..Len(FlattenSeq(rounds)) : FlattenSeq(rounds)[k] = rounds[1][j]
    <2>1. 1 \in 1..Len(rounds)
      BY <1>1
    <2>2. PICK P : P = S \X S
      OBVIOUS
    <2>3. rounds \in Seq(Seq(P))
      BY <1>1, <2>2
    <2>4. FlattenSeq(rounds) \in Seq(P)
      BY <2>3, FlattenKeeps
    <2>5. \A k \in 1..Len(rounds) : \A j \in 1..Len(rounds[k]) :
             \E x \in 1..Len(FlattenSeq(rounds)) : FlattenSeq(rounds)[x] = rounds[k][j]
      BY <2>3, FlattenKeeps
    <2> QED
      BY <2>1, <2>2, <2>4, <2>5
  <1>3. n \in Nat /\ n >= 2 /\ Len(rounds[1]) = n
    BY <1>1
  <1>4. ((i - 1 + 1) % n) + 1 = After(i, n)
    <2>1. CASE i = n
      <3>1. n % n = 0 /\ i - 1 + 1 = n
        BY <1>3, <2>1
      <3> QED
        BY <2>1, <3>1 DEF After
    <2>2. CASE i # n
      <3>1. i \in 0..(n - 1) /\ i - 1 + 1 = i
        BY <1>3, <2>2
      <3>2. i % n = i
        BY <1>3, <3>1
      <3> QED
        BY <2>2, <3>1, <3>2 DEF After
    <2> QED
      BY <2>1, <2>2
  <1>5. rounds[1][i] = e
    BY <1>1, <1>4
  <1>6. Listed(FlattenSeq(rounds), e)
    BY <1>2, <1>3, <1>5 DEF Listed
  <1>7. Listed(list, e) /\ list \in Seq(S \X S)
    <2>1. PICK P, flat : P = S \X S /\ flat = FlattenSeq(rounds)
      OBVIOUS
    <2>2. flat \in Seq(P) /\ rest \in Seq(P) /\ Listed(flat, e) /\ list = flat \o rest
      BY <1>1, <1>2, <1>6, <2>1
    <2>3. Listed(flat \o rest, e) /\ flat \o rest \in Seq(P)
      BY <2>2, ListedInBoth
    <2> QED
      BY <2>1, <2>2, <2>3
  <1>8. e[1] # e[2]
    BY DEF InOrder
  <1> HIDE DEF e
  <1>9. Listed(FoldLeft(AddLink, <<>>, list), e)
    BY <1>7, <1>8, AddLinkLists
  <1>10. FoldLeft(AddLink, <<>>, list) = BackboneLinks(superpeers, degree)
    BY <1>1, Zenon
  <1>11. Listed(BackboneLinks(superpeers, degree), e)
    BY <1>9, <1>10, Zenon
  <1> QED
    BY <1>11 DEF e

\* The client has the links it wants, or links to all the possible peers.
Enough(out, client, peers, want) ==
    \/ Cardinality(LinkedTo(out, client) \cap peers) >= want
    \/ peers \subseteq LinkedTo(out, client)

\* More links are enough as well.
LEMMA EnoughGrows ==
    ASSUME NEW out, NEW more, \A e : Listed(out, e) => Listed(more, e),
           NEW client, NEW peers \in SUBSET Nodes, NEW want \in Nat, Enough(out, client, peers, want)
    PROVE  Enough(more, client, peers, want)
  <1>1. LinkedTo(out, client) \subseteq LinkedTo(more, client)
    BY DEF LinkedTo, Listed
  <1>2. PICK X, Y \in SUBSET Nodes : /\ X = LinkedTo(out, client) \cap peers
                                     /\ Y = LinkedTo(more, client) \cap peers
    OBVIOUS
  <1>3. X \subseteq Y /\ IsFiniteSet(Y)
    BY <1>1, <1>2, LinkGraphConstants, FS_Subset
  <1>4. IsFiniteSet(X) /\ Cardinality(X) <= Cardinality(Y)
    BY <1>3, FS_Subset
  <1>5. Cardinality(X) \in Nat /\ Cardinality(Y) \in Nat
    BY <1>3, <1>4, FS_CardinalityType
  <1>6. Cardinality(X) >= want => Cardinality(Y) >= want
    BY <1>4, <1>5
  <1> QED
    BY <1>1, <1>2, <1>6 DEF Enough

\* A round of addAutomaticClientLinks keeps the links and gives the client
\* enough of them, when nothing is blocked.
LEMMA AttachEnough ==
    ASSUME NEW S \in SUBSET Nodes, NEW out \in Seq(Proper(S)), NEW client \in S,
           NEW peers \in SUBSET S, client \notin peers, NEW p \in LinkPolicies, NEW kind,
           NEW reports, Readable(reports), NEW after,
           after = AttachClient(out, client, peers, {}, p, kind, reports)
    PROVE  /\ \A e : Listed(out, e) => Listed(after, e)
           /\ Enough(after, client, peers, Wanted(p, kind))
           /\ Wanted(p, kind) \in Nat \ {0}
  <1>1. client \in Nodes /\ peers \in SUBSET Nodes
    OBVIOUS
  <1>2. PICK none : none = {}
    OBVIOUS
  <1>3. PICK order, added :
           AttachShape(out, client, peers, none, p, kind, reports, order, added)
    BY <1>1, AttachIsShaped
  <1> DEFINE new == [i \in 1..added |-> <<client, order[i]>>]
  <1>4. PICK free, had, count, want :
           /\ free = FreeFor(out, client, peers, none)
           /\ had = LinkedTo(out, client) \cap peers
           /\ count = Cardinality(had)
           /\ want = Wanted(p, kind)
    OBVIOUS
  <1>5. /\ order \in Seq(free) /\ Len(order) = Cardinality(free)
        /\ \A i, j \in 1..Len(order) : i # j => order[i] # order[j]
        /\ \A q \in free : \E i \in 1..Len(order) : order[i] = q
        /\ added \in 0..Len(order)
        /\ count \in Nat /\ want \in Nat \ {0}
        /\ count >= want \/ added = want - count \/ added = Len(order)
        /\ after = out \o new
    BY <1>2, <1>3, <1>4 DEF AttachShape
  <1>6. had \in SUBSET peers /\ free \in SUBSET peers /\ had \cap free = {} /\ peers = had \cup free
    BY <1>1, <1>2, <1>4 DEF FreeFor, LinkedTo
  <1>7. ASSUME NEW i \in 1..added PROVE order[i] \in free /\ <<client, order[i]>> \in Proper(S)
    <2>1. order[i] \in free
      BY <1>5
    <2>2. order[i] \in S /\ order[i] # client
      BY <1>6, <2>1
    <2> QED
      BY <2>1, <2>2 DEF Proper
  <1>8. new \in Seq(Proper(S)) /\ Len(new) = added /\ \A i \in 1..added : new[i] = <<client, order[i]>>
    BY <1>5, <1>7
  <1> HIDE DEF new
  <1>9. \A e : Listed(out, e) \/ Listed(new, e) => Listed(after, e)
    <2>1. PICK E, t : E = Proper(S) /\ t = new /\ out \in Seq(E) /\ t \in Seq(E)
      BY <1>8
    <2>2. ASSUME NEW e, Listed(out, e) \/ Listed(t, e) PROVE Listed(out \o t, e)
      BY <2>1, <2>2, ListedInBoth
    <2> QED
      BY <1>5, <2>1, <2>2
  <1> DEFINE gained == {order[i] : i \in 1..added}
             has == LinkedTo(after, client) \cap peers
  <1>10. had \subseteq has
    BY <1>4, <1>9 DEF LinkedTo, Listed
  <1>11. gained \subseteq has /\ gained \subseteq free
    <2> SUFFICES ASSUME NEW i \in 1..added PROVE order[i] \in has /\ order[i] \in free
      OBVIOUS
    <2>1. new[i] = <<client, order[i]>> /\ i \in DOMAIN new
      BY <1>8
    <2>2. Listed(new, <<client, order[i]>>)
      BY <2>1 DEF Listed
    <2>3. PICK k \in DOMAIN after : after[k] = <<client, order[i]>>
      BY <1>9, <2>2 DEF Listed
    <2>4. EdgeKey(after[k]) = {client, order[i]}
      BY <2>3 DEF EdgeKey
    <2>5. order[i] \in peers /\ order[i] \in Nodes \ {client}
      BY <1>1, <1>6, <1>7
    <2> QED
      BY <1>7, <2>4, <2>5 DEF LinkedTo
  <1>12. IsFiniteSet(peers) /\ has \in SUBSET peers
    BY <1>1, LinkGraphConstants, FS_Subset
  <1>13. CASE count >= want
    <2>1. Cardinality(had) <= Cardinality(has) /\ Cardinality(has) \in Nat
      BY <1>10, <1>12, FS_Subset, FS_CardinalityType
    <2>2. Cardinality(has) >= want
      BY <1>4, <1>5, <1>13, <2>1
    <2> QED
      BY <1>4, <1>5, <1>9, <2>2 DEF Enough
  <1>14. CASE added = Len(order)
    <2>1. free \subseteq gained
      BY <1>5, <1>14
    <2>2. peers \subseteq LinkedTo(after, client)
      BY <1>6, <1>10, <1>11, <2>1
    <2> QED
      BY <1>4, <1>5, <1>9, <2>2 DEF Enough
  <1>15. CASE added = want - count
    <2> DEFINE f == [i \in 1..added |-> order[i]]
    <2>1. added \in Nat /\ f \in [1..added -> gained]
      BY <1>5
    <2>2. \A i, j \in 1..added : i # j => f[i] # f[j]
      BY <1>5
    <2>3. \A x \in gained : \E i \in 1..added : f[i] = x
      OBVIOUS
    <2> HIDE DEF f, gained
    <2>4. f \in Bijection(1..added, gained)
      BY <2>1, <2>2, <2>3 DEF Bijection, Injection, Surjection, IsInjective
    <2>5. IsFiniteSet(1..added) /\ Cardinality(1..added) = added
      BY <2>1, FS_Interval
    <2>6. IsFiniteSet(gained) /\ Cardinality(gained) = added
      BY <2>4, <2>5, FS_Bijection DEF ExistsBijection
    <2>7. IsFiniteSet(had)
      BY <1>6, <1>12, FS_Subset
    <2>8. had \cap gained = {}
      BY <1>6, <1>11
    <2>9. Cardinality(had \cup gained) = count + added - Cardinality(had \cap gained)
      BY <1>4, <2>6, <2>7, FS_Union
    <2>10. Cardinality(had \cup gained) = want
      <3>1. Cardinality(had \cap gained) = 0
        BY <2>8, FS_EmptySet
      <3> QED
        BY <1>5, <1>15, <2>9, <3>1
    <2>11. Cardinality(had \cup gained) <= Cardinality(has) /\ Cardinality(has) \in Nat
      <3>1. had \cup gained \in SUBSET has
        BY <1>10, <1>11
      <3>2. IsFiniteSet(has)
        BY <1>12, FS_Subset
      <3> QED
        BY <3>1, <3>2, FS_Subset, FS_CardinalityType
    <2>12. Cardinality(has) >= want
      BY <1>5, <2>10, <2>11
    <2> QED
      BY <1>4, <1>5, <1>9, <2>12 DEF Enough
  <1> QED
    BY <1>5, <1>13, <1>14, <1>15

\* addAutomaticClientLinks keeps the links and gives every client enough.
LEMMA AutomaticEnough ==
    ASSUME NEW v \in Views, NEW out \in Seq(Proper(Online(v))), NEW p \in LinkPolicies,
           NEW reports, Readable(reports), SuperpeerNodes(v) # {}, NEW after,
           after = AddAutomaticClientLinks(out, v, SuperpeerNodes(v), {}, p, reports)
    PROVE  /\ \A e : Listed(out, e) => Listed(after, e)
           /\ \A c \in ClientsOf(v) : Enough(after, c, SuperpeerNodes(v), Wanted(p, v[c]))
  <1>1. PICK none, S, peers, ids : /\ none = {} /\ S = Online(v) /\ peers = SuperpeerNodes(v)
                                   /\ ids = Ids(ClientsOf(v))
    OBVIOUS
  <1>2. /\ peers \in SUBSET S /\ S \in SUBSET Nodes /\ peers # {}
        /\ ids \in Seq(ClientsOf(v)) /\ ClientsOf(v) \in SUBSET S
    BY <1>1, ClientsListed
  <1>3. PICK n \in Nat : n = Len(ids) /\ n \in 0..n
    BY <1>2
  <1>4. PICK G : /\ G[0] = out
                 /\ \A k \in 1..n : G[k] = AttachClient(G[k - 1], ids[k], peers, none, p,
                                                        v[ids[k]], reports)
                 /\ after = G[n]
                 /\ \A k \in 0..n : G[k] \in Seq(Proper(S))
    <2>1. out \in Seq(Proper(Online(v))) /\ peers \in SUBSET Online(v)
      BY <1>1, <1>2
    <2>2. \E H : /\ H[0] = out
                 /\ \A k \in 1..Len(Ids(ClientsOf(v))) :
                      H[k] = AttachClient(H[k - 1], Ids(ClientsOf(v))[k], peers, none, p,
                                          v[Ids(ClientsOf(v))[k]], reports)
                 /\ AddAutomaticClientLinks(out, v, peers, none, p, reports)
                       = H[Len(Ids(ClientsOf(v)))]
                 /\ \A k \in 0..Len(Ids(ClientsOf(v))) : H[k] \in Seq(Proper(Online(v)))
      BY <1>2, <2>1, AttachFold
    <2> QED
      BY <1>1, <1>3, <2>2
  <1> DEFINE B == {k \in 0..n : /\ \A e : Listed(out, e) => Listed(G[k], e)
                                /\ \A j \in 1..k : Enough(G[k], ids[j], peers, Wanted(p, v[ids[j]]))
                                                   /\ Wanted(p, v[ids[j]]) \in Nat}
  <1>5. 0 \in B
    <2>1. G[0] = out /\ 0 \in 0..n /\ \A j \in 1..0 : FALSE
      BY <1>4
    <2> QED
      BY <2>1
  <1>6. ASSUME NEW k \in 0..n - 1, k \in B PROVE k + 1 \in B
    <2>1. PICK i \in 1..n : i = k + 1 /\ i - 1 = k /\ i \in 0..n
      OBVIOUS
    <2>2. PICK before, now, c : before = G[k] /\ now = G[i] /\ c = ids[i]
      OBVIOUS
    <2>3. before \in Seq(Proper(S)) /\ c \in ClientsOf(v) /\ c \in S
      BY <1>2, <1>3, <1>4, <2>2
    <2>4. c \notin peers
      BY <1>1, <2>3 DEF ClientsOf, Clients, SuperpeerNodes
    <2>5. now = AttachClient(before, c, peers, {}, p, v[c], reports)
      BY <1>1, <1>4, <2>1, <2>2
    <2>6. /\ \A e : Listed(before, e) => Listed(now, e)
          /\ Enough(now, c, peers, Wanted(p, v[c]))
          /\ Wanted(p, v[c]) \in Nat \ {0}
      BY <1>2, <2>3, <2>4, <2>5, AttachEnough
    <2>7. \A e : Listed(out, e) => Listed(now, e)
      BY <1>6, <2>2, <2>6
    <2>8. ASSUME NEW j \in 1..i
          PROVE  Enough(now, ids[j], peers, Wanted(p, v[ids[j]])) /\ Wanted(p, v[ids[j]]) \in Nat
      <3>1. CASE j = i
        BY <2>2, <2>6, <3>1
      <3>2. CASE j # i
        <4>1. j \in 1..k
          BY <2>1, <3>2
        <4>2. PICK d, w : d = ids[j] /\ w = Wanted(p, v[ids[j]])
          OBVIOUS
        <4>3. Enough(before, d, peers, w) /\ w \in Nat
          BY <1>6, <2>2, <4>1, <4>2
        <4>4. peers \in SUBSET Nodes
          BY <1>2
        <4>5. Enough(now, d, peers, w)
          BY <2>6, <4>3, <4>4, EnoughGrows
        <4> QED
          BY <4>2, <4>3, <4>5
      <3> QED
        BY <3>1, <3>2
    <2> QED
      BY <2>1, <2>2, <2>7, <2>8
  <1> HIDE DEF B
  <1>7. \A k \in 0..n : k \in B
    BY <1>5, <1>6, CountUp
  <1>8. n \in B
    BY <1>3, <1>7
  <1>9. /\ \A e : Listed(out, e) => Listed(after, e)
        /\ \A j \in 1..n : Enough(after, ids[j], peers, Wanted(p, v[ids[j]]))
    BY <1>4, <1>8 DEF B
  <1>10. ASSUME NEW c \in ClientsOf(v) PROVE \E j \in 1..n : ids[j] = c
    <2>1. ClientsOf(v) \in SUBSET Nat /\ IsFiniteSet(ClientsOf(v))
      BY ClientsListed
    <2>2. /\ Len(Ids(ClientsOf(v))) = Cardinality(ClientsOf(v))
          /\ \A x \in ClientsOf(v) : \E j \in 1..Cardinality(ClientsOf(v)) :
                Ids(ClientsOf(v))[j] = x
      BY <2>1, IdsIsSeq
    <2> QED
      BY <1>1, <1>3, <2>2
  <1>11. ASSUME NEW c \in ClientsOf(v) PROVE Enough(after, c, peers, Wanted(p, v[c]))
    <2>1. PICK j \in 1..n : ids[j] = c
      BY <1>10
    <2> QED
      BY <1>9, <2>1
  <1> QED
    BY <1>1, <1>9, <1>11

\* What a client wants is at least one link, and two if the settings say so.
LEMMA WantedType ==
    ASSUME NEW p \in LinkPolicies, NEW kind
    PROVE  /\ Wanted(p, kind) \in Nat /\ Wanted(p, kind) >= 1
           /\ p.clientLinks >= 2 /\ p.symmetricLinks >= 2 => Wanted(p, kind) >= 2
  <1>1. PICK w \in Nat : w = IF kind = "symmetric" THEN p.symmetricLinks ELSE p.clientLinks
    BY DEF LinkPolicies
  <1>2. 1 \in Int /\ w \in Int
    OBVIOUS
  <1>3. Max({1, w}) = IF 1 >= w THEN 1 ELSE w
    BY <1>2, OfTwo
  <1>4. p.clientLinks >= 2 /\ p.symmetricLinks >= 2 => w >= 2
    BY <1>1
  <1>5. Wanted(p, kind) = Max({1, w})
    BY <1>1 DEF Wanted
  <1> QED
    BY <1>3, <1>4, <1>5

\* Without manual links and blocks, links returns the backbone and gives every
\* client the links it wants.
LEMMA LinksHave ==
    ASSUME NEW v \in Views, NEW p \in LinkPolicies, NEW reports, Readable(reports),
           SuperpeerNodes(v) # {}, ManualLinksForNodes(v, p) = <<>>, BlockedEdgeSet(v, p) = {}
    PROVE  /\ \A c \in ClientsOf(v) :
                 Enough(Links(v, p, reports), c, SuperpeerNodes(v), Wanted(p, v[c]))
           /\ \A e : Listed(BackboneLinks(Ids(SuperpeerNodes(v)), p.degree), e)
                        => Listed(Links(v, p, reports), e)
  <1>1. PICK none, S, peers, base, attached, kept :
           /\ none = {} /\ S = Online(v) /\ peers = SuperpeerNodes(v)
           /\ base = BackboneLinks(Ids(peers), p.degree)
           /\ attached = Attached(v, p, reports)
           /\ kept = RemoveBlockedEdges(attached, none)
    OBVIOUS
  <1>2. base \in Seq(Proper(S))
    <2>1. p.degree \in Nat
      BY DEF LinkPolicies
    <2>2. /\ S \in SUBSET Nat /\ peers \in SUBSET S /\ peers \in SUBSET Nat
          /\ Ids(peers) \in Seq(peers)
      BY <1>1, ClientsListed
    <2>3. base \in Seq(Proper(peers))
      BY <1>1, <2>1, <2>2, BackboneProper
    <2>4. Proper(peers) \subseteq Proper(S)
      BY <2>2 DEF Proper
    <2> QED
      BY <2>3, <2>4
  <1>3. attached = AddAutomaticClientLinks(base, v, peers, {}, p, reports)
    BY <1>1 DEF Attached
  <1>4. /\ \A e : Listed(base, e) => Listed(attached, e)
        /\ \A c \in ClientsOf(v) : Enough(attached, c, peers, Wanted(p, v[c]))
    <2>1. base \in Seq(Proper(Online(v)))
          /\ attached = AddAutomaticClientLinks(base, v, SuperpeerNodes(v), {}, p, reports)
      BY <1>1, <1>2, <1>3
    <2>2. /\ \A e : Listed(base, e) => Listed(attached, e)
          /\ \A c \in ClientsOf(v) : Enough(attached, c, SuperpeerNodes(v), Wanted(p, v[c]))
      BY <2>1, AutomaticEnough
    <2> QED
      BY <1>1, <2>2
  <1>5. attached \in Seq(Proper(S)) /\ Links(v, p, reports) = EnsureConnected(kept, v, none)
    BY <1>1, LinksFromAttached
  <1>6. \A e : Listed(attached, e) => Listed(kept, e)
    <2>1. ASSUME NEW e, Listed(attached, e) PROVE Listed(kept, e)
      <3>1. EdgeKey(e) \notin none
        BY <1>1
      <3>2. PICK E : E = Proper(S) /\ attached \in Seq(E)
        BY <1>5
      <3>3. Listed(RemoveBlockedEdges(attached, none), e)
        BY <2>1, <3>1, <3>2, RemoveBlockedLists
      <3> QED
        BY <1>1, <3>3
    <2> QED
      BY <2>1
  <1>7. kept \in Seq(Proper(S))
    <2>1. RemoveBlockedEdges(attached, none) \in Seq({e \in Proper(S) : EdgeKey(e) \notin none})
      BY <1>5, RemoveBlockedKeeps
    <2> QED
      BY <1>1, <2>1
  <1>8. \A e : Listed(kept, e) => Listed(Links(v, p, reports), e)
    <2>1. PICK root, roots, m, bridges : EnsureShape(v, kept, none, root, roots, m, bridges)
      BY <1>1, <1>7, EnsureIsShaped
    <2> DEFINE E == {e \in Proper(S) : EdgeKey(e) \notin none}
    <2>2. bridges \in Seq(Seq(E)) /\ EnsureConnected(kept, v, none) = kept \o FlattenSeq(bridges)
      BY <1>1, <2>1 DEF EnsureShape
    <2>3. E = Proper(S)
      BY <1>1
    <2> HIDE DEF E
    <2>4. FlattenSeq(bridges) \in Seq(E) /\ kept \in Seq(E)
      BY <1>7, <2>2, <2>3, FlattenKeeps
    <2>5. PICK t : t = FlattenSeq(bridges) /\ t \in Seq(E)
      BY <2>4
    <2>6. ASSUME NEW e, Listed(kept, e) PROVE Listed(kept \o t, e)
      BY <2>4, <2>5, <2>6, ListedInBoth
    <2> QED
      BY <1>5, <2>2, <2>5, <2>6
  <1>9. \A e : Listed(attached, e) => Listed(Links(v, p, reports), e)
    BY <1>6, <1>8
  <1>10. ASSUME NEW c \in ClientsOf(v) PROVE Enough(Links(v, p, reports), c, peers, Wanted(p, v[c]))
    <2>1. PICK w, links, kind : kind = v[c] /\ w = Wanted(p, kind) /\ links = Links(v, p, reports)
      OBVIOUS
    <2>2. w \in Nat /\ peers \in SUBSET Nodes
      <3>1. Wanted(p, kind) \in Nat
        BY WantedType
      <3> QED
        BY <1>1, <2>1, <3>1 DEF SuperpeerNodes
    <2>3. Enough(attached, c, peers, w) /\ \A e : Listed(attached, e) => Listed(links, e)
      BY <1>4, <1>9, <2>1
    <2>4. Enough(links, c, peers, w)
      BY <2>2, <2>3, EnoughGrows
    <2> QED
      BY <2>1, <2>4
  <1> QED
    BY <1>1, <1>4, <1>9, <1>10

\* What is the same for every two neighbours of a row is the same for all.
LEMMA Along ==
    ASSUME NEW lo \in Nat, NEW hi \in Nat, NEW J,
           \A j \in lo..hi : j + 1 \in lo..hi => (j \in J <=> j + 1 \in J)
    PROVE  \A a, b \in lo..hi : a \in J => b \in J
  <1> SUFFICES ASSUME NEW a \in lo..hi, NEW b \in lo..hi, a \in J PROVE b \in J
    OBVIOUS
  <1>1. PICK n \in Nat : n = hi - lo
    OBVIOUS
  <1> DEFINE B == {k \in 0..n : lo + k \in J <=> lo \in J}
  <1>2. 0 \in B
    <2>1. lo + 0 = lo /\ 0 \in 0..n
      OBVIOUS
    <2> QED
      BY <2>1
  <1>3. ASSUME NEW k \in 0..n - 1, k \in B PROVE k + 1 \in B
    <2>1. PICK j \in lo..hi : j = lo + k /\ j + 1 \in lo..hi /\ j + 1 = lo + (k + 1)
      BY <1>1
    <2>2. j \in J <=> j + 1 \in J
      BY <2>1
    <2>3. k + 1 \in 0..n
      OBVIOUS
    <2> QED
      BY <1>3, <2>1, <2>2, <2>3
  <1> HIDE DEF B
  <1>4. \A k \in 0..n : k \in B
    BY <1>2, <1>3, CountUp
  <1>5. ASSUME NEW j \in lo..hi PROVE j \in J <=> lo \in J
    <2>1. PICK k \in 0..n : lo + k = j
      BY <1>1
    <2> QED
      BY <1>4, <2>1 DEF B
  <1> QED
    BY <1>5

\* A ring of r places without at most one of them, g, is a row.
LEMMA RingWithout ==
    ASSUME NEW r \in Nat, NEW J, NEW g \in Nat,
           \A i \in 1..r : i # g /\ After(i, r) # g => (i \in J <=> After(i, r) \in J),
           NEW a \in 1..r, NEW b \in 1..r, a # g, b # g, a \in J
    PROVE  b \in J
  <1>1. ASSUME NEW lo \in 1..(r + 1), NEW hi \in 0..r, g \notin lo..hi
        PROVE  \A x, y \in lo..hi : x \in J => y \in J
    <2>1. ASSUME NEW j \in lo..hi, j + 1 \in lo..hi PROVE j \in J <=> j + 1 \in J
      <3>1. j \in 1..r /\ j # r /\ j # g /\ j + 1 # g
        BY <1>1, <2>1
      <3>2. After(j, r) = j + 1
        BY <3>1 DEF After
      <3> QED
        BY <3>1, <3>2
    <2>2. lo \in Nat /\ hi \in Nat
      OBVIOUS
    <2>3. \A j \in lo..hi : j + 1 \in lo..hi => (j \in J <=> j + 1 \in J)
      BY <2>1
    <2> QED
      BY <2>2, <2>3, Along
  <1>2. CASE g \notin 1..r
    <2>1. 1 \in 1..(r + 1) /\ r \in 0..r
      OBVIOUS
    <2>2. \A x, y \in 1..r : x \in J => y \in J
      BY <1>1, <1>2, <2>1
    <2> QED
      BY <2>2
  <1>3. CASE g \in 1..r
    <2>1. /\ g - 1 \in 0..r /\ g \notin 1..(g - 1) /\ 1 \in 1..(r + 1)
          /\ g + 1 \in 1..(r + 1) /\ g \notin (g + 1)..r /\ r \in 0..r
      BY <1>3
    <2>2. \A x, y \in 1..(g - 1) : x \in J => y \in J
      BY <1>1, <2>1
    <2>3. \A x, y \in (g + 1)..r : x \in J => y \in J
      BY <1>1, <2>1
    <2>4. \A x \in 1..r : x # g => x \in 1..(g - 1) \/ x \in (g + 1)..r
      BY <1>3
    <2>5. CASE a \in 1..(g - 1) /\ b \in 1..(g - 1)
      BY <2>2, <2>5
    <2>6. CASE a \in (g + 1)..r /\ b \in (g + 1)..r
      BY <2>3, <2>6
    <2>7. CASE a \in 1..(g - 1) /\ b \in (g + 1)..r
      <3>1. 1 \in 1..(g - 1) /\ r \in (g + 1)..r /\ r \in 1..r /\ r # g /\ 1 # g
        BY <1>3, <2>7
      <3>2. 1 \in J
        BY <2>2, <2>7, <3>1
      <3>3. After(r, r) = 1
        BY DEF After
      <3>4. r \in J
        BY <3>1, <3>2, <3>3
      <3> QED
        BY <2>3, <2>7, <3>1, <3>4
    <2>8. CASE a \in (g + 1)..r /\ b \in 1..(g - 1)
      <3>1. 1 \in 1..(g - 1) /\ r \in (g + 1)..r /\ r \in 1..r /\ r # g /\ 1 # g
        BY <1>3, <2>8
      <3>2. r \in J
        BY <2>3, <2>8, <3>1
      <3>3. After(r, r) = 1
        BY DEF After
      <3>4. 1 \in J
        BY <3>1, <3>2, <3>3
      <3> QED
        BY <2>2, <2>8, <3>1, <3>4
    <2> QED
      BY <2>4, <2>5, <2>6, <2>7, <2>8
  <1> QED
    BY <1>2, <1>3

\* A client with the links it wants keeps one when at most one superpeer is
\* lost, if it wants two and there are as many.
LEMMA NeighbourLeft ==
    ASSUME NEW links, NEW c, NEW relays \in SUBSET Nodes, relays # {}, NEW want \in Nat,
           want >= 1, Enough(links, c, relays, want), NEW gone,
           \/ gone = {}
           \/ want >= 2 /\ Cardinality(relays) >= 2 /\ \E g : gone = {g}
    PROVE  \E q \in relays \ gone : {c, q} \in EdgesOf(links)
  <1>1. PICK X \in SUBSET Nodes : X = LinkedTo(links, c) \cap relays
    OBVIOUS
  <1>2. IsFiniteSet(X) /\ IsFiniteSet(relays) /\ Cardinality(X) \in Nat
    BY LinkGraphConstants, FS_Subset, FS_CardinalityType
  <1>3. Cardinality(X) >= want \/ X = relays
    BY <1>1 DEF Enough
  <1>4. PICK q \in X : q \notin gone
    <2>1. CASE gone = {}
      <3>1. X # {}
        <4>1. Cardinality(X) >= want => Cardinality(X) # 0
          BY <1>2
        <4>2. X = {} => Cardinality(X) = 0
          BY FS_EmptySet
        <4> QED
          BY <1>3, <4>1, <4>2
      <3> QED
        BY <2>1, <3>1
    <2>2. CASE want >= 2 /\ Cardinality(relays) >= 2 /\ \E g : gone = {g}
      <3>1. PICK g : gone = {g}
        BY <2>2
      <3>2. Cardinality(X) >= 2
        BY <1>2, <1>3, <2>2
      <3>3. IsFiniteSet(gone) /\ Cardinality(gone) = 1
        BY <3>1, FS_Singleton
      <3>4. X \subseteq gone => Cardinality(X) <= Cardinality(gone)
        BY <3>3, FS_Subset
      <3>5. ~(X \subseteq gone)
        BY <1>2, <3>2, <3>3, <3>4
      <3> QED
        BY <3>5
    <2> QED
      BY <2>1, <2>2
  <1>5. q \in relays /\ \E i \in DOMAIN links : EdgeKey(links[i]) = {c, q}
    BY <1>1 DEF LinkedTo
  <1>6. {c, q} \in EdgesOf(links)
    BY <1>5 DEF EdgesOf
  <1> QED
    BY <1>4, <1>5, <1>6

\* The links that do not touch gone.
Left(edges, gone) == {e \in edges : e \cap gone = {}}

\* On a ring of relays without at most one of them, with a client at a relay
\* that is left, all that is left is reached through relays.
LEMMA RelayGraph ==
    ASSUME NEW relays \in SUBSET Nodes, NEW clients \in SUBSET Nodes,
           relays \cap clients = {}, NEW r \in Nat, NEW sp \in [1..r -> relays],
           \A i, j \in 1..r : i # j => sp[i] # sp[j],
           \A x \in relays : \E i \in 1..r : sp[i] = x,
           NEW edges,
           \A i \in 1..r : sp[i] # sp[After(i, r)] => {sp[i], sp[After(i, r)]} \in edges,
           NEW gone, gone = {} \/ \E x \in relays : gone = {x},
           \A c \in clients : \E q \in relays \ gone : {c, q} \in edges,
           NEW n \in (relays \cup clients) \ gone
    PROVE  (relays \cup clients) \ gone \subseteq Reach(Left(edges, gone), {n}, relays \ gone)
  <1>1. PICK from, live, Via, R :
           /\ from = {n} /\ live = Left(edges, gone) /\ Via = relays \ gone
           /\ R = Reach(live, from, Via)
    OBVIOUS
  <1>2. from \in SUBSET Nodes /\ from # {} /\ n \in from
    BY <1>1
  <1>3. /\ from \subseteq R /\ R \subseteq Nodes
        /\ \A m \in R \cap (Via \cup from), x \in Nodes : {m, x} \in live => x \in R
    BY <1>1, <1>2, ReachIsClosed
  <1>4. \A a, b : {a, b} \in edges /\ a \notin gone /\ b \notin gone => {a, b} \in live
    BY <1>1 DEF Left
  <1>5. \A a, b : {a, b} = {b, a}
    OBVIOUS
  <1>6. PICK a0 \in Via : a0 \in R
    <2>1. CASE n \in relays
      BY <1>1, <1>2, <1>3, <2>1
    <2>2. CASE n \in clients
      <3>1. PICK q \in Via : {n, q} \in edges
        BY <1>1, <2>2
      <3>2. {n, q} \in live
        BY <1>1, <1>4, <3>1
      <3> QED
        BY <1>1, <1>2, <1>3, <3>1, <3>2
    <2> QED
      BY <2>1, <2>2
  <1> DEFINE J == {j \in 1..r : sp[j] \in R}
  <1>7. PICK g \in Nat : \A i \in 1..r : sp[i] \in gone <=> i = g
    <2>1. CASE gone = {}
      <3>1. 0 \in Nat /\ \A i \in 1..r : sp[i] \in gone <=> i = 0
        BY <2>1
      <3> QED
        BY <3>1
    <2>2. ASSUME NEW x \in relays, gone = {x}
          PROVE  \E g \in Nat : \A i \in 1..r : sp[i] \in gone <=> i = g
      <3>1. PICK g \in 1..r : sp[g] = x
        OBVIOUS
      <3>2. g \in Nat /\ \A i \in 1..r : sp[i] \in gone <=> i = g
        BY <2>2, <3>1
      <3> QED
        BY <3>2
    <2> QED
      BY <2>1, <2>2
  <1>8. \A i \in 1..r : After(i, r) \in 1..r
    BY DEF After
  <1>9. ASSUME NEW i \in 1..r, i # g, After(i, r) # g PROVE i \in J <=> After(i, r) \in J
    <2>1. PICK k \in 1..r : k = After(i, r)
      BY <1>8
    <2>2. CASE sp[i] = sp[k]
      BY <2>1, <2>2
    <2>3. CASE sp[i] # sp[k]
      <3>1. PICK x \in Via : x = sp[i]
        BY <1>1, <1>7, <1>9
      <3>2. PICK y \in Via : y = sp[k]
        BY <1>1, <1>7, <1>9, <2>1
      <3>3. {x, y} \in edges
        BY <2>1, <2>3, <3>1, <3>2
      <3>4. x \notin gone /\ y \notin gone /\ x \in Nodes /\ y \in Nodes
        BY <1>1
      <3>5. {x, y} \in live
        BY <1>4, <3>3, <3>4
      <3>6. {y, x} \in live
        BY <1>5, <3>5
      <3>7. x \in R => y \in R
        BY <1>3, <3>4, <3>5
      <3>8. y \in R => x \in R
        BY <1>3, <3>4, <3>6
      <3> QED
        BY <2>1, <3>1, <3>2, <3>7, <3>8
    <2> QED
      BY <2>2, <2>3
  <1>10. PICK a \in 1..r : sp[a] = a0 /\ a # g /\ a \in J
    <2>1. a0 \in relays /\ a0 \notin gone
      BY <1>1
    <2>2. PICK a \in 1..r : sp[a] = a0
      BY <2>1
    <2> QED
      BY <1>6, <1>7, <2>1, <2>2
  <1> HIDE DEF J
  <1>11. ASSUME NEW b \in 1..r, b # g PROVE b \in J
    <2>1. \A i \in 1..r : i # g /\ After(i, r) # g => (i \in J <=> After(i, r) \in J)
      BY <1>9
    <2> QED
      BY <1>10, <1>11, <2>1, RingWithout
  <1>12. Via \subseteq R
    <2> SUFFICES ASSUME NEW x \in Via PROVE x \in R
      OBVIOUS
    <2>1. x \in relays /\ x \notin gone
      BY <1>1
    <2>2. PICK b \in 1..r : sp[b] = x
      BY <2>1
    <2>3. b # g
      BY <1>7, <2>1, <2>2
    <2> QED
      BY <1>11, <2>2, <2>3 DEF J
  <1>13. ASSUME NEW c \in clients PROVE c \in R
    <2>1. PICK q \in Via : {c, q} \in edges
      BY <1>1
    <2>2. c \notin gone /\ q \notin gone
      BY <1>1
    <2>3. {q, c} \in live
      BY <1>4, <1>5, <2>1, <2>2
    <2> QED
      BY <1>3, <1>12, <2>1, <2>3
  <1> QED
    BY <1>1, <1>12, <1>13

\* Without manual links and blocks, superpeers relay between all online nodes,
\* also after the loss of one of three when every client wants two links.
LEMMA LinksRelay ==
    ASSUME NEW v \in Views, NEW p \in LinkPolicies, NEW reports, Readable(reports),
           SuperpeerNodes(v) # {}, ManualLinksForNodes(v, p) = <<>>, BlockedEdgeSet(v, p) = {},
           NEW gone,
           \/ gone = {}
           \/ /\ Cardinality(SuperpeerNodes(v)) >= 3
              /\ p.clientLinks >= 2 /\ p.symmetricLinks >= 2
              /\ \E x \in SuperpeerNodes(v) : gone = {x},
           NEW n \in Online(v) \ gone
    PROVE  Online(v) \ gone \subseteq
              Reach(Left(EdgesOf(Links(v, p, reports)), gone), {n}, SuperpeerNodes(v) \ gone)
  <1>1. PICK relays, clients, links, edges, sp, r :
           /\ relays = SuperpeerNodes(v) /\ clients = ClientsOf(v)
           /\ links = Links(v, p, reports) /\ edges = EdgesOf(links)
           /\ sp = Ids(relays) /\ r = Cardinality(relays)
    OBVIOUS
  <1>2. /\ relays \in SUBSET Nodes /\ clients \in SUBSET Nodes /\ relays \cap clients = {}
        /\ Online(v) = relays \cup clients
    BY <1>1 DEF SuperpeerNodes, ClientsOf, Online, Clients, Views, Kinds
  <1>3. relays \in SUBSET Nat /\ IsFiniteSet(relays)
    BY <1>2, LinkGraphConstants, FS_Subset
  <1>4. /\ sp \in Seq(relays) /\ Len(sp) = r /\ r \in Nat
        /\ \A i, j \in 1..r : i # j => sp[i] # sp[j]
        /\ \A x \in relays : \E i \in 1..r : sp[i] = x
    <2>1. /\ Ids(relays) \in Seq(relays) /\ Len(Ids(relays)) = Cardinality(relays)
          /\ Cardinality(relays) \in Nat
          /\ \A i, j \in 1..Cardinality(relays) : i # j => Ids(relays)[i] # Ids(relays)[j]
          /\ \A x \in relays : \E i \in 1..Cardinality(relays) : Ids(relays)[i] = x
      BY <1>3, IdsIsSeq
    <2> QED
      BY <1>1, <2>1
  <1>5. sp \in [1..r -> relays]
    BY <1>4
  <1>6. ASSUME NEW i \in 1..r, sp[i] # sp[After(i, r)] PROVE {sp[i], sp[After(i, r)]} \in edges
    <2>1. PICK k \in 1..r : k = After(i, r)
      BY <1>4 DEF After
    <2>2. r >= 2
      BY <1>4, <1>6, <2>1
    <2>3. PICK a, b \in relays : a = sp[i] /\ b = sp[k]
      BY <1>5, <2>1
    <2>4. p.degree \in Nat
      BY DEF LinkPolicies
    <2>5. Len(sp) >= 2 /\ i \in 1..Len(sp) /\ sp[i] # sp[After(i, Len(sp))]
      BY <1>4, <1>6, <2>2
    <2>6. Listed(BackboneLinks(sp, p.degree), InOrder(sp[i], sp[After(i, Len(sp))]))
      BY <1>3, <1>4, <2>4, <2>5, BackboneHasRing
    <2>7. Listed(BackboneLinks(sp, p.degree), InOrder(a, b))
      BY <1>4, <2>1, <2>3, <2>6
    <2>8. Listed(links, InOrder(a, b))
      <3>1. \A e : Listed(BackboneLinks(Ids(SuperpeerNodes(v)), p.degree), e)
                      => Listed(Links(v, p, reports), e)
        BY LinksHave
      <3> QED
        BY <1>1, <2>7, <3>1
    <2>9. EdgeKey(InOrder(a, b)) = {a, b}
      BY DEF EdgeKey, InOrder
    <2>10. {a, b} \in edges
      BY <1>1, <2>8, <2>9 DEF Listed, EdgesOf
    <2> QED
      BY <2>1, <2>3, <2>10
  <1>7. gone = {} \/ \E x \in relays : gone = {x}
    BY <1>1
  <1>8. ASSUME NEW c \in clients PROVE \E q \in relays \ gone : {c, q} \in edges
    <2>1. PICK want : want = Wanted(p, v[c])
      OBVIOUS
    <2>2. /\ want \in Nat /\ want >= 1
          /\ p.clientLinks >= 2 /\ p.symmetricLinks >= 2 => want >= 2
      BY <2>1, WantedType
    <2>3. Enough(links, c, relays, want)
      BY <1>1, <2>1, LinksHave
    <2>4. \/ gone = {}
          \/ want >= 2 /\ Cardinality(relays) >= 2 /\ \E g : gone = {g}
      <3>1. r >= 3 => Cardinality(relays) >= 2
        BY <1>1, <1>4
      <3> QED
        BY <1>1, <2>2, <3>1
    <2>5. relays # {}
      BY <1>1
    <2>6. \E q \in relays \ gone : {c, q} \in EdgesOf(links)
      BY <1>2, <2>2, <2>3, <2>4, <2>5, NeighbourLeft
    <2> QED
      BY <1>1, <2>6
  <1>9. n \in (relays \cup clients) \ gone
    BY <1>2
  <1>10. (relays \cup clients) \ gone \subseteq Reach(Left(edges, gone), {n}, relays \ gone)
    <2>1. \A i \in 1..r : sp[i] # sp[After(i, r)] => {sp[i], sp[After(i, r)]} \in edges
      BY <1>6
    <2>2. \A c \in clients : \E q \in relays \ gone : {c, q} \in edges
      BY <1>8
    <2> QED
      BY <1>2, <1>4, <1>5, <1>7, <1>9, <2>1, <2>2, RelayGraph
  <1> QED
    BY <1>1, <1>2, <1>10

-----------------------------------------------------------------------------
(* The entries of the cache. *)

\* The stages of a bootstrap, and what it has read.
Staged(h) ==
    /\ pc[h] = "idle" => req[h] = Idle
    /\ pc[h] = "rows" => req[h].view \in Views
    /\ pc[h] = "key" => req[h] \in Keys
    /\ pc[h] = "build" => /\ req[h].key \in Keys
                          /\ req[h].blocked \in SUBSET Pairs /\ req[h].degree \in Nat

StagesOK ==
    /\ view \in Views
    /\ lock \in Handlers \cup {NoOne}
    /\ edits \in 0..MaxEdits
    /\ \A h \in Handlers : Staged(h)

\* The entry holds what links makes of the policy p and of some reports.
BuiltFrom(entry, p) ==
    \E m \in [Reported -> {"up", "down", "unknown"}] : entry.links = Links(entry.key.view, p, m)

\* Every entry was built from some policy: between a commit and the
\* invalidation it may have been a mixture of two.
EntriesBuilt ==
    \A entry \in cache : entry.key \in Keys /\ \E p \in LinkPolicies : BuiltFrom(entry, p)

\* Once the edits are invalidated it is the policy of now.
PolicyOfNow == ~flushing => \A entry \in cache : BuiltFrom(entry, policy)

BuiltInv == IInv /\ StagesOK /\ EntriesBuilt /\ PolicyOfNow

\* What is in the cache stays what it was.
LEMMA SameEntries ==
    ASSUME EntriesBuilt, PolicyOfNow, UNCHANGED <<cache, policy>>, ~flushing' => ~flushing
    PROVE  EntriesBuilt' /\ PolicyOfNow'
  BY DEF EntriesBuilt, PolicyOfNow

\* An empty cache holds nothing wrong.
LEMMA NoEntries == ASSUME cache' = {} PROVE EntriesBuilt' /\ PolicyOfNow'
  BY DEF EntriesBuilt, PolicyOfNow

\* The other handlers are where they were.
LEMMA SameStages ==
    ASSUME StagesOK, StateOK, NEW h \in Handlers, NEW stage, NEW read,
           pc' = [pc EXCEPT ![h] = stage], req' = [req EXCEPT ![h] = read],
           view' = view, edits' = edits, lock' \in {lock, h, NoOne},
           /\ stage = "idle" => read = Idle
           /\ stage = "rows" => read.view \in Views
           /\ stage = "key" => read \in Keys
           /\ stage = "build" => /\ read.key \in Keys
                                 /\ read.blocked \in SUBSET Pairs /\ read.degree \in Nat
    PROVE  StagesOK'
  <1>1. \A g \in Handlers : /\ g # h => pc'[g] = pc[g] /\ req'[g] = req[g]
                            /\ pc'[h] = stage /\ req'[h] = read
    BY DEF StateOK
  <1>2. \A g \in Handlers : Staged(g)'
    BY <1>1 DEF StagesOK, Staged
  <1> QED
    BY <1>2 DEF StagesOK

\* A bootstrap reads, and finds its answer or begins to build.
LEMMA BuiltReads ==
    ASSUME BuiltInv, NEW h \in Handlers, ReadRows(h) \/ MakeKey(h) \/ Lookup(h)
    PROVE  StagesOK' /\ EntriesBuilt' /\ PolicyOfNow'
  <1>1. StateOK /\ StagesOK /\ EntriesBuilt /\ PolicyOfNow
    BY DEF BuiltInv, IInv
  <1>2. EntriesBuilt' /\ PolicyOfNow'
    BY <1>1, SameEntries DEF ReadRows, MakeKey, Lookup
  <1>3. CASE ReadRows(h)
    <2>1. PICK read : read = [view |-> view]
      OBVIOUS
    <2>2. pc' = [pc EXCEPT ![h] = "rows"] /\ req' = [req EXCEPT ![h] = read] /\ read.view \in Views
      BY <1>1, <1>3, <2>1 DEF ReadRows, StagesOK
    <2>3. view' = view /\ edits' = edits /\ lock' \in {lock, h, NoOne}
      BY <1>3 DEF ReadRows
    <2> QED
      BY <1>1, <1>2, <2>2, <2>3, SameStages
  <1>4. CASE MakeKey(h)
    <2>1. PICK read : read = [view |-> req[h].view, stamp |-> stamp]
      OBVIOUS
    <2>2. req[h].view \in Views /\ stamp \in Nat
      BY <1>1, <1>4 DEF MakeKey, StagesOK, Staged, StateOK
    <2>3. pc' = [pc EXCEPT ![h] = "key"] /\ req' = [req EXCEPT ![h] = read] /\ read \in Keys
      BY <1>4, <2>1, <2>2 DEF MakeKey, Keys
    <2>4. view' = view /\ edits' = edits /\ lock' \in {lock, h, NoOne}
      BY <1>4 DEF MakeKey
    <2> QED
      BY <1>1, <1>2, <2>3, <2>4, SameStages
  <1>5. CASE Lookup(h)
    <2>1. view' = view /\ edits' = edits /\ lock' \in {lock, h, NoOne}
      BY <1>5 DEF Lookup
    <2>2. CASE pc' = [pc EXCEPT ![h] = "idle"] /\ req' = [req EXCEPT ![h] = Idle]
      <3>1. PICK read : read = Idle
        OBVIOUS
      <3> QED
        BY <1>1, <1>2, <2>1, <2>2, <3>1, SameStages
    <2>3. CASE /\ pc' = [pc EXCEPT ![h] = "build"]
               /\ req' = [req EXCEPT ![h] = [key |-> req[h], blocked |-> policy.blocked,
                                             degree |-> policy.degree]]
      <3>1. PICK read : read = [key |-> req[h], blocked |-> policy.blocked,
                                degree |-> policy.degree]
        OBVIOUS
      <3>2. req[h] \in Keys /\ policy.blocked \in SUBSET Pairs /\ policy.degree \in Nat
        BY <1>1, <1>5 DEF Lookup, StagesOK, Staged, StateOK, LinkPolicies
      <3>3. read.key = req[h] /\ read.blocked = policy.blocked /\ read.degree = policy.degree
        BY <3>1
      <3> QED
        BY <1>1, <1>2, <2>1, <2>3, <3>1, <3>2, <3>3, SameStages
    <2> QED
      BY <1>5, <2>2, <2>3 DEF Lookup
  <1> QED
    BY <1>3, <1>4, <1>5

\* The new entry holds what links made of the policy it saw.
LEMMA BuiltStore ==
    ASSUME BuiltInv, NEW h \in Handlers, Store(h)
    PROVE  StagesOK' /\ EntriesBuilt' /\ PolicyOfNow'
  <1>1. IInv /\ StateOK /\ StagesOK /\ EntriesBuilt /\ PolicyOfNow
    BY DEF BuiltInv, IInv
  <1>2. PICK seen, reports, entry :
           /\ seen = [policy EXCEPT !.blocked = req[h].blocked, !.degree = req[h].degree]
           /\ reports = Ranked(metric)
           /\ entry = [key |-> req[h].key, links |-> Links(req[h].key.view, seen, reports)]
    OBVIOUS
  <1>3. /\ pc[h] = "build" /\ cache' = cache \cup {entry} /\ lock' = NoOne
        /\ pc' = [pc EXCEPT ![h] = "idle"] /\ req' = [req EXCEPT ![h] = Idle]
        /\ UNCHANGED <<view, policy, flushing, edits>>
    BY <1>2 DEF Store, Done
  <1>4. entry.key = req[h].key /\ entry.links = Links(entry.key.view, seen, reports)
    BY <1>2
  <1>5. req[h].key \in Keys /\ req[h].blocked \in SUBSET Pairs /\ req[h].degree \in Nat
    BY <1>1, <1>3 DEF StagesOK, Staged
  <1>6. seen \in LinkPolicies
    BY <1>1, <1>2, <1>5 DEF StateOK, LinkPolicies
  <1>7. reports \in [Reported -> {"up", "down", "unknown"}]
    BY <1>2 DEF Ranked
  <1>8. BuiltFrom(entry, seen)
    BY <1>4, <1>7 DEF BuiltFrom
  <1>9. ~flushing => seen = policy
    BY <1>1, <1>2, <1>3, SeenIsPolicy
  <1>10. EntriesBuilt'
    BY <1>1, <1>3, <1>4, <1>5, <1>6, <1>8 DEF EntriesBuilt
  <1>11. PolicyOfNow'
    BY <1>1, <1>3, <1>8, <1>9 DEF PolicyOfNow
  <1>12. StagesOK'
    <2>1. PICK read : read = Idle
      OBVIOUS
    <2> QED
      BY <1>1, <1>3, <2>1, SameStages
  <1> QED
    BY <1>10, <1>11, <1>12

\* A panic leaves no entry.
LEMMA BuiltPanic ==
    ASSUME BuiltInv, NEW h \in Handlers, RequestPanics(h) \/ PushPanics(h)
    PROVE  StagesOK' /\ EntriesBuilt' /\ PolicyOfNow'
  <1>1. StateOK /\ StagesOK
    BY DEF BuiltInv, IInv
  <1>2. EntriesBuilt' /\ PolicyOfNow'
    BY NoEntries DEF RequestPanics, PushPanics
  <1>3. CASE RequestPanics(h)
    <2>1. PICK read : read = Idle
      OBVIOUS
    <2>2. /\ pc' = [pc EXCEPT ![h] = "idle"] /\ req' = [req EXCEPT ![h] = read]
          /\ view' = view /\ edits' = edits /\ lock' \in {lock, h, NoOne}
      BY <1>3, <2>1 DEF RequestPanics, Done
    <2> QED
      BY <1>1, <1>2, <2>1, <2>2, SameStages
  <1>4. CASE PushPanics(h)
    <2>1. \A g \in Handlers : pc'[g] = "idle" /\ req'[g] = Idle
      BY <1>4 DEF PushPanics
    <2>2. \A g \in Handlers : Staged(g)'
      BY <2>1 DEF Staged
    <2> QED
      BY <1>1, <1>2, <1>4, <2>2 DEF PushPanics, StagesOK
  <1> QED
    BY <1>3, <1>4

\* A step that is not a handler's.
LEMMA BuiltElsewhere ==
    ASSUME BuiltInv,
           \/ UNCHANGED vars
           \/ \E n \in Nodes, kind \in Kinds : NodeChanges(n, kind)
           \/ \E next \in Policies : AdminCommit(next)
           \/ AdminInvalidate
           \/ \E p \in Reported, now \in {"up", "down"} : UpdateLinkMetrics(p, now)
           \/ BumpStamp
           \/ \E p \in Reported : MetricAges(p)
    PROVE  StagesOK' /\ EntriesBuilt' /\ PolicyOfNow'
  <1>1. StagesOK /\ EntriesBuilt /\ PolicyOfNow /\ MaxEdits \in Nat
    BY LinkCacheConstants DEF BuiltInv
  <1>2. /\ UNCHANGED <<lock, pc, req>>
        /\ edits' = edits \/ (edits < MaxEdits /\ edits' = edits + 1)
    BY DEF vars, NodeChanges, AdminCommit, AdminInvalidate, UpdateLinkMetrics, BumpStamp, MetricAges
  <1>3. view' \in Views
    BY <1>1 DEF vars, NodeChanges, AdminCommit, AdminInvalidate, UpdateLinkMetrics, BumpStamp,
                MetricAges, StagesOK, Views
  <1>4. edits' \in 0..MaxEdits
    BY <1>1, <1>2 DEF StagesOK
  <1>5. \A h \in Handlers : Staged(h)'
    BY <1>1, <1>2 DEF StagesOK, Staged
  <1>6. StagesOK'
    BY <1>1, <1>2, <1>3, <1>4, <1>5 DEF StagesOK
  <1>7. CASE AdminInvalidate
    BY <1>6, <1>7, NoEntries DEF AdminInvalidate
  <1>8. CASE \E next \in Policies : AdminCommit(next)
    BY <1>1, <1>6, <1>8 DEF AdminCommit, EntriesBuilt, PolicyOfNow
  <1>9. CASE UNCHANGED <<cache, policy, flushing>>
    BY <1>1, <1>6, <1>9, SameEntries
  <1> QED
    BY <1>7, <1>8, <1>9 DEF vars, NodeChanges, UpdateLinkMetrics, BumpStamp, MetricAges

\* The invariant holds in every state the coordinator reaches.
THEOREM BuiltInvariant == Spec => []BuiltInv
  <1>1. Init => BuiltInv
    <2> SUFFICES ASSUME Init PROVE BuiltInv
      OBVIOUS
    <2>1. IInv
      BY CacheInit
    <2>2. \A h \in Handlers : Staged(h)
      BY DEF Init, Staged
    <2>3. StagesOK
      BY <2>2, LinkCacheConstants DEF Init, StagesOK
    <2>4. EntriesBuilt /\ PolicyOfNow
      BY DEF Init, EntriesBuilt, PolicyOfNow
    <2> QED
      BY <2>1, <2>3, <2>4 DEF BuiltInv
  <1>2. BuiltInv /\ [Next]_vars => BuiltInv'
    <2> SUFFICES ASSUME BuiltInv, [Next]_vars PROVE BuiltInv'
      OBVIOUS
    <2>1. IInv'
      BY CacheStep DEF BuiltInv
    <2>2. StagesOK' /\ EntriesBuilt' /\ PolicyOfNow'
      <3>1. CASE \E h \in Handlers : Bootstrap(h)
        BY <3>1, BuiltReads, BuiltStore, BuiltPanic DEF Bootstrap
      <3> QED
        BY <3>1, BuiltElsewhere DEF Next
    <2> QED
      BY <2>1, <2>2 DEF BuiltInv
  <1> QED
    BY <1>1, <1>2, PTL DEF Spec

-----------------------------------------------------------------------------
(* What the entries are worth. *)

\* The reports of an entry are readable.
LEMMA ReadingIsReadable ==
    ASSUME NEW m \in [Reported -> {"up", "down", "unknown"}] PROVE Readable(m)
  BY DEF Readable

\* Every link of an entry is between two nodes that are online in its key.
LEMMA EntryLinks ==
    ASSUME NEW v \in Views, NEW p \in LinkPolicies,
           NEW m \in [Reported -> {"up", "down", "unknown"}],
           NEW i \in DOMAIN Links(v, p, m)
    PROVE  EdgeKey(Links(v, p, m)[i]) \in Pairs /\ EdgeKey(Links(v, p, m)[i]) \notin p.blocked
  <1>1. PICK links, S : links = Links(v, p, m) /\ S = Online(v)
    OBVIOUS
  <1>2. links \in Seq({e \in Proper(S) : EdgeKey(e) \notin p.blocked})
    BY <1>1, ReadingIsReadable, LinksAllowed
  <1>3. PICK e : e = links[i]
    OBVIOUS
  <1>4. e \in Proper(S) /\ EdgeKey(e) \notin p.blocked
    BY <1>1, <1>2, <1>3
  <1>5. e[1] \in Nodes /\ e[2] \in Nodes /\ e[1] # e[2]
    BY <1>1, <1>4 DEF Proper, Online
  <1>6. EdgeKey(e) \in Pairs
    BY <1>5, PairOfTwo DEF EdgeKey
  <1> QED
    BY <1>1, <1>3, <1>4, <1>6

\* A bootstrap has read what its stage says, builds under topologyMu only, and
\* no entry links a node to itself.
THEOREM CacheTypeCorrect == Spec => []TypeOK
  <1>1. BuiltInv => TypeOK
    <2> SUFFICES ASSUME BuiltInv PROVE TypeOK
      OBVIOUS
    <2>1. StateOK /\ BuildsLocked /\ StagesOK /\ EntriesBuilt
      BY DEF BuiltInv, IInv
    <2>2. ASSUME NEW entry \in cache
          PROVE  /\ entry.key \in Keys
                 /\ \A i \in DOMAIN entry.links : EdgeKey(entry.links[i]) \in Pairs
      <3>1. entry.key \in Keys
        BY <2>1 DEF EntriesBuilt
      <3>2. PICK p \in LinkPolicies : BuiltFrom(entry, p)
        BY <2>1 DEF EntriesBuilt
      <3>3. PICK m \in [Reported -> {"up", "down", "unknown"}] :
               entry.links = Links(entry.key.view, p, m)
        BY <3>2 DEF BuiltFrom
      <3>4. PICK v \in Views : v = entry.key.view
        BY <3>1 DEF Keys
      <3>5. \A i \in DOMAIN Links(v, p, m) : EdgeKey(Links(v, p, m)[i]) \in Pairs
        BY EntryLinks
      <3> QED
        BY <3>1, <3>3, <3>4, <3>5
    <2>3. ASSUME NEW h \in Handlers
          PROVE  CASE pc[h] = "idle"  -> req[h] = Idle
                   [] pc[h] = "rows"  -> req[h].view \in Views
                   [] pc[h] = "key"   -> req[h] \in Keys
                   [] pc[h] = "build" -> lock = h /\ req[h].key \in Keys
      <3>1. pc[h] \in {"idle", "rows", "key", "build"} /\ Staged(h)
        BY <2>1 DEF StateOK, StagesOK
      <3>2. pc[h] = "build" => lock = h
        BY <2>1 DEF BuildsLocked
      <3> QED
        BY <3>1, <3>2 DEF Staged
    <2> QED
      BY <2>1, <2>2, <2>3 DEF TypeOK, StateOK, StagesOK
  <1> QED
    BY <1>1, BuiltInvariant, PTL

\* No entry has a link that an administrator has blocked: neither the backbone,
\* nor the attachment of clients, nor a bridge brings it back.
THEOREM NoBlockedLink == Spec => []BlockedStaysOut
  <1>1. BuiltInv => BlockedStaysOut
    <2> SUFFICES ASSUME BuiltInv, ~flushing, NEW entry \in cache
                 PROVE  EdgesOf(entry.links) \cap policy.blocked = {}
      BY DEF BlockedStaysOut
    <2>1. policy \in LinkPolicies /\ entry.key \in Keys /\ BuiltFrom(entry, policy)
      BY DEF BuiltInv, IInv, StateOK, EntriesBuilt, PolicyOfNow
    <2>2. PICK m \in [Reported -> {"up", "down", "unknown"}] :
             entry.links = Links(entry.key.view, policy, m)
      BY <2>1 DEF BuiltFrom
    <2>3. PICK v \in Views, p \in LinkPolicies : v = entry.key.view /\ p = policy
      BY <2>1 DEF Keys
    <2>4. \A i \in DOMAIN Links(v, p, m) : EdgeKey(Links(v, p, m)[i]) \notin p.blocked
      BY EntryLinks
    <2> QED
      BY <2>2, <2>3, <2>4 DEF EdgesOf
  <1> QED
    BY <1>1, BuiltInvariant, PTL

\* With no block between online nodes the links of an entry join all the nodes
\* that are online in its key, whatever the manual links leave apart.
THEOREM IslandsBridged == Spec => []IslandsAreBridged
  <1>1. BuiltInv => IslandsAreBridged
    <2> SUFFICES ASSUME BuiltInv, ~flushing, NEW entry \in cache,
                        BlockedEdgeSet(entry.key.view, policy) = {}
                 PROVE  Connected(EdgesOf(entry.links), Online(entry.key.view))
      BY DEF IslandsAreBridged
    <2>1. policy \in LinkPolicies /\ entry.key \in Keys /\ BuiltFrom(entry, policy)
      BY DEF BuiltInv, IInv, StateOK, EntriesBuilt, PolicyOfNow
    <2>2. PICK m \in [Reported -> {"up", "down", "unknown"}] :
             entry.links = Links(entry.key.view, policy, m)
      BY <2>1 DEF BuiltFrom
    <2>3. PICK v \in Views, p \in LinkPolicies : v = entry.key.view /\ p = policy
      BY <2>1 DEF Keys
    <2>4. Connected(EdgesOf(Links(v, p, m)), Online(v))
      BY <2>3, ReadingIsReadable, LinksJoin
    <2> QED
      BY <2>2, <2>3, <2>4
  <1> QED
    BY <1>1, BuiltInvariant, PTL

\* While a superpeer is online and neither manual links nor blocks interfere,
\* superpeers relay between any two online nodes, also after the loss of one of
\* three if every client wants two links.
THEOREM RelaysReach == Spec => []RelaysReachEveryone
  <1>1. BuiltInv => RelaysReachEveryone
    <2> SUFFICES ASSUME BuiltInv, ~flushing, NEW entry \in cache, NEW relays, NEW edges,
                        relays = SuperpeerNodes(entry.key.view), edges = EdgesOf(entry.links),
                        relays # {},
                        ManualLinksForNodes(entry.key.view, policy) = <<>>,
                        BlockedEdgeSet(entry.key.view, policy) = {},
                        NEW gone \in IF Cardinality(relays) >= 3 /\ policy.clientLinks >= 2
                                        /\ policy.symmetricLinks >= 2
                                     THEN {{}} \cup {{r} : r \in relays} ELSE {{}},
                        NEW n \in Online(entry.key.view), n \notin gone
                 PROVE  Online(entry.key.view) \ gone \subseteq
                          Reach({e \in edges : e \cap gone = {}}, {n}, relays \ gone)
      BY DEF RelaysReachEveryone
    <2>1. policy \in LinkPolicies /\ entry.key \in Keys /\ BuiltFrom(entry, policy)
      BY DEF BuiltInv, IInv, StateOK, EntriesBuilt, PolicyOfNow
    <2>2. PICK m \in [Reported -> {"up", "down", "unknown"}] :
             entry.links = Links(entry.key.view, policy, m)
      BY <2>1 DEF BuiltFrom
    <2>3. PICK v \in Views, p \in LinkPolicies : v = entry.key.view /\ p = policy
      BY <2>1 DEF Keys
    <2>4. /\ SuperpeerNodes(v) # {} /\ ManualLinksForNodes(v, p) = <<>>
          /\ BlockedEdgeSet(v, p) = {} /\ n \in Online(v) \ gone /\ Readable(m)
      BY <2>3, ReadingIsReadable
    <2>5. \/ gone = {}
          \/ /\ Cardinality(SuperpeerNodes(v)) >= 3
             /\ p.clientLinks >= 2 /\ p.symmetricLinks >= 2
             /\ \E x \in SuperpeerNodes(v) : gone = {x}
      BY <2>3
    <2>6. Online(v) \ gone \subseteq
             Reach(Left(EdgesOf(Links(v, p, m)), gone), {n}, SuperpeerNodes(v) \ gone)
      BY <2>4, <2>5, LinksRelay
    <2>7. Left(EdgesOf(Links(v, p, m)), gone) = {e \in edges : e \cap gone = {}}
      BY <2>2, <2>3 DEF Left
    <2> QED
      BY <2>3, <2>6, <2>7
  <1> QED
    BY <1>1, BuiltInvariant, PTL
=============================================================================
