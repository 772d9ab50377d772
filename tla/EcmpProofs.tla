----------------------------- MODULE EcmpProofs -----------------------------
(***************************************************************************)
(* What CalculateGlobalState guarantees on every topology of every size:   *)
(* every candidate is a neighbour that is one hop nearer to the            *)
(* destination, there is a candidate exactly where there is a path, and no *)
(* sum of two distances exceeds the matrix's range.                        *)
(*                                                                         *)
(* The core overwrites the matrix it reads.  The argument compares it with *)
(* distBefore, the matrix at the start of the current phase k: an entry    *)
(* the phase has visited is the minimum of the old entry and the old way   *)
(* through k, any other entry is still the old one.  Old matrices are      *)
(* Grounded (0 on the diagonal, at least 1 elsewhere, 1 along edges),      *)
(* Supported (a finite distance has a neighbour that is nearer) and closed *)
(* under detours through the nodes below k.                                *)
(***************************************************************************)
EXTENDS EcmpForwarding, OrderedProofs, FiniteSetTheorems, TLAPS

Matrix == [NodePairs -> 0 .. Infinity]

Grounded(D) ==
  /\ \A a \in Node : D[<<a, a>>] = 0
  /\ \A a, b \in Node : a # b => D[<<a, b>>] >= 1
  /\ \A a, b \in Node : Adjacent(a, b) => D[<<a, b>>] = 1

Supported(D) ==
  \A a, t \in Node : a # t /\ D[<<a, t>>] < Infinity =>
    \E b \in Node : Adjacent(a, b) /\ D[<<b, t>>] <= D[<<a, t>>] - 1

Detour(D, a, c, b) == D[<<a, b>>] <= D[<<a, c>>] + D[<<c, b>>]

ClosedBelow(D, m) == \A a, b, c \in Node : c < m => Detour(D, a, c, b)

Metric(D, m) == D \in Matrix /\ Grounded(D) /\ Supported(D) /\ ClosedBelow(D, m)

\* The entry for <<a, b>> after a phase for c that started from D.
Via(D, c, a, b) ==
  IF D[<<a, b>>] > D[<<a, c>>] + D[<<c, b>>]
  THEN D[<<a, c>>] + D[<<c, b>>] ELSE D[<<a, b>>]

AfterPhase(D, c, N) == \A a, b \in Node : N[<<a, b>>] = Via(D, c, a, b)

Visited(a, b) == a < i \/ (a = i /\ b < j)

EntryInv(a, b) ==
  dist[<<a, b>>] = IF Visited(a, b) THEN Via(distBefore, k, a, b)
                   ELSE distBefore[<<a, b>>]

VisitedEdge(a, b) == <<a, b>> \in edges \ todo \/ <<b, a>> \in edges \ todo

CandidateInv(a, t) ==
  candidates[<<a, t>>] = {b \in Node : VisitedEdge(a, b) /\ OnShortestPath(a, b, t)}

InitInv ==
  phase = "init" => k = 0 /\ i = 0 /\ j = 0

CoreInv ==
  phase = "core" =>
    /\ Metric(distBefore, k)
    /\ \A a, b \in Node : EntryInv(a, b)

ListsInv ==
  phase \in {"lists", "done"} =>
    /\ Metric(dist, n)
    /\ \A a, t \in Node : CandidateInv(a, t)

EmptyInv == phase \in {"init", "core"} => candidates = [p \in NodePairs |-> {}]

DoneInv == phase = "done" => todo = {}

SizeInv == phase \in {"core", "lists", "done"} => n <= MaxNodes

GsInv == GsTypeOK /\ InitInv /\ CoreInv /\ ListsInv /\ EmptyInv /\ DoneInv /\ SizeInv

----------------------------------------------------------------------------
(* One phase *)

LEMMA InfinityType == Infinity \in Nat /\ Infinity > MaxNodes
BY SMT DEF Infinity, MaxNodes

LEMMA EntryType ==
  ASSUME NEW D \in Matrix, NEW a \in Node, NEW b \in Node
  PROVE  D[<<a, b>>] \in 0 .. Infinity
BY DEF Matrix, NodePairs

LEMMA ViaType ==
  ASSUME NEW D \in Matrix, NEW c \in Node, NEW a \in Node, NEW b \in Node
  PROVE  Via(D, c, a, b) \in 0 .. Infinity
<1>1. /\ D[<<a, b>>] \in 0 .. Infinity
      /\ D[<<a, c>>] \in 0 .. Infinity
      /\ D[<<c, b>>] \in 0 .. Infinity
  BY EntryType
<1> QED BY <1>1, InfinityType DEF Via

\* The row and the column of the phase's own node do not change.
LEMMA ViaPivot ==
  ASSUME NEW D \in Matrix, Grounded(D), NEW c \in Node, NEW a \in Node
  PROVE  Via(D, c, a, c) = D[<<a, c>>] /\ Via(D, c, c, a) = D[<<c, a>>]
<1>1. /\ D[<<a, c>>] \in 0 .. Infinity
      /\ D[<<c, a>>] \in 0 .. Infinity
  BY EntryType
<1>2. D[<<c, c>>] = 0
  BY DEF Grounded
<1> QED BY <1>1, <1>2, InfinityType DEF Via

LEMMA PhaseGrounded ==
  ASSUME NEW D \in Matrix, Grounded(D), NEW c \in Node, NEW N, AfterPhase(D, c, N)
  PROVE  Grounded(N)
<1>1. \A a, b \in Node : D[<<a, b>>] \in 0 .. Infinity
  BY EntryType
<1>2. ASSUME NEW a \in Node PROVE N[<<a, a>>] = 0
  <2>1. N[<<a, a>>] = Via(D, c, a, a)
    BY DEF AfterPhase
  <2>2. D[<<a, a>>] = 0
    BY DEF Grounded
  <2> QED BY <1>1, <2>1, <2>2, InfinityType DEF Via
<1>3. ASSUME NEW a \in Node, NEW b \in Node, a # b
      PROVE  /\ N[<<a, b>>] >= 1
             /\ D[<<a, b>>] = 1 => N[<<a, b>>] = 1
  <2>1. N[<<a, b>>] = Via(D, c, a, b)
    BY DEF AfterPhase
  <2>2. D[<<a, b>>] >= 1
    BY <1>3 DEF Grounded
  <2>3. D[<<a, c>>] >= 1 \/ D[<<c, b>>] >= 1
    BY <1>3 DEF Grounded
  <2> QED BY <1>1, <2>1, <2>2, <2>3, InfinityType DEF Via
<1>4. ASSUME NEW a \in Node, NEW b \in Node, Adjacent(a, b)
      PROVE  N[<<a, b>>] = 1
  <2>1. D[<<a, b>>] = 1
    BY <1>4 DEF Grounded
  <2>2. a # b
    BY <2>1 DEF Grounded
  <2> QED BY <1>3, <2>1, <2>2
<1> QED BY <1>2, <1>3, <1>4 DEF Grounded

LEMMA PhaseSupported ==
  ASSUME NEW D \in Matrix, Grounded(D), Supported(D), NEW c \in Node,
         NEW N, AfterPhase(D, c, N)
  PROVE  Supported(N)
<1>1. \A a, b \in Node : D[<<a, b>>] \in 0 .. Infinity
  BY EntryType
<1> SUFFICES ASSUME NEW a \in Node, NEW t \in Node, a # t, N[<<a, t>>] < Infinity
             PROVE  \E b \in Node : Adjacent(a, b) /\ N[<<b, t>>] <= N[<<a, t>>] - 1
  BY DEF Supported
<1>2. N[<<a, t>>] = Via(D, c, a, t)
  BY DEF AfterPhase
<1>3. CASE D[<<a, t>>] > D[<<a, c>>] + D[<<c, t>>]
  <2>1. N[<<a, t>>] = D[<<a, c>>] + D[<<c, t>>]
    BY <1>2, <1>3 DEF Via
  <2>2. D[<<a, c>>] < Infinity
    BY <1>1, <2>1, InfinityType
  <2>3. a # c
    <3>1. SUFFICES ASSUME a = c PROVE FALSE
      OBVIOUS
    <3>2. D[<<c, c>>] = 0
      BY DEF Grounded
    <3> QED BY <1>1, <1>3, <3>1, <3>2, InfinityType
  <2>4. PICK b \in Node : Adjacent(a, b) /\ D[<<b, c>>] <= D[<<a, c>>] - 1
    BY <2>2, <2>3 DEF Supported
  <2>5. N[<<b, t>>] = Via(D, c, b, t)
    BY DEF AfterPhase
  <2>6. N[<<b, t>>] <= D[<<b, c>>] + D[<<c, t>>]
    BY <1>1, <2>5, InfinityType DEF Via
  <2>7. N[<<b, t>>] <= N[<<a, t>>] - 1
    <3>1. N[<<b, t>>] \in 0 .. Infinity
      BY <2>5, ViaType
    <3> QED BY <1>1, <2>1, <2>4, <2>6, <3>1, InfinityType
  <2> QED BY <2>4, <2>7
<1>4. CASE ~(D[<<a, t>>] > D[<<a, c>>] + D[<<c, t>>])
  <2>1. N[<<a, t>>] = D[<<a, t>>]
    BY <1>2, <1>4 DEF Via
  <2>2. PICK b \in Node : Adjacent(a, b) /\ D[<<b, t>>] <= D[<<a, t>>] - 1
    BY <2>1 DEF Supported
  <2>3. N[<<b, t>>] = Via(D, c, b, t)
    BY DEF AfterPhase
  <2>4. N[<<b, t>>] <= D[<<b, t>>]
    BY <1>1, <2>3, InfinityType DEF Via
  <2>5. N[<<b, t>>] <= N[<<a, t>>] - 1
    <3>1. N[<<b, t>>] \in 0 .. Infinity
      BY <2>3, ViaType
    <3> QED BY <1>1, <2>1, <2>2, <2>4, <3>1, InfinityType
  <2> QED BY <2>2, <2>5
<1> QED BY <1>3, <1>4

LEMMA PhaseClosed ==
  ASSUME NEW D \in Matrix, Grounded(D), NEW c \in Node, ClosedBelow(D, c),
         NEW N, AfterPhase(D, c, N)
  PROVE  ClosedBelow(N, c + 1)
<1>1. \A a, b \in Node : D[<<a, b>>] \in 0 .. Infinity
  BY EntryType
<1> SUFFICES ASSUME NEW a \in Node, NEW b \in Node, NEW e \in Node, e < c + 1
             PROVE  N[<<a, b>>] <= N[<<a, e>>] + N[<<e, b>>]
  BY DEF ClosedBelow, Detour
<1>2. /\ N[<<a, b>>] = Via(D, c, a, b)
      /\ N[<<a, e>>] = Via(D, c, a, e)
      /\ N[<<e, b>>] = Via(D, c, e, b)
  BY DEF AfterPhase
<1>3. CASE e = c
  <2>1. N[<<a, e>>] = D[<<a, c>>] /\ N[<<e, b>>] = D[<<c, b>>]
    BY <1>2, <1>3, ViaPivot
  <2> QED BY <1>1, <1>2, <2>1, InfinityType DEF Via
<1>4. CASE e # c
  <2>1. e < c
    BY <1>4 DEF Node
  <2>2. /\ D[<<a, b>>] <= D[<<a, e>>] + D[<<e, b>>]
        /\ D[<<a, c>>] <= D[<<a, e>>] + D[<<e, c>>]
        /\ D[<<c, b>>] <= D[<<c, e>>] + D[<<e, b>>]
    BY <2>1 DEF ClosedBelow, Detour
  <2> QED BY <1>1, <1>2, <2>2, InfinityType DEF Via
<1> QED BY <1>3, <1>4

LEMMA PhaseMetric ==
  ASSUME NEW D, NEW c \in Node, Metric(D, c), NEW N \in Matrix, AfterPhase(D, c, N)
  PROVE  Metric(N, c + 1)
BY PhaseGrounded, PhaseSupported, PhaseClosed DEF Metric

----------------------------------------------------------------------------
(* The core *)

VisitedNext(a, b) == Visited(a, b) \/ (a = i /\ b = j)

RelaxedEntry(a, b) ==
  dist'[<<a, b>>] = IF VisitedNext(a, b) THEN Via(distBefore, k, a, b)
                    ELSE distBefore[<<a, b>>]

\* The entries that Relax reads on row and column k are still the old ones.
LEMMA RelaxEntries ==
  ASSUME GsTypeOK, CoreInv, Relax
  PROVE  dist' \in Matrix /\ \A a, b \in Node : RelaxedEntry(a, b)
<1> DEFINE B == distBefore
<1>1. /\ phase = "core"
      /\ k \in Node /\ i \in Node /\ j \in Node
      /\ dist \in Matrix /\ B \in Matrix
  BY DEF GsTypeOK, Relax, Matrix
<1>2. Grounded(B)
  BY <1>1 DEF CoreInv, Metric
<1>3. \A a, b \in Node : EntryInv(a, b)
  BY <1>1 DEF CoreInv
<1>4. dist[<<i, j>>] = B[<<i, j>>]
  BY <1>1, <1>3 DEF EntryInv, Visited, Node
<1>5. dist[<<i, k>>] = B[<<i, k>>]
  <2>1. EntryInv(i, k)
    BY <1>1, <1>3
  <2>2. Via(B, k, i, k) = B[<<i, k>>]
    BY <1>1, <1>2, ViaPivot
  <2> QED BY <2>1, <2>2 DEF EntryInv
<1>6. dist[<<k, j>>] = B[<<k, j>>]
  <2>1. EntryInv(k, j)
    BY <1>1, <1>3
  <2>2. Via(B, k, k, j) = B[<<k, j>>]
    BY <1>1, <1>2, ViaPivot
  <2> QED BY <2>1, <2>2 DEF EntryInv
<1>7. dist' = [dist EXCEPT ![<<i, j>>] = Via(B, k, i, j)]
  BY <1>1, <1>4, <1>5, <1>6 DEF Relax, Via, Matrix, NodePairs
<1>8. Via(B, k, i, j) \in 0 .. Infinity
  BY <1>1, ViaType
<1>9. dist' \in Matrix
  BY <1>1, <1>7, <1>8 DEF Matrix
<1>10. ASSUME NEW a \in Node, NEW b \in Node PROVE RelaxedEntry(a, b)
  <2>1. CASE a = i /\ b = j
    BY <1>1, <1>7, <2>1 DEF RelaxedEntry, VisitedNext, Matrix, NodePairs
  <2>2. CASE ~(a = i /\ b = j)
    <3>1. dist'[<<a, b>>] = dist[<<a, b>>]
      BY <1>1, <1>7, <2>2 DEF Matrix, NodePairs
    <3> QED BY <1>3, <2>2, <3>1 DEF RelaxedEntry, VisitedNext, EntryInv
  <2> QED BY <2>1, <2>2
<1> QED BY <1>9, <1>10

\* The entry that was relaxed is the next one that counts as visited.
LEMMA NextEntry ==
  ASSUME GsTypeOK, \A a, b \in Node : RelaxedEntry(a, b),
         NextJ \/ NextI
  PROVE  \A a, b \in Node : EntryInv(a, b)'
<1> SUFFICES ASSUME NEW a \in Node, NEW b \in Node PROVE EntryInv(a, b)'
  OBVIOUS
<1>1. i \in 0 .. n - 1 /\ j \in 0 .. n - 1 /\ a \in 0 .. n - 1 /\ b \in 0 .. n - 1
  BY DEF GsTypeOK, Node
<1>2. Visited(a, b)' <=> VisitedNext(a, b)
  BY <1>1, NodesAssumption DEF Visited, VisitedNext, NextJ, NextI
<1>3. UNCHANGED <<k, distBefore>>
  BY DEF NextJ, NextI
<1>4. Via(distBefore, k, a, b)' = Via(distBefore, k, a, b)
  BY <1>3 DEF Via
<1> QED BY <1>2, <1>3, <1>4 DEF EntryInv, RelaxedEntry

\* After the last pair of a phase the whole matrix is the next one.
LEMMA LastEntry ==
  ASSUME GsTypeOK, \A a, b \in Node : RelaxedEntry(a, b), i = n - 1, j = n - 1
  PROVE  AfterPhase(distBefore, k, dist')
<1> SUFFICES ASSUME NEW a \in Node, NEW b \in Node
             PROVE  dist'[<<a, b>>] = Via(distBefore, k, a, b)
  BY DEF AfterPhase
<1>1. VisitedNext(a, b)
  BY NodesAssumption DEF VisitedNext, Visited, Node
<1> QED BY <1>1 DEF RelaxedEntry

----------------------------------------------------------------------------
(* Finite distances are hop counts, so they are far below Infinity. *)

\* A shortest path goes on at a neighbour one hop nearer.
LEMMA NearerNode ==
  ASSUME NEW D, Metric(D, n), NEW t \in Node, NEW a \in Node,
         D[<<a, t>>] < Infinity, a # t
  PROVE  \E b \in Node : Adjacent(a, b) /\ D[<<b, t>>] = D[<<a, t>>] - 1
<1>1. PICK b \in Node : Adjacent(a, b) /\ D[<<b, t>>] <= D[<<a, t>>] - 1
  BY DEF Metric, Supported
<1>2. D[<<a, b>>] = 1
  BY <1>1 DEF Metric, Grounded
<1>3. D[<<a, t>>] <= D[<<a, b>>] + D[<<b, t>>]
  <2>1. ClosedBelow(D, n) /\ b < n
    BY NodesAssumption DEF Metric, Node
  <2> QED BY <2>1 DEF ClosedBelow, Detour
<1>4. D[<<a, t>>] \in 0 .. Infinity /\ D[<<b, t>>] \in 0 .. Infinity
  BY EntryType DEF Metric
<1> QED BY <1>1, <1>2, <1>3, <1>4, InfinityType

\* Along a shortest path to t every smaller distance occurs.
LEMMA EveryDistanceOccurs ==
  ASSUME NEW D, Metric(D, n), NEW t \in Node, NEW a \in Node, D[<<a, t>>] < Infinity
  PROVE  \A v \in 0 .. D[<<a, t>>] : \E b \in Node : D[<<b, t>>] = v
<1> DEFINE m == D[<<a, t>>]
           Missing == {w \in Nat : w <= m /\ \A b \in Node : D[<<b, t>>] # m - w}
<1>1. m \in Nat /\ m < Infinity
  BY EntryType, InfinityType DEF Metric
<1>2. 0 \notin Missing
  BY <1>1
<1> HIDE DEF m
<1>3. ASSUME NEW w \in Missing PROVE \E l \in Missing : l < w
  <2>1. w \in Nat /\ w <= m /\ w >= 1
    BY <1>2
  <2>2. SUFFICES ASSUME w - 1 \notin Missing PROVE FALSE
    BY <2>1
  <2>3. PICK b \in Node : D[<<b, t>>] = m - (w - 1)
    BY <1>1, <2>1, <2>2
  <2>4. b # t
    BY <1>1, <2>1, <2>3 DEF Metric, Grounded
  <2>5. D[<<b, t>>] < Infinity
    BY <1>1, <2>1, <2>3, InfinityType
  <2>6. PICK c \in Node : D[<<c, t>>] = D[<<b, t>>] - 1
    BY <2>4, <2>5, NearerNode
  <2>7. D[<<c, t>>] = m - w
    BY <1>1, <2>1, <2>3, <2>6
  <2> QED BY <2>7
<1>4. Missing = {}
  BY <1>3, LeastNumber
<1>5. ASSUME NEW v \in 0 .. m PROVE \E b \in Node : D[<<b, t>>] = v
  <2>1. m - v \in Nat /\ m - v <= m /\ m - (m - v) = v
    BY <1>1
  <2> QED BY <1>4, <2>1
<1> QED BY <1>5 DEF m

LEMMA HopCount ==
  ASSUME NEW D, Metric(D, n), NEW t \in Node, NEW a \in Node, D[<<a, t>>] < Infinity
  PROVE  D[<<a, t>>] < n
<1> DEFINE m == D[<<a, t>>]
           f == [v \in 0 .. m |-> CHOOSE b \in Node : D[<<b, t>>] = v]
<1>1. m \in Nat
  BY EntryType, InfinityType DEF Metric
<1>2. f \in [0 .. m -> Node] /\ \A v \in 0 .. m : D[<<f[v], t>>] = v
  <2>1. ASSUME NEW v \in 0 .. m PROVE f[v] \in Node /\ D[<<f[v], t>>] = v
    <3>1. \E b \in Node : D[<<b, t>>] = v
      BY EveryDistanceOccurs
    <3>2. f[v] = CHOOSE b \in Node : D[<<b, t>>] = v
      OBVIOUS
    <3> HIDE DEF f
    <3> QED BY <3>1, <3>2
  <2> QED BY <2>1
<1> HIDE DEF f
<1>3. f \in Injection(0 .. m, Node)
  BY <1>2 DEF Injection, IsInjective
<1> HIDE DEF m
<1>4. IsFiniteSet(Node) /\ Cardinality(Node) = n
  <2>1. n - 1 \in Int /\ ~(0 > n - 1) /\ n - 1 - 0 + 1 = n
    BY NodesAssumption
  <2> QED BY <2>1, FS_Interval DEF Node
<1>5. Cardinality(0 .. m) = m + 1
  <2>1. ~(0 > m) /\ m - 0 + 1 = m + 1
    BY <1>1
  <2> QED BY <1>1, <2>1, FS_Interval
<1>6. m + 1 <= n
  BY <1>3, <1>4, <1>5, FS_Injection
<1>7. m < n
  BY <1>1, <1>6, NodesAssumption
<1> QED BY <1>7 DEF m

----------------------------------------------------------------------------
(* The invariant *)

LEMMA InitialMetric ==
  ASSUME GsTypeOK, NEW D, D = [p \in NodePairs |-> InitialDistance(p)]
  PROVE  Metric(D, 0)
<1>1. \A a, b \in Node : Adjacent(a, b) => a # b
  BY DEF GsTypeOK, Adjacent, Edge, NodePairs, Node
<1>2. ASSUME NEW a \in Node, NEW b \in Node
      PROVE  D[<<a, b>>] = IF Adjacent(a, b) THEN 1
                           ELSE IF a = b THEN 0 ELSE Infinity
  <2>1. D[<<a, b>>] = InitialDistance(<<a, b>>)
    BY DEF NodePairs
  <2> QED BY <1>1, <2>1 DEF InitialDistance
<1>3. D \in Matrix
  <2>1. ASSUME NEW p \in NodePairs PROVE InitialDistance(p) \in 0 .. Infinity
    <3>1. 0 \in 0 .. Infinity /\ 1 \in 0 .. Infinity /\ Infinity \in 0 .. Infinity
      BY InfinityType DEF MaxNodes
    <3> QED BY <3>1 DEF InitialDistance
  <2> QED BY <2>1 DEF Matrix
<1>i. Infinity \in Nat /\ Infinity > 1
  BY InfinityType DEF MaxNodes
<1>4. Grounded(D)
  BY <1>1, <1>2, <1>i DEF Grounded
<1>5. Supported(D)
  <2> SUFFICES ASSUME NEW a \in Node, NEW t \in Node, a # t, D[<<a, t>>] < Infinity
               PROVE  \E b \in Node : Adjacent(a, b) /\ D[<<b, t>>] <= D[<<a, t>>] - 1
    BY DEF Supported
  <2>1. Adjacent(a, t) /\ D[<<a, t>>] = 1
    BY <1>2, <1>i
  <2>2. D[<<t, t>>] = 0
    BY <1>4 DEF Grounded
  <2> QED BY <2>1, <2>2
<1>6. ClosedBelow(D, 0)
  BY DEF ClosedBelow, Node
<1> QED BY <1>3, <1>4, <1>5, <1>6 DEF Metric

LEMMA InitGsInv == GsInit => GsInv
<1> SUFFICES ASSUME GsInit PROVE GsInv
  OBVIOUS
<1>1. 0 \in Node
  BY NodesAssumption DEF Node
<1>2. Infinity \in 0 .. Infinity
  BY InfinityType
<1>3. GsTypeOK
  BY <1>1, <1>2, TopologiesAssumption DEF GsInit, GsTypeOK
<1> QED BY <1>3 DEF GsInit, GsInv, InitInv, CoreInv, ListsInv, EmptyInv, DoneInv, SizeInv

LEMMA InitializeStep ==
  ASSUME GsInv, InitializeDistances
  PROVE  GsInv'
<1> USE DEF GsInv
<1>1. phase = "init" /\ UNCHANGED <<edges, k, i, j, todo, candidates>>
  BY DEF InitializeDistances
<1>2. k = 0 /\ i = 0 /\ j = 0 /\ candidates = [p \in NodePairs |-> {}]
  BY <1>1 DEF InitInv, EmptyInv
<1>3. CASE n > MaxNodes
  <2>1. phase' = "refused" /\ dist' = dist /\ distBefore' = dist
    BY <1>3 DEF InitializeDistances
  <2> QED BY <1>1, <2>1 DEF GsTypeOK, InitInv, CoreInv, ListsInv, EmptyInv, DoneInv, SizeInv
<1>4. CASE ~(n > MaxNodes)
  <2>1. phase' = "core" /\ distBefore' = dist'
    BY <1>4 DEF InitializeDistances
  <2>2. dist' = [p \in NodePairs |-> InitialDistance(p)]
    BY <1>4 DEF InitializeDistances
  <2>3. Metric(dist', 0)
    BY <2>2, InitialMetric
  <2>4. Metric(distBefore, 0)'
    BY <1>1, <2>1, <2>3 DEF Metric, Grounded, Supported, ClosedBelow, Detour, Adjacent
  <2>5. dist' \in [NodePairs -> 0 .. Infinity]
    BY <2>3 DEF Metric, Matrix
  <2>6. GsTypeOK'
    BY <1>1, <2>1, <2>5 DEF GsTypeOK
  <2>7. CoreInv'
    <3>1. \A a, b \in Node : ~Visited(a, b)'
      BY <1>1, <1>2 DEF Visited, Node
    <3>2. \A a, b \in Node : EntryInv(a, b)'
      BY <2>1, <3>1 DEF EntryInv
    <3>3. Metric(distBefore, k)'
      BY <1>1, <1>2, <2>1, <2>4
    <3> QED BY <3>2, <3>3 DEF CoreInv
  <2>8. n <= MaxNodes
    BY <1>4, NodesAssumption DEF MaxNodes
  <2> QED BY <1>1, <1>2, <2>1, <2>6, <2>7, <2>8 DEF InitInv, ListsInv, EmptyInv, DoneInv, SizeInv
<1> QED BY <1>3, <1>4

LEMMA CoreGsStep ==
  ASSUME GsInv, CoreStep
  PROVE  GsInv'
<1>1. /\ GsTypeOK /\ CoreInv /\ Relax /\ phase = "core"
      /\ UNCHANGED <<edges, candidates>>
      /\ candidates = [p \in NodePairs |-> {}]
      /\ n <= MaxNodes
  BY DEF GsInv, CoreStep, Relax, EmptyInv, SizeInv
<1>2. dist' \in Matrix /\ \A a, b \in Node : RelaxedEntry(a, b)
  BY <1>1, RelaxEntries
<1>3. dist' \in [NodePairs -> 0 .. Infinity]
  BY <1>2 DEF Matrix
<1>4. Metric(distBefore, k)
  BY <1>1 DEF CoreInv
<1>5. CASE NextJ \/ NextI
  <2>1. UNCHANGED <<phase, k, todo, distBefore>>
    BY <1>5 DEF NextJ, NextI
  <2>2. i' \in Node /\ j' \in Node
    BY <1>1, <1>5, NodesAssumption DEF NextJ, NextI, GsTypeOK, Node
  <2>3. GsTypeOK'
    BY <1>1, <1>3, <2>1, <2>2 DEF GsTypeOK
  <2>4. \A a, b \in Node : EntryInv(a, b)'
    BY <1>1, <1>2, <1>5, NextEntry
  <2>5. Metric(distBefore, k)'
    BY <1>1, <1>4, <2>1 DEF Metric, Grounded, Supported, ClosedBelow, Detour, Adjacent
  <2>6. CoreInv'
    BY <2>4, <2>5 DEF CoreInv
  <2> QED BY <1>1, <2>1, <2>3, <2>6 DEF GsInv, InitInv, ListsInv, EmptyInv, DoneInv, SizeInv
<1>6. CASE NextK \/ CoreDone
  <2>1. i = n - 1 /\ j = n - 1 /\ k \in Node
    BY <1>1, <1>6 DEF NextK, CoreDone, GsTypeOK
  <2>2. AfterPhase(distBefore, k, dist')
    BY <1>1, <1>2, <2>1, LastEntry
  <2>3. Metric(dist', k + 1)
    BY <1>2, <1>4, <2>1, <2>2, PhaseMetric
  <2>5. CASE NextK
    <3>1. /\ UNCHANGED <<phase, todo>>
          /\ k' = k + 1 /\ distBefore' = dist'
          /\ i' = 0 /\ j' = 0
          /\ k < n - 1
      BY <2>5 DEF NextK
    <3>2. k' \in Node /\ i' \in Node /\ j' \in Node
      BY <2>1, <3>1, NodesAssumption DEF Node
    <3>3. GsTypeOK'
      BY <1>1, <1>3, <3>1, <3>2 DEF GsTypeOK
    <3>4. \A a, b \in Node : ~Visited(a, b)'
      BY <3>1 DEF Visited, Node
    <3>5. \A a, b \in Node : EntryInv(a, b)'
      BY <3>1, <3>4 DEF EntryInv
    <3>6. Metric(distBefore, k)'
      BY <1>1, <2>3, <3>1 DEF Metric, Grounded, Supported, ClosedBelow, Detour, Adjacent
    <3>7. CoreInv'
      BY <3>5, <3>6 DEF CoreInv
    <3> QED BY <1>1, <3>1, <3>3, <3>7 DEF GsInv, InitInv, ListsInv, EmptyInv, DoneInv, SizeInv
  <2>6. CASE CoreDone
    <3>1. /\ phase' = "lists" /\ todo' = edges /\ k = n - 1
          /\ UNCHANGED <<k, i, j, distBefore>>
      BY <2>6 DEF CoreDone
    <3>2. GsTypeOK'
      BY <1>1, <1>3, <3>1 DEF GsTypeOK
    <3>3. k + 1 = n
      BY <2>1, <3>1, NodesAssumption
    <3>4. Metric(dist, n)'
      BY <1>1, <2>3, <3>3 DEF Metric, Grounded, Supported, ClosedBelow, Detour, Adjacent
    <3>5. ASSUME NEW a \in Node, NEW t \in Node PROVE CandidateInv(a, t)'
      <4>1. \A b \in Node : ~VisitedEdge(a, b)'
        BY <1>1, <3>1 DEF VisitedEdge
      <4> QED BY <1>1, <4>1 DEF CandidateInv, NodePairs
    <3>6. ListsInv'
      BY <3>4, <3>5 DEF ListsInv
    <3> QED BY <1>1, <3>1, <3>2, <3>6 DEF GsInv, InitInv, CoreInv, EmptyInv, DoneInv, SizeInv
  <2> QED BY <1>6, <2>5, <2>6
<1> QED BY <1>1, <1>5, <1>6 DEF CoreStep

LEMMA VisitGsStep ==
  ASSUME GsInv, NEW e \in todo, VisitEdge(e)
  PROVE  GsInv'
<1>1. /\ GsTypeOK /\ phase = "lists"
      /\ Metric(dist, n)
      /\ \A a, t \in Node : CandidateInv(a, t)
      /\ n <= MaxNodes
  BY DEF GsInv, ListsInv, SizeInv, VisitEdge
<1>2. UNCHANGED <<edges, phase, dist, k, i, j, distBefore>> /\ todo' = todo \ {e}
  BY DEF VisitEdge
<1>3. e \in edges /\ e \in Node \X Node /\ e = <<e[1], e[2]>> /\ e[1] \in Node /\ e[2] \in Node
  BY <1>1 DEF GsTypeOK, Edge, NodePairs
<1>4. ASSUME NEW a \in Node, NEW t \in Node
      PROVE  candidates'[<<a, t>>] =
               candidates[<<a, t>>]
                 \cup (IF a = e[1] /\ OnShortestPath(e[1], e[2], t) THEN {e[2]} ELSE {})
                 \cup (IF a = e[2] /\ OnShortestPath(e[2], e[1], t) THEN {e[1]} ELSE {})
  BY DEF VisitEdge, NodePairs
<1>5. candidates' \in [NodePairs -> SUBSET Node]
  <2>1. ASSUME NEW p \in NodePairs
        PROVE candidates[p]
                \cup (IF p[1] = e[1] /\ OnShortestPath(e[1], e[2], p[2]) THEN {e[2]} ELSE {})
                \cup (IF p[1] = e[2] /\ OnShortestPath(e[2], e[1], p[2]) THEN {e[1]} ELSE {})
              \in SUBSET Node
    BY <1>1, <1>3 DEF GsTypeOK
  <2> QED BY <2>1 DEF VisitEdge
<1>6. GsTypeOK'
  BY <1>1, <1>2, <1>5 DEF GsTypeOK
<1>7. Metric(dist, n)'
  BY <1>1, <1>2 DEF Metric, Grounded, Supported, ClosedBelow, Detour, Adjacent
<1>8. ASSUME NEW a \in Node, NEW t \in Node PROVE CandidateInv(a, t)'
  <2>1. ASSUME NEW b \in Node
        PROVE  VisitedEdge(a, b)' <=> VisitedEdge(a, b) \/ <<a, b>> = e \/ <<b, a>> = e
    BY <1>2, <1>3 DEF VisitedEdge
  <2>2. ASSUME NEW b \in Node
        PROVE  OnShortestPath(a, b, t)' <=> OnShortestPath(a, b, t)
    BY <1>2 DEF OnShortestPath
  <2>3. candidates[<<a, t>>] = {b \in Node : VisitedEdge(a, b) /\ OnShortestPath(a, b, t)}
    BY <1>1 DEF CandidateInv
  <2>4. ASSUME NEW b \in Node
        PROVE  b \in candidates'[<<a, t>>] <=>
                 \/ b \in candidates[<<a, t>>]
                 \/ <<a, b>> = e /\ OnShortestPath(a, b, t)
                 \/ <<b, a>> = e /\ OnShortestPath(a, b, t)
    BY <1>3, <1>4
  <2>5. candidates'[<<a, t>>] \subseteq Node
    BY <1>5 DEF NodePairs
  <2>6. candidates'[<<a, t>>] = {b \in Node : VisitedEdge(a, b)' /\ OnShortestPath(a, b, t)'}
    BY <2>1, <2>2, <2>3, <2>4, <2>5
  <2> QED BY <2>6 DEF CandidateInv
<1>9. ListsInv'
  BY <1>7, <1>8 DEF ListsInv
<1> QED BY <1>1, <1>2, <1>6, <1>9 DEF GsInv, InitInv, CoreInv, EmptyInv, DoneInv, SizeInv

LEMMA QuietGsStep ==
  ASSUME GsInv, ListsDone \/ UNCHANGED gsVars
  PROVE  GsInv'
<1>1. UNCHANGED <<edges, dist, k, i, j, todo, candidates, distBefore>>
  BY DEF ListsDone, gsVars
<1>2. phase' = phase \/ (phase = "lists" /\ phase' = "done" /\ todo = {})
  BY DEF ListsDone, gsVars
<1>3. GsTypeOK'
  BY <1>1, <1>2 DEF GsInv, GsTypeOK
<1>5. Metric(distBefore, k) => Metric(distBefore, k)'
  BY <1>1 DEF Metric, Grounded, Supported, ClosedBelow, Detour, Adjacent
<1>6. Metric(dist, n) => Metric(dist, n)'
  BY <1>1 DEF Metric, Grounded, Supported, ClosedBelow, Detour, Adjacent
<1>7. ASSUME NEW a \in Node, NEW b \in Node
      PROVE  /\ EntryInv(a, b) => EntryInv(a, b)'
             /\ CandidateInv(a, b) => CandidateInv(a, b)'
  BY <1>1 DEF EntryInv, Visited, Via, CandidateInv, VisitedEdge, OnShortestPath
<1>8. CoreInv'
  BY <1>2, <1>5, <1>7 DEF GsInv, CoreInv
<1>9. ListsInv'
  BY <1>2, <1>6, <1>7 DEF GsInv, ListsInv
<1> QED BY <1>1, <1>2, <1>3, <1>8, <1>9 DEF GsInv, InitInv, EmptyInv, DoneInv, SizeInv

\* The inductive invariant holds on every topology.
THEOREM GsInvariant == GsSpec => []GsInv
<1>1. ASSUME GsInv, [GsNext]_gsVars PROVE GsInv'
  <2>1. CASE InitializeDistances
    BY <1>1, <2>1, InitializeStep
  <2>2. CASE CoreStep
    BY <1>1, <2>2, CoreGsStep
  <2>3. CASE \E e \in todo : VisitEdge(e)
    BY <1>1, <2>3, VisitGsStep
  <2>4. CASE ListsDone \/ UNCHANGED gsVars
    BY <1>1, <2>4, QuietGsStep
  <2> QED BY <1>1, <2>1, <2>2, <2>3, <2>4 DEF GsNext
<1> QED BY InitGsInv, <1>1, PTL DEF GsSpec

\* Entries stay between 0 and Infinity: the sum that the core compares an
\* entry with is at most 200000000, which fits the code's int32_t.
THEOREM GsTypeCorrect == GsSpec => []GsTypeOK
<1>1. GsInv => GsTypeOK
  BY DEF GsInv
<1> QED BY GsInvariant, <1>1, PTL

\* What the finished lists mean in terms of the distances.
LEMMA FinishedLists ==
  ASSUME GsInv, phase = "done", NEW a \in Node, NEW t \in Node, NEW b \in Node
  PROVE  b \in candidates[<<a, t>>] <=> Adjacent(a, b) /\ OnShortestPath(a, b, t)
<1>1. CandidateInv(a, t) /\ todo = {}
  BY DEF GsInv, ListsInv, DoneInv
<1> QED BY <1>1 DEF CandidateInv, VisitedEdge, Adjacent

\* Every candidate is a neighbour one hop nearer to the destination.
THEOREM CandidatesNearer == GsSpec => []CandidatesAreNearer
<1>1. GsInv => CandidatesAreNearer
  <2> SUFFICES ASSUME GsInv, phase = "done",
                      NEW a \in Node, NEW b \in Node, NEW t \in Node,
                      b \in candidates[<<a, t>>]
               PROVE  Adjacent(a, b) /\ dist[<<b, t>>] + 1 = dist[<<a, t>>]
    BY DEF CandidatesAreNearer
  <2>1. Adjacent(a, b) /\ dist[<<a, t>>] - 1 = dist[<<b, t>>]
    BY FinishedLists DEF OnShortestPath
  <2>2. dist[<<a, t>>] \in 0 .. Infinity /\ dist[<<b, t>>] \in 0 .. Infinity
    BY EntryType DEF GsInv, ListsInv, Metric
  <2> QED BY <2>1, <2>2, InfinityType
<1> QED BY GsInvariant, <1>1, PTL

LEMMA FinishedComplete == GsInv => CandidatesAreComplete
<1>1. ASSUME GsInv, phase = "done", NEW a \in Node, NEW t \in Node
      PROVE  /\ a # t /\ dist[<<a, t>>] < Infinity => candidates[<<a, t>>] # {}
             /\ \A b \in Node :
                  Adjacent(a, b) /\ dist[<<b, t>>] < dist[<<a, t>>] =>
                    b \in candidates[<<a, t>>]
             /\ a = t \/ dist[<<a, t>>] = Infinity => candidates[<<a, t>>] = {}
  <2>1. Metric(dist, n) /\ n <= MaxNodes /\ candidates[<<a, t>>] \subseteq Node
    BY <1>1 DEF GsInv, GsTypeOK, ListsInv, SizeInv, NodePairs
  <2>2. \A b, c \in Node : dist[<<b, c>>] \in 0 .. Infinity
    BY <2>1, EntryType DEF Metric
  <2>3. ASSUME NEW b \in Node, Adjacent(a, b), dist[<<b, t>>] < dist[<<a, t>>]
        PROVE  b \in candidates[<<a, t>>]
    <3>1. dist[<<a, b>>] = 1
      BY <2>1, <2>3 DEF Metric, Grounded
    <3>2. ClosedBelow(dist, n) /\ b < n
      BY <2>1, NodesAssumption DEF Metric, Node
    <3>3. dist[<<a, t>>] <= dist[<<a, b>>] + dist[<<b, t>>]
      BY <3>2 DEF ClosedBelow, Detour
    <3>4. OnShortestPath(a, b, t)
      BY <2>2, <2>3, <3>1, <3>3, InfinityType DEF OnShortestPath
    <3> QED BY <1>1, <2>3, <3>4, FinishedLists
  <2>4. ASSUME a # t, dist[<<a, t>>] < Infinity PROVE candidates[<<a, t>>] # {}
    <3>1. PICK b \in Node : Adjacent(a, b) /\ dist[<<b, t>>] <= dist[<<a, t>>] - 1
      BY <2>1, <2>4 DEF Metric, Supported
    <3>2. dist[<<b, t>>] < dist[<<a, t>>]
      BY <2>2, <3>1, InfinityType
    <3> QED BY <2>3, <3>1, <3>2
  <2>5. ASSUME a = t \/ dist[<<a, t>>] = Infinity, NEW b \in candidates[<<a, t>>]
        PROVE  FALSE
    <3>1. b \in Node /\ dist[<<a, t>>] - 1 = dist[<<b, t>>]
      BY <1>1, <2>1, <2>5, FinishedLists DEF OnShortestPath
    <3>2. CASE a = t
      <4>1. dist[<<a, t>>] = 0
        BY <2>1, <3>2 DEF Metric, Grounded
      <4> QED BY <2>2, <3>1, <4>1, InfinityType
    <3>3. CASE dist[<<a, t>>] = Infinity
      <4>1. dist[<<b, t>>] = Infinity - 1 /\ dist[<<b, t>>] < Infinity
        BY <3>1, <3>3, InfinityType
      <4>2. dist[<<b, t>>] < n
        BY <2>1, <3>1, <4>1, HopCount
      <4> QED BY <2>1, <4>1, <4>2, InfinityType, NodesAssumption DEF MaxNodes
    <3> QED BY <2>5, <3>2, <3>3
  <2> QED BY <2>3, <2>4, <2>5
<1> QED BY <1>1 DEF CandidatesAreComplete

\* There is a candidate exactly where there is a path, and every neighbour
\* on a shortest path is one.
THEOREM CandidatesComplete == GsSpec => []CandidatesAreComplete
BY GsInvariant, FinishedComplete, PTL

----------------------------------------------------------------------------
(* Entries are the lengths of shortest walks.  Walks are functions, so each *)
(* direction is an induction in the form of a least counterexample.         *)

LEMMA FirstHops ==
  ASSUME NEW m \in Nat \ {0}, NEW a \in Node, NEW b \in Node,
         NEW w \in Walks(m, a, b)
  PROVE  /\ w[m - 1] \in Node /\ Adjacent(w[m - 1], b)
         /\ Walks(m - 1, a, w[m - 1]) # {}
<1> DEFINE u == [h \in 0 .. m - 1 |-> w[h]]
<1>1. /\ w \in [0 .. m -> Node] /\ w[0] = a /\ w[m] = b
      /\ \A h \in 1 .. m : Adjacent(w[h - 1], w[h])
  BY DEF Walks
<1>2. m - 1 \in 0 .. m /\ m \in 1 .. m /\ 0 \in 0 .. m - 1 /\ m - 1 \in 0 .. m - 1
  OBVIOUS
<1>3. w[m - 1] \in Node /\ Adjacent(w[m - 1], w[m])
  BY <1>1, <1>2
<1>4. \A h \in 0 .. m - 1 : u[h] = w[h] /\ w[h] \in Node
  BY <1>1
<1>5. u \in [0 .. m - 1 -> Node]
  BY <1>4
<1>6. \A h \in 1 .. m - 1 : Adjacent(u[h - 1], u[h])
  <2>1. ASSUME NEW h \in 1 .. m - 1 PROVE Adjacent(u[h - 1], u[h])
    <3>1. h \in 0 .. m - 1 /\ h - 1 \in 0 .. m - 1 /\ h \in 1 .. m
      OBVIOUS
    <3>2. u[h] = w[h] /\ u[h - 1] = w[h - 1]
      BY <1>4, <3>1
    <3> HIDE DEF u
    <3> QED BY <1>1, <3>1, <3>2
  <2> QED BY <2>1
<1>7. u[0] = a /\ u[m - 1] = w[m - 1]
  BY <1>1, <1>2, <1>4
<1> HIDE DEF u
<1>8. u \in Walks(m - 1, a, w[m - 1])
  BY <1>5, <1>6, <1>7 DEF Walks
<1> QED BY <1>1, <1>3, <1>8

\* No entry is larger than a walk is long.
LEMMA WalkBound ==
  ASSUME NEW D, Metric(D, n)
  PROVE  \A m \in Nat : \A a, b \in Node :
           Walks(m, a, b) # {} => D[<<a, b>>] <= m
<1> DEFINE Bad == {m \in Nat : \E a, b \in Node :
                     Walks(m, a, b) # {} /\ ~(D[<<a, b>>] <= m)}
<1>1. \A a, b \in Node : D[<<a, b>>] \in 0 .. Infinity
  BY EntryType DEF Metric
<1>2. ASSUME NEW m \in Bad PROVE \E l \in Bad : l < m
  <2>1. m \in Nat
    OBVIOUS
  <2>2. PICK a \in Node, b \in Node : Walks(m, a, b) # {} /\ ~(D[<<a, b>>] <= m)
    OBVIOUS
  <2>3. PICK w : w \in Walks(m, a, b)
    BY <2>2
  <2>4. m # 0
    <3>1. SUFFICES ASSUME m = 0 PROVE FALSE
      OBVIOUS
    <3>2. a = b
      BY <2>3, <3>1 DEF Walks
    <3>3. D[<<a, b>>] = 0
      BY <3>2 DEF Metric, Grounded
    <3> QED BY <2>2, <3>1, <3>3
  <2>5. PICK c \in Node : Adjacent(c, b) /\ Walks(m - 1, a, c) # {}
    BY <2>1, <2>3, <2>4, FirstHops
  <2>6. D[<<c, b>>] = 1
    BY <2>5 DEF Metric, Grounded
  <2>7. D[<<a, b>>] <= D[<<a, c>>] + D[<<c, b>>]
    <3>1. ClosedBelow(D, n) /\ c < n
      BY NodesAssumption DEF Metric, Node
    <3> QED BY <3>1 DEF ClosedBelow, Detour
  <2>8. ~(D[<<a, c>>] <= m - 1)
    BY <1>1, <2>1, <2>2, <2>6, <2>7, InfinityType
  <2>9. m - 1 \in Nat /\ m - 1 < m
    BY <2>1, <2>4
  <2>10. m - 1 \in Bad
    BY <2>5, <2>8, <2>9
  <2> QED BY <2>9, <2>10
<1>3. Bad = {}
  BY <1>2, LeastNumber
<1> QED BY <1>3

LEMMA OneMoreHop ==
  ASSUME NEW m \in Nat, NEW a \in Node, NEW b \in Node, NEW c \in Node,
         Adjacent(a, b), NEW w \in Walks(m, b, c)
  PROVE  Walks(m + 1, a, c) # {}
<1> DEFINE u == [h \in 0 .. m + 1 |-> IF h = 0 THEN a ELSE w[h - 1]]
<1>1. /\ w \in [0 .. m -> Node] /\ w[0] = b /\ w[m] = c
      /\ \A h \in 1 .. m : Adjacent(w[h - 1], w[h])
  BY DEF Walks
<1>2. u[0] = a
  OBVIOUS
<1>3. ASSUME NEW h \in 1 .. m + 1
      PROVE  h - 1 \in 0 .. m /\ u[h] = w[h - 1] /\ u[h] \in Node
  <2>1. h - 1 \in 0 .. m /\ h \in 0 .. m + 1 /\ h # 0
    OBVIOUS
  <2> QED BY <1>1, <2>1
<1>4. u \in [0 .. m + 1 -> Node]
  <2>1. \A h \in 0 .. m + 1 : h = 0 \/ h \in 1 .. m + 1
    OBVIOUS
  <2>2. u = [h \in 0 .. m + 1 |-> u[h]]
    OBVIOUS
  <2> HIDE DEF u
  <2> QED BY <1>2, <1>3, <2>1, <2>2
<1>5. u[m + 1] = c
  <2>1. m + 1 \in 1 .. m + 1 /\ m + 1 - 1 = m
    OBVIOUS
  <2> HIDE DEF u
  <2> QED BY <1>1, <1>3, <2>1
<1> HIDE DEF u
<1>6. ASSUME NEW h \in 1 .. m + 1 PROVE Adjacent(u[h - 1], u[h])
  <2>1. CASE h = 1
    BY <1>1, <1>2, <1>3, <2>1
  <2>2. CASE h # 1
    <3>1. h - 1 \in 1 .. m + 1 /\ h - 1 \in 1 .. m
      BY <2>2
    <3>2. u[h] = w[h - 1] /\ u[h - 1] = w[h - 1 - 1]
      BY <1>3, <3>1
    <3>3. Adjacent(w[h - 1 - 1], w[h - 1])
      BY <1>1, <3>1
    <3> QED BY <3>2, <3>3
  <2> QED BY <2>1, <2>2
<1>7. u \in Walks(m + 1, a, c)
  BY <1>2, <1>4, <1>5, <1>6 DEF Walks
<1> QED BY <1>7

\* A finite entry is the length of some walk.
LEMMA WalkExists ==
  ASSUME NEW D, Metric(D, n)
  PROVE  \A a, b \in Node :
           D[<<a, b>>] < Infinity => Walks(D[<<a, b>>], a, b) # {}
<1> DEFINE Bad == {m \in Nat : m < Infinity /\ \E a, b \in Node :
                     D[<<a, b>>] = m /\ Walks(m, a, b) = {}}
<1>1. \A a, b \in Node : D[<<a, b>>] \in 0 .. Infinity
  BY EntryType DEF Metric
<1>2. ASSUME NEW m \in Bad PROVE \E l \in Bad : l < m
  <2>1. m \in Nat /\ m < Infinity
    OBVIOUS
  <2>2. PICK a \in Node, b \in Node : D[<<a, b>>] = m /\ Walks(m, a, b) = {}
    OBVIOUS
  <2>3. a # b
    <3>1. SUFFICES ASSUME a = b PROVE FALSE
      OBVIOUS
    <3>2. m = 0
      BY <2>2, <3>1 DEF Metric, Grounded
    <3> DEFINE w == [h \in 0 .. 0 |-> a]
    <3>3. w \in [0 .. 0 -> Node] /\ w[0] = a
      OBVIOUS
    <3>4. \A h \in 1 .. 0 : FALSE
      OBVIOUS
    <3> HIDE DEF w
    <3>5. w \in Walks(0, a, b)
      BY <3>1, <3>3, <3>4 DEF Walks
    <3> QED BY <2>2, <3>2, <3>5
  <2>4. PICK c \in Node : Adjacent(a, c) /\ D[<<c, b>>] = D[<<a, b>>] - 1
    BY <2>1, <2>2, <2>3, NearerNode
  <2>5. m - 1 \in Nat /\ m - 1 < m /\ m - 1 < Infinity /\ m - 1 + 1 = m
    BY <1>1, <2>1, <2>2, <2>4, InfinityType
  <2>6. Walks(m - 1, c, b) = {}
    BY <2>2, <2>4, <2>5, OneMoreHop
  <2>7. m - 1 \in Bad
    BY <2>2, <2>4, <2>5, <2>6
  <2> QED BY <2>5, <2>7
<1>3. Bad = {}
  BY <1>2, LeastNumber
<1>4. \A m \in Nat : m < Infinity =>
        \A a, b \in Node : D[<<a, b>>] = m => Walks(m, a, b) # {}
  BY <1>3
<1> HIDE DEF Bad
<1> QED BY <1>1, <1>4, InfinityType

LEMMA MetricIsHopDistance ==
  ASSUME NEW D, Metric(D, n), n <= MaxNodes, NEW a \in Node, NEW b \in Node
  PROVE  D[<<a, b>>] = HopDistance(a, b)
<1> DEFINE hops == {m \in 0 .. n - 1 : Walks(m, a, b) # {}}
<1>1. D[<<a, b>>] \in 0 .. Infinity
  BY EntryType DEF Metric
<1>2. \A m \in hops : m \in Nat /\ D[<<a, b>>] <= m
  BY WalkBound, NodesAssumption
<1>3. CASE D[<<a, b>>] = Infinity
  <2>1. hops = {}
    <3>1. SUFFICES ASSUME NEW m \in hops PROVE FALSE
      OBVIOUS
    <3>2. m < n
      BY NodesAssumption
    <3> HIDE DEF hops
    <3> QED BY <1>2, <1>3, <3>1, <3>2, InfinityType, NodesAssumption DEF MaxNodes
  <2> QED BY <1>3, <2>1 DEF HopDistance
<1>4. CASE D[<<a, b>>] < Infinity
  <2>1. D[<<a, b>>] < n /\ D[<<a, b>>] \in Nat
    BY <1>1, <1>4, HopCount, InfinityType
  <2>2. Walks(D[<<a, b>>], a, b) # {}
    BY <1>4, WalkExists
  <2>3. D[<<a, b>>] \in hops
    BY <2>1, <2>2, NodesAssumption
  <2>4. HopDistance(a, b) = CHOOSE m \in hops : \A l \in hops : m <= l
    BY <2>3 DEF HopDistance
  <2> HIDE DEF hops
  <2>5. \A m \in hops : (\A l \in hops : m <= l) => m = D[<<a, b>>]
    BY <1>2, <2>1, <2>3
  <2>6. \A l \in hops : D[<<a, b>>] <= l
    BY <1>2
  <2>7. PICK m \in hops : m = HopDistance(a, b) /\ \A l \in hops : m <= l
    BY <2>3, <2>4, <2>6
  <2> QED BY <2>5, <2>7
<1> QED BY <1>1, <1>3, <1>4, InfinityType

\* The matrix that the lists are made of holds the lengths of the shortest
\* walks, on every topology of every size that is not refused.
THEOREM ShortestDistances == GsSpec => []DistancesAreShortest
<1>1. GsInv => DistancesAreShortest
  BY MetricIsHopDistance DEF GsInv, ListsInv, SizeInv, DistancesAreShortest
<1> QED BY GsInvariant, <1>1, PTL

----------------------------------------------------------------------------
(***************************************************************************)
(* Forwarding is loop-free on every topology, for every flow, whatever the *)
(* hashes are.  GsInv carries over from the calculation, which is over     *)
(* before the first packet is sent; it says that a hop that the arbiter    *)
(* decides on is one nearer to the destination of the packet, and the rest *)
(* is an induction over the hops a packet makes.                           *)
(***************************************************************************)

HeaderShape ==
  flow # NoFlow => flow.from[1] \in Node /\ flow.to[1] \in Node

PacketShape ==
  /\ pkt \in [Packets -> [status : {"idle", "wire", "delivered", "lost"},
                          back : BOOLEAN, of : Packets, trail : Seq(Node)]]
  /\ \A p \in Packets : pkt[p].status # "idle" => Len(pkt[p].trail) >= 2

\* Nothing is sent before there is a flow, and no flow before the lists.
Sequenced ==
  /\ phase # "done" => flow = NoFlow
  /\ flow = NoFlow => \A p \in Packets : pkt[p].status = "idle"

\* The trail t of a packet from a to b.
Nearing(t, a, b) ==
  \A m \in 1 .. Len(t) : dist[<<t[m], b>>] + m - 1 = dist[<<a, b>>]

NearingInv(p) ==
  pkt[p].status # "idle" => Nearing(pkt[p].trail, Source(p), Destination(p))

FwInv ==
  /\ GsInv
  /\ HeaderShape
  /\ PacketShape
  /\ Sequenced
  /\ \A p \in Packets : NearingInv(p)

----------------------------------------------------------------------------
LEMMA HeaderNodes ==
  ASSUME HeaderShape, flow # NoFlow, NEW back \in BOOLEAN
  PROVE  HeaderOf(back, TRUE).from[1] \in Node /\ HeaderOf(back, TRUE).to[1] \in Node
BY DEF HeaderShape, HeaderOf

\* The ports say nothing of the ends.
LEMMA TupleEnds ==
  ASSUME NEW p
  PROVE  /\ TupleOf(p).from[1] = Source(p)
         /\ TupleOf(p).to[1] = Destination(p)
BY DEF TupleOf, HeaderOf, Source, Destination

\* The arbiter's decision takes a packet one hop nearer.
LEMMA DecideNearer ==
  ASSUME GsInv, phase = "done", NEW a \in Node, NEW tuple, tuple.to[1] \in Node,
         NEW hop, Decide(a, tuple, hop)
  PROVE  hop \in Node /\ dist[<<hop, tuple.to[1]>>] + 1 = dist[<<a, tuple.to[1]>>]
<1> DEFINE t == tuple.to[1]
<1>1. hop \in candidates[<<a, t>>]
  BY DEF Decide, TopologyPtopDecide, ResolveNodeIdFromIp
<1>2. hop \in Node
  BY <1>1 DEF GsInv, GsTypeOK, NodePairs
<1>3. dist[<<a, t>>] - 1 = dist[<<hop, t>>]
  BY <1>1, <1>2, FinishedLists DEF OnShortestPath
<1>4. dist[<<a, t>>] \in 0 .. Infinity /\ dist[<<hop, t>>] \in 0 .. Infinity
  BY <1>2, EntryType DEF GsInv, ListsInv, Metric
<1> QED BY <1>2, <1>3, <1>4, InfinityType

\* No step of the forwarding touches the lists or the matrix.
LEMMA GsInvStays ==
  ASSUME GsInv, UNCHANGED gsVars
  PROVE  GsInv'
BY QuietGsStep

LEMMA NearingStays ==
  ASSUME UNCHANGED <<gsVars, flow>>, NEW p \in Packets, NearingInv(p),
         pkt'[p].back = pkt[p].back, pkt'[p].trail = pkt[p].trail,
         pkt'[p].status # "idle" => pkt[p].status # "idle"
  PROVE  NearingInv(p)'
BY DEF gsVars, NearingInv, Nearing, Source, Destination, HeaderOf

----------------------------------------------------------------------------
LEMMA InitFwInv == FwInit => FwInv
<1> SUFFICES ASSUME FwInit PROVE FwInv
  OBVIOUS
<1>1. GsInv
  BY InitGsInv DEF FwInit
<1>2. PacketShape
  BY DEF FwInit, PacketShape
<1> QED BY <1>1, <1>2 DEF FwInit, GsInit, FwInv, HeaderShape, Sequenced, NearingInv

\* Nothing changes for the packets when the flow is opened: none was sent.
LEMMA OpenStep ==
  ASSUME FwInv, UNCHANGED <<gsVars, pkt>>, phase = "done", flow = NoFlow,
         flow' # NoFlow => flow'.from[1] \in Node /\ flow'.to[1] \in Node
  PROVE  FwInv'
<1>1. GsInv'
  BY GsInvStays DEF FwInv
<1>2. phase' = "done" /\ \A p \in Packets : pkt'[p].status = "idle"
  BY DEF FwInv, Sequenced, gsVars
<1>3. PacketShape'
  BY DEF FwInv, PacketShape
<1> QED BY <1>1, <1>2, <1>3 DEF FwInv, HeaderShape, Sequenced, NearingInv

LEMMA ThrowStep ==
  ASSUME FwInv, UNCHANGED <<gsVars, flow, pkt>>
  PROVE  FwInv'
<1>1. GsInv'
  BY GsInvStays DEF FwInv
<1>2. phase' = phase
  BY DEF gsVars
<1>3. ASSUME NEW p \in Packets PROVE NearingInv(p)'
  BY NearingStays DEF FwInv
<1> QED BY <1>1, <1>2, <1>3 DEF FwInv, HeaderShape, PacketShape, Sequenced

\* A step that gives packets new records, each with a trail that is nearing.
LEMMA PacketStep ==
  ASSUME FwInv, UNCHANGED <<gsVars, flow>>, flow # NoFlow, PacketShape',
         \A q \in Packets :
           \/ pkt'[q] = pkt[q]
           \/ Nearing(pkt'[q].trail, HeaderOf(pkt'[q].back, TRUE).from[1],
                      HeaderOf(pkt'[q].back, TRUE).to[1])
  PROVE  FwInv'
<1>1. GsInv'
  BY GsInvStays DEF FwInv
<1>2. phase' = phase /\ dist' = dist
  BY DEF gsVars
<1>3. ASSUME NEW q \in Packets PROVE NearingInv(q)'
  <2>1. CASE pkt'[q] = pkt[q]
    BY <2>1, NearingStays DEF FwInv
  <2>2. CASE Nearing(pkt'[q].trail, HeaderOf(pkt'[q].back, TRUE).from[1],
                     HeaderOf(pkt'[q].back, TRUE).to[1])
    <3>1. /\ Source(q)' = HeaderOf(pkt'[q].back, TRUE).from[1]
          /\ Destination(q)' = HeaderOf(pkt'[q].back, TRUE).to[1]
      BY DEF Source, Destination, HeaderOf
    <3>2. Nearing(pkt[q].trail, Source(q), Destination(q))'
      BY <1>2, <2>2, <3>1 DEF Nearing
    <3> QED BY <3>2 DEF NearingInv
  <2> QED BY <2>1, <2>2
<1> QED BY <1>1, <1>2, <1>3 DEF FwInv, HeaderShape, Sequenced

LEMMA RouteOutputStep ==
  ASSUME FwInv, NEW p \in Packets, NEW rest \in SUBSET Packets, NEW back \in BOOLEAN,
         RouteOutput(p, rest, back)
  PROVE  FwInv'
<1> DEFINE tuple == HeaderOf(back, TRUE)
           here == tuple.from[1]
<1>1. phase = "done" /\ flow # NoFlow
  BY DEF RouteOutput, Running
<1>2. here \in Node /\ tuple.to[1] \in Node
  BY <1>1, HeaderNodes DEF FwInv
<1>3. CASE DecideThrows(here, tuple)
  BY <1>3, ThrowStep DEF DecideThrows
<1>4. ASSUME NEW hop \in Node, Decide(here, tuple, hop),
             pkt' = [q \in Packets |->
                       IF q \in rest \cup {p}
                       THEN [status |-> "wire", back |-> back, of |-> p,
                             trail |-> <<here, hop>>]
                       ELSE pkt[q]],
             UNCHANGED <<gsVars, flow>>
      PROVE  FwInv'
  <2>1. dist[<<hop, tuple.to[1]>>] + 1 = dist[<<here, tuple.to[1]>>]
    BY <1>1, <1>2, <1>4, DecideNearer DEF FwInv
  <2>2. dist[<<here, tuple.to[1]>>] \in 0 .. Infinity /\ dist[<<hop, tuple.to[1]>>] \in 0 .. Infinity
    BY <1>1, <1>2, EntryType DEF FwInv, GsInv, ListsInv, Metric
  <2>3. Nearing(<<here, hop>>, here, tuple.to[1])
    <3> DEFINE there == tuple.to[1]
    <3>1. \A x, y : (\A m \in 1 .. Len(<<x, y>>) : m = 1 \/ m = 2)
                    /\ <<x, y>>[1] = x /\ <<x, y>>[2] = y
      OBVIOUS
    <3>2. dist[<<hop, there>>] + 2 - 1 = dist[<<here, there>>]
          /\ dist[<<here, there>>] + 1 - 1 = dist[<<here, there>>]
      <4> HIDE DEF here, there
      <4> QED BY <2>1, <2>2, InfinityType DEF there
    <3> HIDE DEF here, there
    <3>3. Nearing(<<here, hop>>, here, there)
      BY <3>1, <3>2 DEF Nearing
    <3> QED BY <3>3 DEF there
  <2>4. PacketShape
    BY DEF FwInv
  <2>5. PacketShape'
    <3>1. <<here, hop>> \in Seq(Node) /\ Len(<<here, hop>>) = 2
      <4> HIDE DEF here
      <4> QED BY <1>2
    <3> DEFINE t == <<here, hop>>
               r == [status |-> "wire", back |-> back, of |-> p, trail |-> t]
    <3>2. pkt' = [q \in Packets |-> IF q \in rest \cup {p} THEN r ELSE pkt[q]]
      BY <1>4
    <3> HIDE DEF t
    <3>3. t \in Seq(Node) /\ Len(t) = 2
      BY <3>1 DEF t
    <3>4. r \in [status : {"idle", "wire", "delivered", "lost"},
                 back : BOOLEAN, of : Packets, trail : Seq(Node)]
      BY <3>3
    <3>5. r.trail = t /\ Len(r.trail) >= 2
      <4>1. r.trail = t
        OBVIOUS
      <4> HIDE DEF r
      <4> QED BY <3>3, <4>1
    <3> HIDE DEF r
    <3>6. \A q \in Packets : pkt'[q] = r \/ pkt'[q] = pkt[q]
      BY <3>2
    <3>7. pkt' \in [Packets -> [status : {"idle", "wire", "delivered", "lost"},
                                back : BOOLEAN, of : Packets, trail : Seq(Node)]]
      BY <2>4, <3>2, <3>4 DEF PacketShape
    <3>8. \A q \in Packets : pkt'[q].status # "idle" => Len(pkt'[q].trail) >= 2
      BY <2>4, <3>5, <3>6 DEF PacketShape
    <3> QED BY <3>7, <3>8 DEF PacketShape
  <2>6. ASSUME NEW q \in Packets
        PROVE  \/ pkt'[q] = pkt[q]
               \/ Nearing(pkt'[q].trail, HeaderOf(pkt'[q].back, TRUE).from[1],
                          HeaderOf(pkt'[q].back, TRUE).to[1])
    <3>1. CASE q \in rest \cup {p}
      <4>1. pkt'[q].back = back /\ pkt'[q].trail = <<here, hop>>
        BY <1>4, <3>1
      <4> QED BY <2>3, <4>1
    <3>2. CASE q \notin rest \cup {p}
      BY <1>4, <3>2
    <3> QED BY <3>1, <3>2
  <2> HIDE DEF tuple, here
  <2> QED BY <1>1, <1>4, <2>5, <2>6, PacketStep
<1> QED BY <1>3, <1>4 DEF RouteOutput

\* Delivery and loss leave the trail as it is.
LEMMA SettleStep ==
  ASSUME FwInv, NEW p \in Packets, pkt[p].status = "wire", NEW s \in {"delivered", "lost"},
         pkt' = [pkt EXCEPT ![p].status = s], UNCHANGED <<gsVars, flow>>
  PROVE  FwInv'
<1>1. flow # NoFlow
  BY DEF FwInv, Sequenced
<1>2. PacketShape /\ NearingInv(p)
  BY DEF FwInv
<1>3. PacketShape'
  BY <1>2 DEF PacketShape
<1>4. /\ pkt'[p].back = pkt[p].back /\ pkt'[p].trail = pkt[p].trail
      /\ \A q \in Packets : q # p => pkt'[q] = pkt[q]
  BY <1>2 DEF PacketShape
<1>5. Nearing(pkt[p].trail, HeaderOf(pkt[p].back, TRUE).from[1],
              HeaderOf(pkt[p].back, TRUE).to[1])
  BY <1>2 DEF NearingInv, Source, Destination
<1> QED BY <1>1, <1>3, <1>4, <1>5, PacketStep

LEMMA ForwardStep ==
  ASSUME FwInv, NEW p \in Packets, Running, pkt[p].status = "wire", Forward(p)
  PROVE  FwInv'
<1> DEFINE tuple == TupleOf(p)
           t == pkt[p].trail
           here == Source(p)
           there == Destination(p)
<1>1. phase = "done" /\ flow # NoFlow
  BY DEF Running, FwInv, Sequenced
<1>2. PacketShape /\ NearingInv(p)
  BY DEF FwInv
<1>3. t \in Seq(Node) /\ Len(t) >= 2 /\ Len(t) \in Nat /\ pkt[p].back \in BOOLEAN
  BY <1>2 DEF PacketShape
<1>4. At(p) \in Node /\ At(p) = t[Len(t)]
  BY <1>3 DEF At
<1>5. here \in Node /\ there \in Node /\ tuple.to[1] = there
  BY <1>1, <1>3, HeaderNodes, TupleEnds DEF FwInv, Source, Destination
<1>6. CASE DecideThrows(At(p), tuple)
  BY <1>6, ThrowStep DEF DecideThrows
<1>7. ASSUME NEW hop \in Node, Decide(At(p), tuple, hop),
             pkt' = [pkt EXCEPT ![p].trail = Append(@, hop)],
             UNCHANGED <<gsVars, flow>>
      PROVE  FwInv'
  <2> HIDE DEF tuple, here, there
  <2>1. dist[<<hop, there>>] + 1 = dist[<<At(p), there>>]
    BY <1>1, <1>4, <1>5, <1>7, DecideNearer DEF FwInv
  <2>2. \A a, b \in Node : dist[<<a, b>>] \in 0 .. Infinity
    BY <1>1, EntryType DEF FwInv, GsInv, ListsInv, Metric
  <2>3. Nearing(t, here, there)
    BY <1>2 DEF NearingInv, here, there
  <2>4. /\ Append(t, hop) \in Seq(Node)
        /\ Len(Append(t, hop)) = Len(t) + 1
        /\ \A m \in 1 .. Len(t) : Append(t, hop)[m] = t[m]
        /\ Append(t, hop)[Len(t) + 1] = hop
    BY <1>3
  <2>5. dist[<<At(p), there>>] + Len(t) - 1 = dist[<<here, there>>]
    <3>1. Len(t) \in 1 .. Len(t)
      BY <1>3
    <3> QED BY <1>4, <2>3, <3>1 DEF Nearing
  <2>6. dist[<<hop, there>>] + (Len(t) + 1) - 1 = dist[<<here, there>>]
    <3>1. /\ dist[<<hop, there>>] \in 0 .. Infinity /\ dist[<<At(p), there>>] \in 0 .. Infinity
          /\ dist[<<here, there>>] \in 0 .. Infinity
      BY <1>4, <1>5, <1>7, <2>2
    <3> DEFINE l == Len(t)
               x == dist[<<hop, there>>]
               y == dist[<<At(p), there>>]
               z == dist[<<here, there>>]
    <3>2. l \in Nat /\ x + 1 = y /\ y + l - 1 = z
      BY <1>3, <2>1, <2>5
    <3>3. x \in Nat /\ y \in Nat /\ z \in Nat
      BY <3>1, InfinityType
    <3> HIDE DEF l, x, y, z
    <3>4. x + (l + 1) - 1 = z
      BY <3>2, <3>3
    <3> QED BY <3>4 DEF l, x, y, z
  <2>7. Nearing(Append(t, hop), here, there)
    <3> SUFFICES ASSUME NEW m \in 1 .. Len(t) + 1
                 PROVE  dist[<<Append(t, hop)[m], there>>] + m - 1 = dist[<<here, there>>]
      BY <2>4 DEF Nearing
    <3>1. CASE m = Len(t) + 1
      BY <2>4, <2>6, <3>1
    <3>2. CASE m # Len(t) + 1
      <4>1. m \in 1 .. Len(t)
        BY <1>3, <3>2
      <4> QED BY <2>3, <2>4, <4>1 DEF Nearing
    <3> QED BY <3>1, <3>2
  <2>8. /\ pkt'[p].status = "wire" /\ pkt'[p].back = pkt[p].back
        /\ pkt'[p].of = pkt[p].of /\ pkt'[p].trail = Append(t, hop)
        /\ \A q \in Packets : q # p => pkt'[q] = pkt[q]
    BY <1>2, <1>7 DEF PacketShape
  <2>9. PacketShape'
    <3>1. pkt' \in [Packets -> [status : {"idle", "wire", "delivered", "lost"},
                                back : BOOLEAN, of : Packets, trail : Seq(Node)]]
      BY <1>2, <1>7, <2>4 DEF PacketShape
    <3>2. Len(pkt'[p].trail) >= 2
      BY <1>3, <2>4, <2>8
    <3>3. \A q \in Packets : pkt'[q].status # "idle" => Len(pkt'[q].trail) >= 2
      BY <1>2, <2>8, <3>2 DEF PacketShape
    <3> QED BY <3>1, <3>3 DEF PacketShape
  <2>10. Nearing(pkt'[p].trail, HeaderOf(pkt'[p].back, TRUE).from[1],
                 HeaderOf(pkt'[p].back, TRUE).to[1])
    BY <2>7, <2>8 DEF here, there, Source, Destination
  <2> QED BY <1>1, <1>7, <2>8, <2>9, <2>10, PacketStep
<1> QED BY <1>6, <1>7 DEF Forward

LEMMA CalculateStep ==
  ASSUME FwInv, Calculate
  PROVE  FwInv'
<1>1. GsInv'
  <2>1. CASE InitializeDistances
    BY <2>1, InitializeStep DEF FwInv
  <2>2. CASE CoreStep
    BY <2>2, CoreGsStep DEF FwInv
  <2>3. CASE \E e \in todo : VisitEdge(e)
    BY <2>3, VisitGsStep DEF FwInv
  <2>4. CASE ListsDone
    BY <2>4, QuietGsStep DEF FwInv
  <2> QED BY <2>1, <2>2, <2>3, <2>4 DEF Calculate, GsNext
<1>2. phase # "done"
  BY DEF Calculate, GsNext, InitializeDistances, CoreStep, Relax, VisitEdge, ListsDone
<1>3. flow = NoFlow /\ flow' = flow /\ pkt' = pkt
  BY <1>2 DEF FwInv, Sequenced, Calculate, fwVars
<1> QED BY <1>1, <1>3 DEF FwInv, HeaderShape, PacketShape, Sequenced, NearingInv

LEMMA FirstAddressNode == \A b : FirstAddress(b)[1] = b
BY DEF FirstAddress

\* The forwarding's inductive invariant.
THEOREM FwInvariant == FwSpec => []FwInv
<1>1. ASSUME FwInv, [FwNext]_vars PROVE FwInv'
  <2>1. CASE Calculate
    BY <1>1, <2>1, CalculateStep
  <2>2. ASSUME NEW a \in Node, NEW b \in Node, ConnectTcp(a, b) PROVE FwInv'
    <3>1. phase = "done" /\ flow = NoFlow
      BY <2>2 DEF ConnectTcp, Running
    <3>2. CASE DecideThrows(a, SourceRequest(b))
      BY <1>1, <3>2, ThrowStep DEF DecideThrows
    <3>3. ASSUME NEW hop \in Node,
                 flow' = [kind |-> "tcp", from |-> <<a, hop>>, to |-> FirstAddress(b)],
                 UNCHANGED <<gsVars, pkt>>
          PROVE  FwInv'
      <4>1. flow'.from[1] \in Node /\ flow'.to[1] \in Node
        BY <3>3, FirstAddressNode
      <4> QED BY <1>1, <3>1, <3>3, <4>1, OpenStep
    <3> QED BY <2>2, <3>2, <3>3 DEF ConnectTcp
  <2>3. ASSUME NEW a \in Node, NEW b \in Node, BindUdp(a, b) PROVE FwInv'
    <3>1. /\ phase = "done" /\ flow = NoFlow /\ UNCHANGED <<gsVars, pkt>>
          /\ flow'.from[1] \in Node /\ flow'.to[1] \in Node
      BY <2>3, FirstAddressNode DEF BindUdp, Running
    <3> QED BY <1>1, <3>1, OpenStep
  <2>4. ASSUME NEW p \in Packets, NEW rest \in SUBSET Packets, NEW back \in BOOLEAN,
               RouteOutput(p, rest, back)
        PROVE  FwInv'
    BY <1>1, <2>4, RouteOutputStep
  <2>5. ASSUME NEW p \in Packets, RouteInput(p) PROVE FwInv'
    <3>1. CASE LocalDeliver(p)
      BY <1>1, <2>5, <3>1, SettleStep DEF LocalDeliver, RouteInput
    <3>2. CASE Forward(p)
      BY <1>1, <2>5, <3>2, ForwardStep DEF RouteInput
    <3> QED BY <2>5, <3>1, <3>2 DEF RouteInput
  <2>6. ASSUME NEW p \in Packets, Drop(p) PROVE FwInv'
    BY <1>1, <2>6, SettleStep DEF Drop
  <2>7. CASE UNCHANGED vars
    BY <1>1, <2>7, ThrowStep DEF vars, fwVars
  <2> QED BY <1>1, <2>1, <2>2, <2>3, <2>4, <2>5, <2>6, <2>7 DEF FwNext
<1> QED BY InitFwInv, <1>1, PTL DEF FwSpec

\* Loop freedom, on every topology and for every choice the hashes make.
THEOREM LoopFreedom == FwSpec => []EveryHopIsNearer
<1>1. FwInv => EveryHopIsNearer
  BY DEF FwInv, EveryHopIsNearer, NearingInv, Nearing
<1> QED BY FwInvariant, <1>1, PTL
----------------------------------------------------------------------------
(* One path for each direction of the flow *)

\* What is hashed for the hop from the m-th node of the trail: the sender decides
\* for the datagram as a whole.
TupleAt(p, m) == HeaderOf(pkt[p].back, m = 1 \/ ~Later(p))

\* The hop b from a is the one that is remembered.
Remembered(a, tuple, b) == <<a, tuple>> \in DOMAIN hashed /\ hashed[<<a, tuple>>] = b

RememberedInv(p) ==
  pkt[p].status # "idle" =>
    /\ pkt[p].trail[1] = Source(p)
    /\ \A m \in 1 .. Len(pkt[p].trail) - 1 :
         Remembered(pkt[p].trail[m], TupleAt(p, m), pkt[p].trail[m + 1])

\* The property, of two packets.
Agree(p, q) ==
  pkt[p].status # "idle" /\ pkt[q].status # "idle" /\ pkt[p].back = pkt[q].back =>
    \A m \in (DOMAIN pkt[p].trail) \cap (DOMAIN pkt[q].trail) :
      m <= 2 \/ Later(p) = Later(q) => pkt[p].trail[m] = pkt[q].trail[m]

PathInv ==
  /\ \A p \in Packets : RememberedInv(p)
  /\ \A p, q \in Packets : Agree(p, q)

\* What is remembered stays so.
HashKept == \A x \in DOMAIN hashed : x \in DOMAIN hashed' /\ hashed'[x] = hashed[x]

LEMMA HashGrows ==
  ASSUME NEW a, NEW tuple, NEW hop, RememberHop(a, tuple, hop)
  PROVE  /\ HashKept
         /\ <<a, tuple>> \in DOMAIN hashed' /\ hashed'[<<a, tuple>>] = hop
         /\ <<a, tuple>> \in DOMAIN hashed => hashed[<<a, tuple>>] = hop
BY DEF RememberHop, HashKept

LEMMA ThrowKeepsHash ==
  ASSUME NEW a, NEW tuple, DecideThrows(a, tuple)
  PROVE  HashKept
BY HashGrows DEF DecideThrows, NoCandidates, NotANeighbor, TopologyPtopDecide, HashKept

LEMMA StillRemembered ==
  ASSUME HashKept, NEW a, NEW tuple, NEW b, Remembered(a, tuple, b)
  PROVE  /\ <<a, tuple>> \in DOMAIN hashed'
         /\ hashed'[<<a, tuple>>] = b
BY DEF HashKept, Remembered

\* A packet that stays where it is.
LEMMA SameRemembered ==
  ASSUME HashKept, UNCHANGED flow, NEW p \in Packets, RememberedInv(p),
         pkt'[p].trail = pkt[p].trail, pkt'[p].back = pkt[p].back, pkt'[p].of = pkt[p].of,
         pkt'[p].status # "idle" => pkt[p].status # "idle"
  PROVE  RememberedInv(p)'
<1> SUFFICES ASSUME pkt'[p].status # "idle"
             PROVE  RememberedInv(p)'
  BY DEF RememberedInv
<1>1. /\ Source(p)' = Source(p)
      /\ \A m : TupleAt(p, m)' = TupleAt(p, m)
  BY DEF Source, TupleAt, HeaderOf, Later
<1>2. /\ pkt[p].trail[1] = Source(p)
      /\ \A m \in 1 .. Len(pkt[p].trail) - 1 :
           Remembered(pkt[p].trail[m], TupleAt(p, m), pkt[p].trail[m + 1])
  BY DEF RememberedInv
<1>3. ASSUME NEW m \in 1 .. Len(pkt[p].trail) - 1
      PROVE  /\ <<pkt[p].trail[m], TupleAt(p, m)>> \in DOMAIN hashed'
             /\ hashed'[<<pkt[p].trail[m], TupleAt(p, m)>>] = pkt[p].trail[m + 1]
  BY <1>2, StillRemembered
<1> QED BY <1>1, <1>2, <1>3 DEF RememberedInv, Remembered

\* Steps that move no packet.
LEMMA SamePaths ==
  ASSUME PathInv, HashKept, UNCHANGED flow \/ \A p \in Packets : pkt[p].status = "idle",
         \A p \in Packets : /\ pkt'[p].trail = pkt[p].trail /\ pkt'[p].back = pkt[p].back
                            /\ pkt'[p].of = pkt[p].of
                            /\ pkt'[p].status # "idle" => pkt[p].status # "idle"
  PROVE  PathInv'
<1>1. ASSUME NEW p \in Packets PROVE RememberedInv(p)'
  <2>1. CASE pkt'[p].status = "idle"
    BY <2>1 DEF RememberedInv
  <2>2. CASE pkt'[p].status # "idle"
    BY <2>2, SameRemembered DEF PathInv
  <2> QED BY <2>1, <2>2
<1>2. ASSUME NEW p \in Packets, NEW q \in Packets PROVE Agree(p, q)'
  <2>1. Agree(p, q)
    BY DEF PathInv
  <2> QED BY <2>1 DEF Agree, Later
<1> QED BY <1>1, <1>2 DEF PathInv

\* A step that moves the packets of Q to where they agree with all.
LEMMA PathStep ==
  ASSUME PathInv, HashKept, UNCHANGED flow, NEW Q \in SUBSET Packets,
         \A q \in Packets \ Q : pkt'[q] = pkt[q],
         \A q \in Q : RememberedInv(q)',
         \A q \in Q, r \in Packets : Agree(q, r)'
  PROVE  PathInv'
<1>1. ASSUME NEW q \in Packets PROVE RememberedInv(q)'
  BY SameRemembered DEF PathInv
<1>2. ASSUME NEW q \in Packets, NEW r \in Packets PROVE Agree(q, r)'
  <2>1. CASE q \in Q
    BY <2>1
  <2>2. CASE r \in Q
    <3>1. Agree(r, q)'
      BY <2>2
    <3> QED BY <3>1 DEF Agree, Later
  <2>3. CASE q \notin Q /\ r \notin Q
    <3>1. Agree(q, r)
      BY DEF PathInv
    <3> QED BY <2>3, <3>1 DEF Agree, Later
  <2> QED BY <2>1, <2>2, <2>3
<1> QED BY <1>1, <1>2 DEF PathInv

\* The first hop is remembered for the datagram, so that all its fragments and
\* all other datagrams of the direction take the same.
LEMMA RouteOutputPath ==
  ASSUME FwInv, PathInv, NEW p \in Packets, NEW rest \in SUBSET Packets, NEW back \in BOOLEAN,
         RouteOutput(p, rest, back)
  PROVE  PathInv'
<1> DEFINE h == HeaderOf(back, TRUE)
           here == h.from[1]
<1>1. CASE DecideThrows(here, h)
  BY <1>1, ThrowKeepsHash, SamePaths DEF DecideThrows
<1>2. ASSUME NEW hop \in Node, Decide(here, h, hop),
             pkt' = [q \in Packets |->
                       IF q \in rest \cup {p}
                       THEN [status |-> "wire", back |-> back, of |-> p,
                             trail |-> <<here, hop>>]
                       ELSE pkt[q]],
             UNCHANGED <<gsVars, flow>>
      PROVE  PathInv'
  <2> DEFINE Q == rest \cup {p}
  <2> HIDE DEF h, here
  <2>1. /\ HashKept
        /\ <<here, h>> \in DOMAIN hashed' /\ hashed'[<<here, h>>] = hop
        /\ <<here, h>> \in DOMAIN hashed => hashed[<<here, h>>] = hop
    BY <1>2, HashGrows DEF Decide, TopologyPtopDecide
  <2>2. PacketShape /\ Q \in SUBSET Packets
    BY DEF FwInv
  <2>3. /\ \A q \in Q : /\ pkt'[q].back = back /\ pkt'[q].trail = <<here, hop>>
                        /\ pkt'[q].status # "idle"
        /\ \A q \in Packets \ Q : pkt'[q] = pkt[q]
    BY <1>2
  <2>4. HeaderOf(back, TRUE)' = h /\ (\A q \in Q : Source(q)' = here /\ TupleAt(q, 1)' = h)
    BY <1>2, <2>3 DEF HeaderOf, Source, TupleAt, h, here
  <2> HIDE DEF Q
  <2>5. ASSUME NEW q \in Q PROVE RememberedInv(q)'
    <3>1. pkt'[q].trail = <<here, hop>> /\ Source(q)' = here /\ TupleAt(q, 1)' = h
      BY <2>3, <2>4
    <3>2. Len(<<here, hop>>) = 2 /\ <<here, hop>>[1] = here /\ <<here, hop>>[2] = hop
      OBVIOUS
    <3>3. ASSUME NEW m \in 1 .. Len(pkt'[q].trail) - 1
          PROVE  Remembered(pkt[q].trail[m], TupleAt(q, m), pkt[q].trail[m + 1])'
      <4>1. m = 1
        BY <3>1, <3>2
      <4> QED BY <2>1, <3>1, <3>2, <4>1 DEF Remembered
    <3> QED BY <3>1, <3>2, <3>3 DEF RememberedInv
  <2>6. ASSUME NEW q \in Q, NEW r \in Packets PROVE Agree(q, r)'
    <3>1. pkt'[q].trail = <<here, hop>> /\ pkt'[q].back = back
      BY <2>3
    <3>2. CASE r \in Q
      <4>1. pkt'[r].trail = <<here, hop>>
        BY <2>3, <3>2
      <4> QED BY <3>1, <4>1 DEF Agree
    <3>3. CASE r \notin Q
      <4>1. pkt'[r] = pkt[r]
        BY <2>3, <3>3
      <4> SUFFICES ASSUME pkt[r].status # "idle", pkt[r].back = back,
                          NEW m \in (DOMAIN <<here, hop>>) \cap (DOMAIN pkt[r].trail)
                   PROVE  <<here, hop>>[m] = pkt[r].trail[m]
        BY <3>1, <4>1 DEF Agree
      <4>2. /\ pkt[r].trail \in Seq(Node) /\ Len(pkt[r].trail) >= 2
            /\ pkt[r].trail[1] = here
            /\ Remembered(pkt[r].trail[1], h, pkt[r].trail[2])
        <5>1. pkt[r].trail \in Seq(Node) /\ Len(pkt[r].trail) >= 2
          BY <2>2 DEF PacketShape
        <5>2. 1 \in 1 .. Len(pkt[r].trail) - 1 /\ 1 + 1 = 2
          BY <5>1
        <5>3. pkt[r].trail[1] = Source(r)
              /\ Remembered(pkt[r].trail[1], TupleAt(r, 1), pkt[r].trail[2])
          BY <5>2 DEF PathInv, RememberedInv
        <5>4. Source(r) = here /\ TupleAt(r, 1) = h
          BY DEF Source, TupleAt, HeaderOf, h, here
        <5> QED BY <5>1, <5>3, <5>4
      <4>3. m = 1 \/ m = 2
        OBVIOUS
      <4> QED BY <2>1, <4>2, <4>3 DEF Remembered
    <3> QED BY <3>2, <3>3
  <2> QED BY <1>2, <2>1, <2>2, <2>3, <2>5, <2>6, PathStep
<1> QED BY <1>1, <1>2 DEF RouteOutput

\* A hop behind the sender is remembered for the packet's own header, which it
\* shares with the packets that have, or lack, the ports as it does.
LEMMA ForwardPath ==
  ASSUME FwInv, PathInv, NEW p \in Packets, pkt[p].status = "wire", Forward(p)
  PROVE  PathInv'
<1> DEFINE h == TupleOf(p)
           t == pkt[p].trail
<1>1. CASE DecideThrows(At(p), h)
  BY <1>1, ThrowKeepsHash, SamePaths DEF DecideThrows
<1>2. ASSUME NEW hop \in Node, Decide(At(p), h, hop),
             pkt' = [pkt EXCEPT ![p].trail = Append(@, hop)],
             UNCHANGED <<gsVars, flow>>
      PROVE  PathInv'
  <2>1. PacketShape
    BY DEF FwInv
  <2>2. t \in Seq(Node) /\ Len(t) \in Nat /\ Len(t) >= 2 /\ At(p) = t[Len(t)]
    BY <2>1 DEF PacketShape, At
  <2>3. /\ pkt'[p].back = pkt[p].back /\ pkt'[p].trail = Append(t, hop)
        /\ pkt'[p].of = pkt[p].of
        /\ \A q \in Packets : q # p => pkt'[q] = pkt[q]
    BY <1>2, <2>1 DEF PacketShape
  <2>4. /\ t[1] = Source(p)
        /\ \A m \in 1 .. Len(t) - 1 : Remembered(t[m], TupleAt(p, m), t[m + 1])
    BY DEF PathInv, RememberedInv
  <2> DEFINE u == Append(t, hop)
  <2>5. /\ Len(u) = Len(t) + 1 /\ DOMAIN u = 1 .. Len(t) + 1
        /\ \A m \in 1 .. Len(t) : u[m] = t[m]
        /\ u[Len(t) + 1] = hop
    BY <2>2
  <2>6. /\ TupleAt(p, Len(t)) = h
        /\ \A m : TupleAt(p, m)' = TupleAt(p, m)
        /\ Source(p)' = Source(p)
        /\ \A q \in Packets : Later(q)' = Later(q)
    BY <1>2, <2>2, <2>3 DEF TupleAt, TupleOf, HeaderOf, Source, Later
  <2> HIDE DEF h, t, u
  <2>7. /\ HashKept
        /\ <<t[Len(t)], h>> \in DOMAIN hashed' /\ hashed'[<<t[Len(t)], h>>] = hop
        /\ <<t[Len(t)], h>> \in DOMAIN hashed => hashed[<<t[Len(t)], h>>] = hop
    <3>1. /\ HashKept
          /\ <<At(p), h>> \in DOMAIN hashed' /\ hashed'[<<At(p), h>>] = hop
          /\ <<At(p), h>> \in DOMAIN hashed => hashed[<<At(p), h>>] = hop
      BY <1>2, HashGrows DEF Decide, TopologyPtopDecide
    <3> QED BY <2>2, <3>1
  <2>8. ASSUME NEW m \in 1 .. Len(u) - 1
        PROVE  /\ <<u[m], TupleAt(p, m)>> \in DOMAIN hashed'
               /\ hashed'[<<u[m], TupleAt(p, m)>>] = u[m + 1]
    <3>1. CASE m = Len(t)
      BY <2>2, <2>5, <2>6, <2>7, <3>1
    <3>2. CASE m # Len(t)
      <4>1. m \in 1 .. Len(t) - 1 /\ m \in 1 .. Len(t) /\ m + 1 \in 1 .. Len(t)
        BY <2>2, <2>5, <3>2
      <4>2. Remembered(t[m], TupleAt(p, m), t[m + 1])
        BY <2>4, <4>1
      <4>3. u[m] = t[m] /\ u[m + 1] = t[m + 1]
        BY <2>5, <4>1
      <4> QED BY <2>7, <4>2, <4>3, StillRemembered
    <3> QED BY <3>1, <3>2
  <2>9. RememberedInv(p)'
    <3>1. pkt'[p].trail = u /\ u[1] = t[1]
      BY <2>2, <2>3, <2>5 DEF u
    <3> QED BY <2>4, <2>6, <2>8, <3>1 DEF RememberedInv, Remembered
  <2>10. ASSUME NEW q \in Packets PROVE Agree(p, q)'
    <3>1. CASE q = p
      BY <3>1 DEF Agree
    <3>2. CASE q # p
      <4> DEFINE v == pkt[q].trail
      <4>1. pkt'[q] = pkt[q] /\ pkt'[p].trail = u
        BY <2>3, <3>2 DEF u
      <4> SUFFICES ASSUME pkt[q].status # "idle", pkt[q].back = pkt[p].back,
                          NEW m \in (DOMAIN u) \cap (DOMAIN v),
                          m <= 2 \/ Later(p) = Later(q)
                   PROVE  u[m] = v[m]
        BY <2>3, <2>6, <4>1 DEF Agree
      <4>2. v \in Seq(Node) /\ Len(v) \in Nat /\ DOMAIN v = 1 .. Len(v) /\ DOMAIN t = 1 .. Len(t)
        BY <2>1, <2>2 DEF PacketShape
      <4>3. \A x \in (DOMAIN t) \cap (DOMAIN v) : x <= 2 \/ Later(p) = Later(q) => t[x] = v[x]
        BY DEF PathInv, Agree, t
      <4>4. \A x \in 1 .. Len(v) - 1 : Remembered(v[x], TupleAt(q, x), v[x + 1])
        BY DEF PathInv, RememberedInv
      <4> HIDE DEF v
      <4>5. CASE m \in 1 .. Len(t)
        <5>1. t[m] = v[m]
          BY <4>2, <4>3, <4>5
        <5> QED BY <2>5, <4>5, <5>1
      <4>6. CASE m = Len(t) + 1
        <5>1. Later(p) = Later(q)
          BY <2>2, <4>6
        <5>2. TupleAt(q, Len(t)) = h
          <6>1. TupleAt(q, Len(t)) = TupleAt(p, Len(t))
            BY <5>1 DEF TupleAt
          <6> QED BY <2>6, <6>1
        <5>3. Len(t) \in 1 .. Len(v) - 1 /\ Len(t) \in (DOMAIN t) \cap (DOMAIN v)
          BY <2>2, <4>2, <4>6
        <5>4. t[Len(t)] = v[Len(t)]
          BY <4>3, <5>1, <5>3
        <5>5. Remembered(v[Len(t)], h, v[Len(t) + 1])
          BY <4>4, <5>2, <5>3
        <5> QED BY <2>5, <2>7, <4>6, <5>4, <5>5 DEF Remembered
      <4> QED BY <2>2, <2>5, <4>2, <4>5, <4>6
    <3> QED BY <3>1, <3>2
  <2> DEFINE Q == {p}
  <2>11. /\ Q \in SUBSET Packets
         /\ \A q \in Packets \ Q : pkt'[q] = pkt[q]
         /\ \A q \in Q : RememberedInv(q)'
         /\ \A q \in Q, r \in Packets : Agree(q, r)'
    BY <2>3, <2>9, <2>10
  <2> HIDE DEF Q
  <2> QED BY <1>2, <2>7, <2>11, PathStep
<1> QED BY <1>1, <1>2 DEF Forward

\* Packets of the same direction with, or without, a readable transport header
\* visit the same nodes, whatever is computed between their decisions and
\* whichever of them is ahead, and all of them leave the sender on one hop.
THEOREM OnePath == FwSpec => []FlowKeepsToOnePath
<1>1. FwInit => PathInv
  BY DEF FwInit, PathInv, RememberedInv, Agree
<1>2. ASSUME FwInv, PathInv, [FwNext]_vars PROVE PathInv'
  <2>1. CASE Calculate \/ UNCHANGED vars
    BY <1>2, <2>1, SamePaths DEF Calculate, vars, fwVars, HashKept
  <2>2. ASSUME NEW a \in Node, NEW b \in Node, ConnectTcp(a, b) \/ BindUdp(a, b) PROVE PathInv'
    <3>1. (\A p \in Packets : pkt[p].status = "idle") /\ pkt' = pkt
      BY <1>2, <2>2 DEF FwInv, Sequenced, ConnectTcp, BindUdp, DecideThrows
    <3>2. HashKept
      BY <2>2, ThrowKeepsHash, HashGrows
         DEF ConnectTcp, BindUdp, Decide, TopologyPtopDecide, HashKept
    <3> QED BY <1>2, <3>1, <3>2, SamePaths
  <2>3. ASSUME NEW p \in Packets, NEW rest \in SUBSET Packets, NEW back \in BOOLEAN,
               RouteOutput(p, rest, back)
        PROVE  PathInv'
    BY <1>2, <2>3, RouteOutputPath
  <2>4. ASSUME NEW p \in Packets, RouteInput(p) \/ Drop(p) PROVE PathInv'
    <3>1. CASE pkt[p].status = "wire" /\ Forward(p)
      BY <1>2, <3>1, ForwardPath
    <3>2. CASE LocalDeliver(p) \/ Drop(p)
      <4>1. UNCHANGED <<flow, hashed>>
        BY <3>2 DEF LocalDeliver, Drop
      <4>2. ASSUME NEW q \in Packets
            PROVE  /\ pkt'[q].trail = pkt[q].trail /\ pkt'[q].back = pkt[q].back
                   /\ pkt'[q].of = pkt[q].of
                   /\ pkt'[q].status # "idle" => pkt[q].status # "idle"
        BY <1>2, <2>4, <3>2 DEF LocalDeliver, Drop, RouteInput, FwInv, PacketShape
      <4> QED BY <1>2, <4>1, <4>2, SamePaths DEF HashKept
    <3> QED BY <2>4, <3>1, <3>2 DEF RouteInput
  <2> QED BY <1>2, <2>1, <2>2, <2>3, <2>4 DEF FwNext
<1>3. PathInv => FlowKeepsToOnePath
  BY DEF PathInv, Agree, FlowKeepsToOnePath
<1> QED BY <1>1, <1>2, <1>3, FwInvariant, PTL DEF FwSpec
----------------------------------------------------------------------------
(* Where a route can be missing *)

Linked(a, b) == dist[<<a, b>>] < Infinity

\* A packet under way can reach its destination, and an answer to it the place
\* where it came from.
ReachInv(p) ==
  pkt[p].status # "idle" =>
    /\ Linked(flow.from[1], flow.to[1])
    /\ Linked(Source(p), Destination(p))
    /\ Linked(At(p), Source(p))
    /\ pkt[p].status = "delivered" => At(p) = Destination(p)

TwoEnds == flow # NoFlow => flow.from[1] # flow.to[1]

\* The ends of the flow are the nodes that it was opened between.
OpenedInv ==
  flow # NoFlow =>
    /\ opened \in NodePairs
    /\ flow.from[1] = opened[1] /\ flow.to[1] = opened[2]

RouteInv ==
  TwoEnds /\ OpenedInv /\ (\A p \in Packets : ReachInv(p)) /\ CrashOnlyWithoutPath

\* A node without candidates for a destination is it, or cannot reach it.
LEMMA Candidate ==
  ASSUME GsInv, phase = "done", NEW a \in Node, NEW t \in Node
  PROVE  /\ a # t /\ Linked(a, t) => candidates[<<a, t>>] # {}
         /\ ~Linked(a, t) => candidates[<<a, t>>] = {}
         /\ \A b \in candidates[<<a, t>>] : Adjacent(a, b) /\ b \in Node
<1>1. dist[<<a, t>>] \in 0 .. Infinity
  BY EntryType DEF GsInv, ListsInv, Metric
<1>2. CandidatesAreComplete
  BY FinishedComplete
<1>3. ASSUME NEW b \in candidates[<<a, t>>] PROVE Adjacent(a, b) /\ b \in Node
  <2>1. b \in Node
    BY DEF GsInv, GsTypeOK, NodePairs
  <2> QED BY <2>1, FinishedLists
<1> QED BY <1>1, <1>2, <1>3, InfinityType DEF CandidatesAreComplete, Linked

\* No path according to the matrix is no path in the graph.
LEMMA NoWalk ==
  ASSUME GsInv, phase = "done", NEW a \in Node, NEW b \in Node, ~Linked(a, b)
  PROVE  HopDistance(a, b) = Infinity
<1>1. Metric(dist, n) /\ n <= MaxNodes
  BY DEF GsInv, ListsInv, SizeInv
<1>2. dist[<<a, b>>] \in 0 .. Infinity
  BY <1>1, EntryType DEF Metric
<1>3. dist[<<a, b>>] = HopDistance(a, b)
  BY <1>1, MetricIsHopDistance
<1> QED BY <1>2, <1>3, InfinityType DEF Linked

\* The only exception is the one of a node without candidates.
LEMMA ThrowsWithoutPath ==
  ASSUME GsInv, phase = "done", NEW a \in Node, NEW tuple, tuple.to[1] \in Node,
         DecideThrows(a, tuple)
  PROVE  crashed' = "no_candidates" /\ (a = tuple.to[1] \/ ~Linked(a, tuple.to[1]))
<1>1. ~NotANeighbor(a, tuple)
  BY Candidate DEF NotANeighbor, TopologyPtopDecide, ResolveNodeIdFromIp
<1>2. NoCandidates(a, tuple)
  BY <1>1 DEF DecideThrows
<1> QED BY <1>2, Candidate DEF NoCandidates, ResolveNodeIdFromIp

\* The next node can be reached, and what reached this one is reached from it.
LEMMA DecideReaches ==
  ASSUME GsInv, phase = "done", NEW a \in Node, NEW tuple, tuple.to[1] \in Node,
         NEW hop, Decide(a, tuple, hop), NEW c \in Node, Linked(a, c)
  PROVE  Linked(a, tuple.to[1]) /\ Linked(hop, c)
<1>1. hop \in candidates[<<a, tuple.to[1]>>]
  BY DEF Decide, TopologyPtopDecide, ResolveNodeIdFromIp
<1>2. Linked(a, tuple.to[1]) /\ Adjacent(a, hop) /\ hop \in Node
  BY <1>1, Candidate
<1>3. Metric(dist, n) /\ n <= MaxNodes /\ n \in Nat
  BY NodesAssumption DEF GsInv, ListsInv, SizeInv
<1>4. dist[<<hop, a>>] = 1
  BY <1>2, <1>3 DEF Metric, Grounded, Adjacent
<1>5. dist[<<hop, c>>] <= dist[<<hop, a>>] + dist[<<a, c>>]
  BY <1>2, <1>3, NodesAssumption DEF Metric, ClosedBelow, Detour, Node
<1>6. dist[<<a, c>>] < n /\ dist[<<a, c>>] \in 0 .. Infinity /\ dist[<<hop, c>>] \in 0 .. Infinity
  BY <1>2, <1>3, HopCount, EntryType DEF Linked, Metric
<1>7. dist[<<hop, c>>] <= n
  BY <1>3, <1>4, <1>5, <1>6, InfinityType
<1>8. dist[<<hop, c>>] < Infinity
  BY <1>3, <1>6, <1>7, InfinityType DEF MaxNodes
<1> QED BY <1>2, <1>8 DEF Linked

LEMMA LinkedToItself ==
  ASSUME GsInv, phase = "done", NEW a \in Node
  PROVE  Linked(a, a)
BY InfinityType DEF GsInv, ListsInv, Metric, Grounded, Linked, MaxNodes

\* What a trail says of its last node.
LEMMA LastIsNearer ==
  ASSUME FwInv, NEW p \in Packets, pkt[p].status # "idle"
  PROVE  /\ At(p) \in Node /\ Source(p) \in Node /\ Destination(p) \in Node
         /\ Linked(Source(p), Destination(p)) => Linked(At(p), Destination(p))
<1> DEFINE t == pkt[p].trail
<1>1. t \in Seq(Node) /\ Len(t) >= 1 /\ Len(t) \in Nat /\ pkt[p].back \in BOOLEAN
  BY DEF FwInv, PacketShape
<1>2. At(p) \in Node /\ At(p) = t[Len(t)] /\ Len(t) \in 1 .. Len(t)
  BY <1>1 DEF At
<1>3. flow # NoFlow /\ phase = "done"
  BY DEF FwInv, Sequenced
<1>4. Source(p) \in Node /\ Destination(p) \in Node
  BY <1>1, <1>3, HeaderNodes DEF FwInv, Source, Destination
<1>5. /\ dist[<<At(p), Destination(p)>>] \in 0 .. Infinity
      /\ dist[<<Source(p), Destination(p)>>] \in 0 .. Infinity
  BY <1>2, <1>3, <1>4, EntryType DEF FwInv, GsInv, ListsInv, Metric
<1>6. dist[<<At(p), Destination(p)>>] + Len(t) - 1 = dist[<<Source(p), Destination(p)>>]
  BY <1>2 DEF FwInv, NearingInv, Nearing
<1> QED BY <1>1, <1>2, <1>4, <1>5, <1>6, InfinityType DEF Linked
\* Steps that move no packet and do not crash.
LEMMA SameReach ==
  ASSUME RouteInv, UNCHANGED <<dist, flow>>, NEW p \in Packets,
         pkt'[p].trail = pkt[p].trail, pkt'[p].back = pkt[p].back,
         pkt'[p].status = pkt[p].status
  PROVE  ReachInv(p)'
<1>1. /\ Source(p)' = Source(p) /\ Destination(p)' = Destination(p) /\ At(p)' = At(p)
  BY DEF HeaderOf, Source, Destination, At
<1>2. \A a, b : Linked(a, b)' <=> Linked(a, b)
  BY DEF Linked
<1>3. ReachInv(p)
  BY DEF RouteInv
<1> QED BY <1>1, <1>2, <1>3 DEF ReachInv

LEMMA MoveStep ==
  ASSUME RouteInv, UNCHANGED <<dist, flow, crashed, opened>>, crashed = "no",
         \A q \in Packets : pkt'[q] = pkt[q] \/ ReachInv(q)'
  PROVE  RouteInv'
<1>1. ASSUME NEW q \in Packets PROVE ReachInv(q)'
  BY SameReach
<1> QED BY <1>1 DEF RouteInv, TwoEnds, OpenedInv, CrashOnlyWithoutPath

\* An end of the flow that can reach the other does not throw, so that the
\* flow that does has not sent anything.
LEMMA RouteOutputReach ==
  ASSUME FwInv, RouteInv, NEW p \in Packets, NEW rest \in SUBSET Packets, NEW back \in BOOLEAN,
         RouteOutput(p, rest, back)
  PROVE  RouteInv'
<1> DEFINE h == HeaderOf(back, TRUE)
           here == h.from[1]
           there == h.to[1]
<1>1. /\ phase = "done" /\ flow # NoFlow /\ crashed = "no" /\ (back => Answerable)
      /\ GsInv /\ PacketShape /\ opened' = opened
  BY DEF RouteOutput, Running, FwInv
<1>2. here \in Node /\ there \in Node /\ here # there
  BY <1>1, HeaderNodes DEF FwInv, RouteInv, TwoEnds, HeaderOf
<1>3. ASSUME NEW q \in Packets, pkt[q].status # "idle"
      PROVE  Linked(flow.from[1], flow.to[1])
  BY <1>3 DEF RouteInv, ReachInv
<1>4. back => Linked(here, there) /\ Linked(flow.from[1], flow.to[1])
  <2> SUFFICES ASSUME back PROVE Linked(here, there) /\ Linked(flow.from[1], flow.to[1])
    OBVIOUS
  <2>1. PICK q \in Packets : pkt[q].status = "delivered" /\ ~pkt[q].back
    BY <1>1 DEF Answerable
  <2>2. Linked(At(q), Source(q)) /\ At(q) = Destination(q) /\ Linked(flow.from[1], flow.to[1])
    BY <2>1 DEF RouteInv, ReachInv
  <2>3. Source(q) = flow.from[1] /\ Destination(q) = flow.to[1]
    BY <2>1 DEF Source, Destination, HeaderOf
  <2>4. here = flow.to[1] /\ there = flow.from[1]
    BY DEF HeaderOf
  <2> QED BY <2>2, <2>3, <2>4
<1>5. ~back => here = flow.from[1] /\ there = flow.to[1]
  BY DEF HeaderOf
<1> HIDE DEF here, there, h
<1>6. CASE DecideThrows(here, h)
  <2>1. crashed' = "no_candidates" /\ ~Linked(here, there)
    BY <1>1, <1>2, <1>6, ThrowsWithoutPath DEF there
  <2>2. ~Linked(flow.from[1], flow.to[1])
    BY <1>4, <1>5, <2>1
  <2>3. /\ UNCHANGED <<gsVars, flow, pkt>>
        /\ \A q \in Packets : pkt[q].status = "idle"
    BY <1>3, <1>6, <2>2 DEF DecideThrows
  <2>4. /\ opened \in NodePairs
        /\ flow.from[1] = opened[1] /\ flow.to[1] = opened[2]
    BY <1>1 DEF RouteInv, OpenedInv
  <2>5. HopDistance(opened[1], opened[2]) = Infinity
    <3>1. flow.from[1] \in Node /\ flow.to[1] \in Node
      BY <1>1 DEF FwInv, HeaderShape
    <3>2. HopDistance(flow.from[1], flow.to[1]) = Infinity
      BY <1>1, <2>2, <3>1, NoWalk
    <3> QED BY <2>4, <3>2
  <2>6. HopDistance(opened[1], opened[2])' = HopDistance(opened[1], opened[2])
    BY <1>1, <2>3 DEF HopDistance, Walks, Adjacent, gsVars
  <2>7. opened' # Unset
    BY <1>1, <2>4, UnsetAssumption
  <2> QED BY <1>1, <2>1, <2>3, <2>5, <2>6, <2>7
          DEF RouteInv, TwoEnds, OpenedInv, ReachInv, CrashOnlyWithoutPath
<1>7. ASSUME NEW hop \in Node, Decide(here, h, hop),
             pkt' = [q \in Packets |->
                       IF q \in rest \cup {p}
                       THEN [status |-> "wire", back |-> back, of |-> p,
                             trail |-> <<here, hop>>]
                       ELSE pkt[q]],
             UNCHANGED <<gsVars, flow>>
      PROVE  RouteInv'
  <2>1. UNCHANGED <<dist, flow, crashed>>
    BY <1>7 DEF gsVars, Decide
  <2>2. Linked(here, there) /\ Linked(hop, here)
    BY <1>1, <1>2, <1>7, DecideReaches, LinkedToItself DEF there
  <2>3. Linked(flow.from[1], flow.to[1])
    BY <1>4, <1>5, <2>2
  <2>4. ASSUME NEW q \in Packets PROVE pkt'[q] = pkt[q] \/ ReachInv(q)'
    <3>1. CASE q \in rest \cup {p}
      <4>1. pkt'[q].status = "wire" /\ pkt'[q].back = back /\ pkt'[q].trail = <<here, hop>>
        BY <1>7, <3>1
      <4>2. HeaderOf(pkt[q].back, TRUE)' = h
        BY <2>1, <4>1 DEF HeaderOf, h
      <4>3. Len(<<here, hop>>) = 2 /\ <<here, hop>>[2] = hop
        OBVIOUS
      <4>4. Source(q)' = here /\ Destination(q)' = there /\ At(q)' = hop
        BY <4>1, <4>2, <4>3 DEF Source, Destination, At, here, there
      <4> QED BY <2>1, <2>2, <2>3, <4>1, <4>4 DEF ReachInv, Linked
    <3>2. CASE q \notin rest \cup {p}
      BY <1>7, <3>2
    <3> QED BY <3>1, <3>2
  <2> QED BY <1>1, <2>1, <2>4, MoveStep
<1> QED BY <1>6, <1>7 DEF RouteOutput, here, h

LEMMA ForwardReach ==
  ASSUME FwInv, RouteInv, NEW p \in Packets, Running, pkt[p].status = "wire", Forward(p)
  PROVE  RouteInv'
<1> DEFINE h == TupleOf(p)
           t == pkt[p].trail
<1>1. /\ phase = "done" /\ crashed = "no" /\ GsInv /\ PacketShape /\ opened' = opened
      /\ t \in Seq(Node) /\ Len(t) \in Nat /\ Len(t) >= 1
  BY DEF Running, FwInv, PacketShape, Forward
<1>2. /\ Linked(flow.from[1], flow.to[1]) /\ Linked(Source(p), Destination(p))
      /\ Linked(At(p), Source(p))
  BY DEF RouteInv, ReachInv
<1>3. /\ At(p) \in Node /\ Source(p) \in Node /\ Destination(p) \in Node
      /\ Linked(At(p), Destination(p))
  BY <1>2, LastIsNearer
<1>4. Destination(p) = h.to[1]
  BY TupleEnds
<1>5. At(p) # h.to[1]
  BY DEF Forward, IsDestinationAddress
<1> HIDE DEF h
<1>6. ~DecideThrows(At(p), h)
  BY <1>1, <1>3, <1>4, <1>5, ThrowsWithoutPath
<1>7. PICK hop \in Node : /\ Decide(At(p), h, hop)
                          /\ pkt' = [pkt EXCEPT ![p].trail = Append(@, hop)]
                          /\ UNCHANGED <<gsVars, flow>>
  BY <1>6 DEF Forward, h
<1>8. /\ pkt'[p].status = "wire" /\ pkt'[p].back = pkt[p].back /\ pkt'[p].trail = Append(t, hop)
      /\ \A q \in Packets : q # p => pkt'[q] = pkt[q]
  BY <1>1, <1>7 DEF PacketShape
<1>9. UNCHANGED <<dist, flow, crashed>>
  BY <1>7 DEF gsVars, Decide
<1>10. Linked(hop, Source(p))
  BY <1>1, <1>2, <1>3, <1>4, <1>7, DecideReaches
<1>11. Source(p)' = Source(p) /\ Destination(p)' = Destination(p) /\ At(p)' = hop
  <2>1. HeaderOf(pkt[p].back, TRUE)' = HeaderOf(pkt[p].back, TRUE)
    BY <1>8, <1>9 DEF HeaderOf
  <2>2. Append(t, hop)[Len(Append(t, hop))] = hop
    BY <1>1
  <2> QED BY <1>8, <2>1, <2>2 DEF Source, Destination, At
<1>12. ReachInv(p)'
  BY <1>2, <1>8, <1>9, <1>10, <1>11 DEF ReachInv, Linked
<1> QED BY <1>1, <1>8, <1>9, <1>12, MoveStep

LEMMA SettleReach ==
  ASSUME FwInv, RouteInv, NEW p \in Packets, Running, pkt[p].status = "wire",
         LocalDeliver(p) \/ Drop(p)
  PROVE  RouteInv'
<1>1. UNCHANGED <<dist, flow, crashed, opened>> /\ crashed = "no"
  BY DEF LocalDeliver, Drop, gsVars, Running
<1>2. /\ pkt'[p].back = pkt[p].back /\ pkt'[p].trail = pkt[p].trail
      /\ \A q \in Packets : q # p => pkt'[q] = pkt[q]
      /\ pkt'[p].status = "delivered" => At(p) = Destination(p)
  BY TupleEnds DEF LocalDeliver, Drop, FwInv, PacketShape, IsDestinationAddress
<1>3. /\ Source(p)' = Source(p) /\ Destination(p)' = Destination(p) /\ At(p)' = At(p)
  BY <1>1, <1>2 DEF Source, Destination, At, HeaderOf
<1>4. ReachInv(p)'
  BY <1>1, <1>2, <1>3 DEF RouteInv, ReachInv, Linked, Destination
<1> QED BY <1>1, <1>2, <1>4, MoveStep

\* Opening the flow: it throws only where there is no path.
LEMMA OpenReach ==
  ASSUME FwInv, RouteInv, NEW a \in Node, NEW b \in Node, ConnectTcp(a, b) \/ BindUdp(a, b)
  PROVE  RouteInv'
<1>1. /\ phase = "done" /\ flow = NoFlow /\ crashed = "no" /\ a # b /\ GsInv
      /\ pkt' = pkt /\ UNCHANGED gsVars /\ opened' = <<a, b>> /\ <<a, b>> \in NodePairs
  BY DEF ConnectTcp, BindUdp, Running, FwInv, DecideThrows, NodePairs
<1>2. \A p \in Packets : pkt[p].status = "idle"
  BY <1>1 DEF FwInv, Sequenced
<1>3. flow' # NoFlow => /\ flow'.from[1] = a /\ flow'.to[1] = b
                        /\ crashed' = "no"
  BY <1>1, FirstAddressNode DEF ConnectTcp, BindUdp, Decide, DecideThrows
<1>4. crashed' # "no" => /\ crashed' = "no_candidates"
                         /\ HopDistance(opened[1], opened[2])' = Infinity
  <2>1. CASE DecideThrows(a, SourceRequest(b))
    <3>1. SourceRequest(b).to[1] = b
      BY FirstAddressNode DEF SourceRequest
    <3>2. crashed' = "no_candidates" /\ ~Linked(a, b)
      BY <1>1, <2>1, <3>1, ThrowsWithoutPath
    <3>3. HopDistance(a, b) = Infinity
      BY <1>1, <3>2, NoWalk
    <3>4. HopDistance(opened[1], opened[2])' = HopDistance(a, b)
      BY <1>1 DEF HopDistance, Walks, Adjacent, gsVars
    <3> QED BY <3>2, <3>3, <3>4
  <2> QED BY <1>1, <2>1 DEF ConnectTcp, BindUdp, Decide
<1>5. opened' # Unset
  BY <1>1, UnsetAssumption
<1> QED BY <1>1, <1>2, <1>3, <1>4, <1>5
        DEF RouteInv, TwoEnds, OpenedInv, ReachInv, CrashOnlyWithoutPath

\* A missing route ends the simulation only when a flow is opened or sends its
\* first packet, between two nodes without a path; never on the way, and never
\* for an answer.
THEOREM RoutesExist == FwSpec => []CrashOnlyWithoutPath
<1>1. FwInit => RouteInv
  BY DEF FwInit, RouteInv, TwoEnds, OpenedInv, ReachInv, CrashOnlyWithoutPath
<1>2. ASSUME FwInv, RouteInv, [FwNext]_vars PROVE RouteInv'
  <2>1. CASE UNCHANGED vars
    <3>1. UNCHANGED <<dist, flow, crashed, opened, pkt, edges>>
      BY <2>1 DEF vars, gsVars, fwVars
    <3>2. ASSUME NEW p \in Packets PROVE ReachInv(p)'
      BY <1>2, <3>1, SameReach
    <3>3. CrashOnlyWithoutPath'
      <4>1. HopDistance(opened[1], opened[2])' = HopDistance(opened[1], opened[2])
        BY <3>1 DEF HopDistance, Walks, Adjacent
      <4>2. CrashOnlyWithoutPath
        BY <1>2 DEF RouteInv
      <4> QED BY <3>1, <4>1, <4>2 DEF CrashOnlyWithoutPath
    <3> QED BY <1>2, <3>1, <3>2, <3>3 DEF RouteInv, TwoEnds, OpenedInv
  <2>2. CASE Calculate
    <3>1. flow = NoFlow /\ UNCHANGED <<flow, pkt, crashed, opened, edges>>
      BY <1>2, <2>2
         DEF FwInv, Sequenced, Calculate, fwVars, GsNext, InitializeDistances, CoreStep, Relax,
             VisitEdge, ListsDone
    <3>2. \A p \in Packets : pkt[p].status = "idle"
      BY <1>2, <3>1 DEF FwInv, Sequenced
    <3>3. CrashOnlyWithoutPath'
      <4>1. HopDistance(opened[1], opened[2])' = HopDistance(opened[1], opened[2])
        BY <3>1 DEF HopDistance, Walks, Adjacent
      <4>2. CrashOnlyWithoutPath
        BY <1>2 DEF RouteInv
      <4> QED BY <3>1, <4>1, <4>2 DEF CrashOnlyWithoutPath
    <3> QED BY <1>2, <3>1, <3>2, <3>3 DEF RouteInv, TwoEnds, OpenedInv, ReachInv
  <2>3. ASSUME NEW a \in Node, NEW b \in Node, ConnectTcp(a, b) \/ BindUdp(a, b) PROVE RouteInv'
    BY <1>2, <2>3, OpenReach
  <2>4. ASSUME NEW p \in Packets, NEW rest \in SUBSET Packets, NEW back \in BOOLEAN,
               RouteOutput(p, rest, back)
        PROVE  RouteInv'
    BY <1>2, <2>4, RouteOutputReach
  <2>5. ASSUME NEW p \in Packets, RouteInput(p) \/ Drop(p) PROVE RouteInv'
    BY <1>2, <2>5, ForwardReach, SettleReach DEF RouteInput, Drop
  <2> QED BY <1>2, <2>1, <2>2, <2>3, <2>4, <2>5 DEF FwNext
<1>3. RouteInv => CrashOnlyWithoutPath
  BY DEF RouteInv
<1> QED BY <1>1, <1>2, <1>3, FwInvariant, PTL DEF FwSpec
=============================================================================
