-------------------------- MODULE EcmpGlobalState --------------------------
(***************************************************************************)
(* ArbiterEcmpHelper::CalculateGlobalState: from the undirected edges of a *)
(* topology, the hop distance between every two nodes (Floyd-Warshall, in  *)
(* place) and from it, for every node and every destination, the candidate *)
(* next hops.  InstallArbiters runs it once, before the simulation.        *)
(*                                                                         *)
(* The matrix is indexed by pairs of nodes and a candidate list is a set:  *)
(* the order of a list only decides which hash value means which hop.      *)
(***************************************************************************)
EXTENDS Integers

CONSTANTS
  n,            \* GetNumNodes()
  Topologies    \* the sets of undirected edges <<a, b>>, a < b, considered

Node == 0 .. n - 1
NodePairs == Node \X Node
Edge == {e \in NodePairs : e[1] < e[2]}

ASSUME NodesAssumption == n \in Nat \ {0}
ASSUME TopologiesAssumption == Topologies \subseteq SUBSET Edge

VARIABLES
  edges,        \* GetUndirectedEdges(), never changed
  phase,        \* "init", "core", "lists" or "done"; "refused" when it threw
  dist,         \* dist[n * i + j]
  k, i, j,      \* loop variables of the core
  todo,         \* edges the list loop has still to visit
  candidates,   \* candidates[<<current, destination>>]: next hops
  distBefore    \* history: dist when the outer loop reached k

gsVars == <<edges, phase, dist, k, i, j, todo, candidates, distBefore>>

MaxNodes == 40000
Infinity == 100000000

Adjacent(a, b) == <<a, b>> \in edges \/ <<b, a>> \in edges

----------------------------------------------------------------------------
GsInit ==
  /\ edges \in Topologies
  /\ phase = "init"
  /\ dist = [p \in NodePairs |-> Infinity]
  /\ k = 0 /\ i = 0 /\ j = 0
  /\ todo = {}
  /\ candidates = [p \in NodePairs |-> {}]
  /\ distBefore = dist

\* 0 to itself, 1 along an edge, "infinite" to all others.
InitialDistance(p) ==
  CASE Adjacent(p[1], p[2]) -> 1
    [] p[1] = p[2] -> 0
    [] OTHER -> Infinity

InitializeDistances ==
  /\ phase = "init"
  /\ phase' = IF n > MaxNodes THEN "refused" ELSE "core"
  /\ dist' = IF n > MaxNodes THEN dist
             ELSE [p \in NodePairs |-> InitialDistance(p)]
  /\ distBefore' = dist'
  /\ UNCHANGED <<edges, k, i, j, todo, candidates>>

\* Fault: the loops are nested the other way round, k innermost.
RelaxWrongOrder ==
  /\ phase = "core"
  /\ dist' = [dist EXCEPT ![<<k, i>>] =
                IF @ > dist[<<k, j>>] + dist[<<j, i>>]
                THEN dist[<<k, j>>] + dist[<<j, i>>] ELSE @]

\* Fault: the sum replaces the entry without the comparison.
RelaxUnconditional ==
  /\ phase = "core"
  /\ dist' = [dist EXCEPT ![<<i, j>>] = dist[<<i, k>>] + dist[<<k, j>>]]

\* The body of the three loops.
Relax ==
  /\ phase = "core"
  /\ dist' = [dist EXCEPT ![<<i, j>>] =
                IF @ > dist[<<i, k>>] + dist[<<k, j>>]
                THEN dist[<<i, k>>] + dist[<<k, j>>] ELSE @]

NextJ ==
  /\ j < n - 1
  /\ j' = j + 1
  /\ UNCHANGED <<phase, k, i, todo, distBefore>>

NextI ==
  /\ j = n - 1
  /\ i < n - 1
  /\ j' = 0
  /\ i' = i + 1
  /\ UNCHANGED <<phase, k, todo, distBefore>>

NextK ==
  /\ j = n - 1
  /\ i = n - 1
  /\ k < n - 1
  /\ j' = 0
  /\ i' = 0
  /\ k' = k + 1
  /\ distBefore' = dist'
  /\ UNCHANGED <<phase, todo>>

CoreDone ==
  /\ j = n - 1
  /\ i = n - 1
  /\ k = n - 1
  /\ phase' = "lists"
  /\ todo' = edges
  /\ UNCHANGED <<k, i, j, distBefore>>

CoreStep ==
  /\ Relax
  /\ NextJ \/ NextI \/ NextK \/ CoreDone
  /\ UNCHANGED <<edges, candidates>>

\* Fault: a neighbour that is no farther than this node is good enough.
NotFarther(a, b, t) == dist[<<a, t>>] >= dist[<<b, t>>]

\* Is b a next hop at a towards t?
OnShortestPath(a, b, t) == dist[<<a, t>>] - 1 = dist[<<b, t>>]

\* Fault: only the end of the edge with the smaller identifier gets candidates.
VisitEdgeOneWay(e) ==
  /\ phase = "lists"
  /\ todo' = todo \ {e}
  /\ candidates' = [p \in NodePairs |->
       candidates[p] \cup (IF p[1] = e[1] /\ OnShortestPath(e[1], e[2], p[2])
                           THEN {e[2]} ELSE {})]
  /\ UNCHANGED <<edges, phase, dist, k, i, j, distBefore>>

\* One edge of the list loop, for all destinations, at both of its ends.
VisitEdge(e) ==
  /\ phase = "lists"
  /\ todo' = todo \ {e}
  /\ candidates' = [p \in NodePairs |->
       candidates[p]
         \cup (IF p[1] = e[1] /\ OnShortestPath(e[1], e[2], p[2])
               THEN {e[2]} ELSE {})
         \cup (IF p[1] = e[2] /\ OnShortestPath(e[2], e[1], p[2])
               THEN {e[1]} ELSE {})]
  /\ UNCHANGED <<edges, phase, dist, k, i, j, distBefore>>

ListsDone ==
  /\ phase = "lists"
  /\ todo = {}
  /\ phase' = "done"
  /\ UNCHANGED <<edges, dist, k, i, j, todo, candidates, distBefore>>

GsNext ==
  \/ InitializeDistances
  \/ CoreStep
  \/ \E e \in todo : VisitEdge(e)
  \/ ListsDone

GsSpec == GsInit /\ [][GsNext]_gsVars

----------------------------------------------------------------------------
(* Properties *)

\* Type invariant.  Two entries are added before they are compared, so the
\* bound on an entry also says that the 32-bit sum does not overflow.
GsTypeOK ==
  /\ edges \in SUBSET Edge
  /\ phase \in {"init", "core", "lists", "done", "refused"}
  /\ dist \in [NodePairs -> 0 .. Infinity]
  /\ k \in Node /\ i \in Node /\ j \in Node
  /\ todo \in SUBSET edges
  /\ candidates \in [NodePairs -> SUBSET Node]
  /\ distBefore \in [NodePairs -> 0 .. Infinity]

\* The walks of m hops from a to b.
Walks(m, a, b) ==
  {w \in [0 .. m -> Node] :
     w[0] = a /\ w[m] = b /\ \A h \in 1 .. m : Adjacent(w[h - 1], w[h])}

\* The reference: the length of a shortest walk, Infinity when there is none.
\* A shortest walk meets no node twice, so it has at most n - 1 hops.
HopDistance(a, b) ==
  LET hops == {m \in 0 .. n - 1 : Walks(m, a, b) # {}}
  IN  IF hops = {} THEN Infinity
      ELSE CHOOSE m \in hops : \A l \in hops : m <= l

\* The in-place core computes the hop distances: once the lists are built
\* from the matrix, no entry is too large, too small, or finite without a path.
DistancesAreShortest ==
  phase \in {"lists", "done"} =>
    \A a, b \in Node : dist[<<a, b>>] = HopDistance(a, b)

\* A packet is never sent to a node that is not adjacent, nor to one that is
\* not one hop nearer to the destination: forwarding cannot loop.
CandidatesAreNearer ==
  phase = "done" =>
    \A a, b, t \in Node : b \in candidates[<<a, t>>] =>
      Adjacent(a, b) /\ dist[<<b, t>>] + 1 = dist[<<a, t>>]

\* There is a candidate wherever there is a path, so a packet that was sent
\* off never meets a node that has no next hop for it; and all neighbours on
\* shortest paths are candidates, so the load spreads over all of them.
CandidatesAreComplete ==
  phase = "done" =>
    \A a, t \in Node :
      /\ a # t /\ dist[<<a, t>>] < Infinity => candidates[<<a, t>>] # {}
      /\ \A b \in Node :
           Adjacent(a, b) /\ dist[<<b, t>>] < dist[<<a, t>>] =>
             b \in candidates[<<a, t>>]
      /\ a = t \/ dist[<<a, t>>] = Infinity => candidates[<<a, t>>] = {}
=============================================================================
