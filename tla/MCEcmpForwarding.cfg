\* All 64 undirected graphs on four nodes, with unreachable nodes among them;
\* lists are built in every order of the edges.  Then one flow, over TCP or UDP,
\* between every two nodes; two packets, each of them forth or back, or one TCP
\* segment in two fragments.
CONSTANTS
  n = 4
  Topologies <- AllTopologies
  Packets = {p1, p2}
  MaxHops = 4
  Unset = unset
SPECIFICATION FairSpec
INVARIANTS GsTypeOK DistancesAreShortest CandidatesAreNearer CandidatesAreComplete EveryHopIsNearer FlowKeepsToOnePath CrashOnlyWithoutPath
PROPERTIES SentIsSettled
CHECK_DEADLOCK FALSE
