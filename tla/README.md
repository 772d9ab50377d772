# basic-sim in TLA+

basic-sim is a framework on top of the ns-3 network simulator. It reads a run
folder (configuration, topology, schedules), builds the nodes and links, installs
a routing that spreads flows over shortest paths (ECMP), starts TCP flows, UDP
bursts and UDP pings at the times of their schedules, tracks queues and link
utilization, and writes result files. The simulator (its event queue, sockets,
devices) is a dependency: the modules here model it only as far as basic-sim can
observe it.

This directory models that code, checks the models with TLC on small instances
and proves the most important results with TLAPS for all values of the constants.

## 1. The system

| Component | Code | State | Operations | Used by / uses |
|---|---|---|---|---|
| Interval logs | `model/core/log-update-helper.h` | two open intervals (alpha, beta), latest value, vector and file | `Update`, `Finalize` | traced values of a TCP flow; queue trackers |
| Utilization tracking | `model/core/net-device-utilization-tracker.cc`, `helper/core/ptop-link-net-device-utilization-tracking.cc` | idle and busy counters, current interval, list of intervals | begin/end callbacks of a device, `FinalizeUtilization`, `WriteResults` | called by the devices |
| ECMP state | `helper/core/arbiter-ecmp-helper.cc` | distance matrix, candidate lists | `CalculateGlobalState` | reads the topology; gives each node's arbiter its lists |
| Arbiters, routing | `model/core/arbiter*.cc`, `ipv4-arbiter-routing.cc` | address and interface maps | `RouteOutput`, `RouteInput`, `Decide` | called by IP for every packet |
| TCP flows | `model/apps/tcp-flow-{client,server}.cc` | bytes handed to the socket, outcome, bytes read | socket callbacks, `SendData`, `FinalizeDetailedLogs` | started by the scheduler |
| TCP flow scheduler | `helper/apps/tcp-flow-scheduler.cc` | the part of the schedule that is its own, started clients | constructor, `StartNextFlow`, `WriteResults` | starts TCP clients; may run distributed over processes |
| TCP configuration | `helper/apps/tcp-config-helper.cc` | initial values of attributes, in the process and not in a simulation | `Configure` | every socket made later; reset when a simulation is finalized |
| UDP bursts | `model/apps/udp-burst-*.cc`, `helper/apps/udp-burst-*.cc` | counters at both ends, responsibilities of a process | `StartNextUdpBurst`, `Send`, `HandleRead`, `WriteResults` | may run distributed over processes |
| UDP pings | `model/apps/udp-ping-*.cc`, `helper/apps/udp-ping-*.cc` | three timestamps per request, socket | `StartNextUdpPing`, `Send`, `HandleRead`, `Finish`, `WriteResults` | |
| Queue tracking | `model/core/*queue-tracker.cc`, `helper/core/ptop-link-*queue-tracking.cc` | trackers by link, with two interval logs each | constructor, traces of the queue, `WriteResults` | interval logs; links of the topology |
| Run life cycle | `model/core/basic-simulation.cc`, `main/` | configuration and the keys asked for, files in the run folder, assignment of nodes to systems | constructor, `Run`, `Finalize` | everything; may die and be run again in the same folder |
| Topology | `model/core/topology-ptop.cc`, `topology-ptop-*-default.cc` | graph, maps of link properties, devices, interfaces | reading and checking, `SetupNodes`, `SetupLinks`, the look-ups | routing, tracking, schedulers |
| Utilities | `model/core/exp-util.cc` | none | parsing of numbers, sets, lists, maps, configuration files | everything |

There is one thread per process. What is concurrent is what the simulator
interleaves: events due at the same simulated instant, callbacks of sockets and
devices, packets that are lost, late or reordered; and, in a distributed run,
processes whose clocks differ. Hard behaviour therefore means: values that change
several times in an instant, callbacks on boundaries of intervals, acknowledgements
and closes in unusual orders, replies to somebody who is gone, nodes that decide
for themselves but must agree, and a run that may stop in the middle of anything.
`PROJECT.json` lists these hazards with the line where each of them bites.

What makes each part correct:

* an interval log says exactly which value held when, as shortly as possible;
* the utilization of an interval is the true busy time in it;
* packets go along shortest paths and in no circle, those of a flow whose ports can be
  read keep to one path, and a run dies of a missing route only when a flow is opened
  between nodes that nothing connects;
* a flow's report never claims more than was received, and is final, and a flow whose
  first packet fits into the send buffer finishes;
* a burst keeps its rate, each burst is reported once by one process, and a run dies only of
  what its schedule asks for;
* a ping's timestamps belong to its own reply;
* a topology that is accepted has what it announces, each end of each link gets what the
  file says of it, and a process is refused or dies later exactly for reasons that are in the
  files (an endpoint without a link is one: it is accepted with the topology);
* each flow of a schedule is started, served and reported once, by whatever systems;
* the files of the queues say exactly what each queue held when;
* a simulation has the TCP settings of its own configuration;
* "Yes" in `finished.txt` vouches for complete results of one run, and the result files
  of the components that a run enabled are absent or its own. (This is not so of packet logs,
  see the findings in section 3, and the detailed logs of a TCP flow are emptied only when
  that flow starts.)

## 2. Modules

| Module | Models | State and actions |
|---|---|---|
| `SignalLog` | abstract: what an interval log promises | a step signal; closing publishes its run-length form |
| `LogUpdateHelper` | `LogUpdateHelper<V>` | the fields of the class (`alphaLeft` is `m_interval_alpha_left_time`, ...); `Update` and `Finalize`, one disjunct per branch |
| `UtilizationTracker` | the tracker and its writer | fields by name; `TrackUtilization` is a call under way (`call`) whose loop iterations are steps; `WriteResults` is one step per interval |
| `EcmpGlobalState` | `CalculateGlobalState` | the matrix, the loop variables and the lists; one step per innermost iteration or visited edge |
| `EcmpForwarding` | `Ipv4ArbiterRouting`, `Arbiter`, `ArbiterPtop`, `ArbiterEcmp` | extends `EcmpGlobalState`; packets carry the trail of nodes they visited, and the packet that has their transport header (`of`); `hashed` makes the hash arbitrary but repeatable |
| `FlowReport` | abstract: what a line of `tcp_flows.csv` promises over time | amount and outcome |
| `TcpFlow` | `TcpFlowClient`, `TcpFlowServer`, `TcpFlowScheduler::WriteResults` | fields by name; one action per callback; socket and network as environment |
| `UdpBurst` | scheduler, client, server of bursts in several processes | per process a clock and an event queue; responsibilities, counters, logs and result rows |
| `ExpUtil` | the parsers of `exp-util.cc` | operators; a text is its form and the parts it is split into |
| `LinkSelectors` | the default selectors of queues, error models and disciplines | operators |
| `Distribution` | `ConfigureSimulation` for distributed runs, `IsNodeAssignedToThisSystem` | operators; `Error` for an exception |
| `TopologyPtop` | `TopologyPtop` | what its constructor does next (`tpc`), graph, maps, devices; one action per part of the constructor, one step per edge in `SetupLinks` |
| `Simulators` | `Simulator::Run` and `main` in each process | a clock and a stage per system |
| `TcpFlowScheduler` | `TcpFlowScheduler` | per system: own schedule, servers, events, started clients, rows |
| `QueueTracking` | both queue trackers and both trackings | queues of some links, their history, trackers per link and system, files |
| `DistributedRun` | `main-full.cc` over the four modules before | the topology is built, then each system takes its steps |
| `TcpConfig` | `TcpConfigHelper`, and the reset in `Finalize` | attributes of the process; one step per attribute that is set |
| `UdpPing` | scheduler, client, server of pings | one event queue, ports that pass from client to client, timestamps, rows |
| `RunLifecycle` | `BasicSimulation` and `main-full.cc`, with the constructors and `WriteResults` of the components as far as they concern configuration and files | the run folder (`finished`, `timing`, `results`, packet logs) persists, the process (`pc`, `m_config`, `m_configRequestedKeys`, `m_enabled`) does not; one action between any two points at which it matters that a run dies; `Crash` anywhere |
| `Ordered` | what `std::sort` and `std::set` are used for | operators: a finite set in the order of a relation (`UdpBurst`, `TcpFlowScheduler`, `QueueTracking`) |
| `MC*` | values of constants for TLC | |
| `*Proofs` | theorems and proofs: one module per component, `EcmpProofs` of both ECMP modules, `TcpProofs` of `TcpFlow` and `TcpConfig`, `RunProofs` of `DistributedRun`, its parts and `RunLifecycle`, `OrderedProofs` of what several need | |

`EcmpForwarding` composes the calculation of the routing state with its use, and
`DistributedRun` the topology with the components that ask it about links, nodes and
systems.
`LogUpdateHelper` implements `SignalLog` (instantiated twice, for the vector and
for the file as it is read back), and `TcpFlow` implements `FlowReport`; both are
checked as refinements. Definitions named in a comment that starts with `Fault:`
are not part of a specification: each is a plausible mistake in the operator after
it, and shows that some property would notice.

### What was abstracted

* Values, payloads, addresses and identifiers are model values or small numbers. A
  node's interface stands for its address, as addresses are unique.
* Candidate lists are sets: their order only says which hash means which hop.
* Floating-point rates are exact quotients. `PacketGap` is the exact ceiling of the
  quotient that `udp-burst-client.cc:211` computes in double precision.
* A call of `TrackUtilization` in a loop iteration cannot be interrupted; modelling
  each iteration as a step serves the assertion inside the loop.
* The sockets of ns-3 make at most one of the callbacks that end a client's
  connection; a server socket may report a close and an error. After the outcome the
  traced state of the client's socket may still change, and the model has that; what is
  traced of its buffer does not, since a socket that is no longer connected takes no more
  acknowledgements (the comment at `tcp-flow-client.cc:481` presumes the same). That a
  socket closes normally only with an empty send buffer is ns-3's promise as well: the
  client aborts otherwise (`tcp-flow-client.cc:311`), and the model has no such close.
* A Send takes its packet as a whole or refuses it: `TcpSocketBase` compares the
  packet with the room in its buffer.
* In a run folder, a file is known by the run that wrote it and whether it is complete,
  a packet log by the runs with lines in it; all files of a component are opened
  together. Keys of a component are the one that enables it, one it cannot do
  without, and one that selects what to log.
* In `TopologyPtop` and `TcpConfig`, what an exception says is left out: nobody catches it.
  An attribute of an ns-3 object is the value given to it. `GetAddress(1, 0)` of a node
  without a link dereferences a null pointer; in the builds of the repository the
  process dies there, as it does after an abort.
* `QueueTracking` takes a log for the step function of the reports and its rows for the
  run-length form, which is what `LogUpdateHelper` is shown to make of them.
* Times are in milliseconds in `TcpConfig`, where they are set and not added.
* The transport headers of all packets of one flow direction have the same ports, but
  not every packet has one: a TCP segment that does not fit into the MTU is sent in
  fragments, all of them on the hop that its sender picked, and only the first has ports
  for the other nodes to hash (`arbiter-ecmp.cc:90-109`). The payload of UDP is bounded by
  the code, and a TCP server only sends acknowledgements.
* The ports of a node that bursts may use are `Ports`; ns-3 has those from 49152 to 65535,
  less the ones of pings. Every endpoint in `UdpBurst` has a link; the scheduler's constructor
  dies of one that has none, as the one of flows does in `DistributedRun`.

## 3. Runs

No definition is overridden; `PROJECT.json` names for every property of a run that
passes a change to a modelled definition that makes TLC report it.

| Run | Instance | Why it is enough | Checked |
|---|---|---|---|
| `log_update` | 3 values, 6 instants, vector and file | alpha, beta, merge, shift, overwriting in an instant and a last interval without extent need 4 instants at most | `MemoryLogIsExact`, `FileLogIsExact` (refinement of `SignalLog`), `PartialLogIsExact` |
| `utilization` | intervals of 3, run of up to 10 instants | callbacks on and off a boundary, up to three intervals completed by one call, a last interval of any length, both results of the comparison in the compression, an end at time 0 | `IntervalsAreExact`, `IntervalsCoverRun`, `CompressionIsFaithful` |
| `ecmp_forwarding` | all 64 graphs on 4 nodes, edges visited in any order; then one TCP or UDP flow between any two nodes, two packets | paths of length 3, several shortest paths, disconnected and isolated nodes; two packets suffice to compare two paths, a path and an answer, or a fragment and the one with the header. (Two fragments without header, or the answer to a segment in fragments, take three; of these the theorems speak.) | `DistancesAreShortest` (against the lengths of all walks), `CandidatesAreNearer`, `CandidatesAreComplete`, `EveryHopIsNearer`, `FlowKeepsToOnePath`, `CrashOnlyWithoutPath`, `SentIsSettled` |
| `tcp_flow` | 5 bytes in steps of 2, send buffers of 1, 2 and 3, 3 instants | Sends that fit or are refused, a shorter last step, a buffer smaller than a step, as large, and larger by a part of one | `ReportedIsReceived`, `ClosedWhenAllIsSent`, `ProgressLogMatchesLine`, `ReportIsFinal` (refinement of `FlowReport`), `FlowFinishes` |
| `udp_burst` | 3 endpoints with 2 ports each and a number that is no node, all in one system or split over two, 2 or 3 bursts, 4 time units, rates that do and do not divide the packet time | simultaneous starts, bursts in both directions over the border, one to three packets; bursts from and to the number that is no node, a third burst from a node with two ports | `OnlyScheduleAborts`, `EveryBurstIsReportedOnce`, `TargetRateIsKept`, `RowsAgreeWithLogs`, `AllResultsAreWritten` |
| `udp_ping` | 2 pings of one node with up to 2 requests, 2 ports, 5 time units | a port passed on while replies are under way | `NeverAborts`, `RepliesAreOwn`, `RequestsKeepInterval`, `SocketClosesOnTime`, `RowsAreComplete` |
| `run_lifecycle` | 3 components in the two orders of `main`, all 128 configurations, 2 runs, each may die at any point | one run to leave files and one to find them; components with and without a key they need, one with a packet log | `YesMeansComplete`, `ResultsAreOwn`, `ConfigurationTakesEffect` |
| `distributed_run` | 4 nodes in one process or two; a file that is good, each variation of one of its lines, schedules of up to 4 flows, trackings of some or all links, 2 packets of traffic | every check of the file is met by a file it refuses and by one it lets pass; an endpoint without a link, in one process and in two; flows that start together, later, at nodes of either system; links in one system and over the border; servers on every port a client may be given | `AcceptedIsUsable`, `LinksAreAsConfigured`, `InterfacesAgreeWithRouting`, `EveryFlowRunsOnce`, `QueueRowsAreExact` |
| `tcp_config` | 13 configurations, 3 simulations in a process, up to 2 calls of `Configure` each | each key has a value of its own, so that no two can be confused; keys missing or wrong; a second call that passes and one that aborts | `SettingsAreOwn` |
| `finished_of_earlier_run` | as `run_lifecycle` | | violates `YesIsAboutLatestRun` |
| `outgoing_log_of_earlier_run` | as `run_lifecycle` | | violates `OutgoingLogIsOwn` |
| `documented_tcp_keys` | as `tcp_config`, one simulation | | violates `DocumentedKeysAreEnough` |

The last three state what the repository says of the program and the code does not do:

* The documentation presents `finished.txt` as "No" at the start and "Yes" after the run,
  to verify that the run finished. But the constructor of `BasicSimulation` reads and
  checks the configuration first; a run that throws there leaves the "Yes" of the run
  before. `YesMeansComplete` says what remains true: that "Yes" is about the results
  that are there. (A component that is not enabled in the run leaves its old files
  alone, so a reader has to look only at files of enabled ones.)
* The scheduler of bursts reports that it removed previous log files, and the server
  empties the log of each burst it registers; nobody empties `udp_burst_[id]_outgoing.csv`,
  to which the client appends. After two runs it holds the packets of both.
* The documentation of the TCP configuration lists the keys that "custom" must define, the
  first of them as `tcp_clock_granularity`. The code asks for `tcp_clock_granularity_ns`, as
  its tests do, and refuses a configuration that follows the documentation.

More things the model shows, of which the repository promises nothing:

* With `all_nodes_are_endpoints`, any number passes for an endpoint (`topology-ptop.cc:646`).
  A flow or a burst from or to a node that is not there is accepted with the schedule and ends
  the run when it is due (in `DistributedRun` as stage "aborted"), or, if the systems are
  asked for the one of that number, in a constructor.
* An endpoint without a link passes every check of the topology, and ends the run in the
  constructor of the scheduler, which asks for its address. `AcceptedIsUsable` says that
  this and what else can be read in the files is all that a process is refused for.
* A custom TCP configuration may set a send buffer smaller than the step of 100000 byte in
  which the client sends (`tcp-flow-client.cc:92-95`, `252`). Then no Send is ever accepted,
  unless all of the flow fits: the buffer stays empty, nothing tells the client of room, and the
  flow is reported as ongoing with nothing sent. `FlowFinishes` has this as its other case.
* Bursts never close their sockets, so a node that starts more of them than it has ephemeral
  ports ends the run with "Failed to bind socket" (`udp-burst-client.cc:156-158`).
* Of a TCP segment in fragments, the later ones may go another way than the first, and may
  overtake it: they have no ports to hash.
* A simulation of no extent (`simulation_end_time_ns=0` is accepted) with utilization
  tracking throws when it writes the results: there is no last interval
  (`ptop-link-net-device-utilization-tracking.cc:204`).

One more is of no consequence for any property here: of a receive error model that is
given for all links at once, each link has one object (`topology-ptop.cc:436`), which both
its ends share and draw from. The model has the rates only.

The runs `log_update`, `utilization` and `ecmp_forwarding` check type invariants as well; in
the other modules types are part of the inductive invariant that is proved. `CHECK_DEADLOCK
FALSE` in all runs: a simulation ends, and then nothing is left to do (in `run_lifecycle`,
`MaxRuns` is used up, in `tcp_config` `MaxSimulations`). `SYMMETRY` in `udp_ping` is over
ports, which no definition orders or names.

Bounds. `Horizon`, `EndTime` are the end of the simulation, a parameter of the code
itself; `MaxHops` is IP's time to live, which no trail reaches since paths are shorter.
`NotANeighbor` in `EcmpForwarding` models a check of the code against a candidate
that is no neighbour; it never fires, which `CrashOnlyWithoutPath` states. `MaxPackets`,
`MaxRuns`, `MaxSimulations` and `MaxCalls` bound what the environment does.

### Fairness

* `EcmpForwarding`: a packet on a link is routed (`WF RouteInput`): the simulator
  runs the arrival event. Nothing is assumed of the loss of packets or of who sends.
* `TcpFlow`: the socket works on: a connection attempt succeeds or fails, data in the
  buffer arrives and is acknowledged, a requested close is carried out. This is the
  retrying of ns-3's TCP; ending by error remains possible at any time.
  `FlowFinishes` then shows that the client never forgets to go on sending, provided its
  first packet fits into the send buffer (`StepFits`).
* `UdpBurst`: each process goes on (`WF SystemStep(s)`): `Simulator::Run` takes the
  events until the end and `main` then writes the results. Nothing is assumed about
  the network. That clocks wait for each other cannot block all of them, since the
  slowest one may always go on.

## 4. Proofs

| Theorem | States, for all values of the constants |
|---|---|
| `LogUpdateHelperProofs!TypeCorrect` | the type invariant |
| `LogUpdateHelperProofs!LogInvariant` | the inductive invariant |
| `LogUpdateHelperProofs!PartialLogCorrect` | `PartialLogIsExact` |
| `LogUpdateHelperProofs!MemoryLogCorrect` | the log in memory refines `SignalLog` (assumes `SaveInMemory`) |
| `LogUpdateHelperProofs!FileLogCorrect` | the log in the file, read back, refines `SignalLog` (assumes `SaveToFile`) |
| `UtilizationTrackerProofs!UtilInvariant`, `TypeCorrect`, `IntervalsCorrect`, `AssertionHolds`, `RunIsCovered`, `CompressionCorrect` | inductive invariant, types, `IntervalsAreExact`, the assertion in the loop (`IdleAndBusyMatchUp`), `IntervalsCoverRun`, `CompressionIsFaithful` |
| `OrderedProofs!InOrderSorts` | a finite set in the order of a strict total relation: every element once, none after one that follows it |
| `EcmpProofs!GsInvariant`, `GsTypeCorrect`, `ShortestDistances`, `CandidatesNearer`, `CandidatesComplete` | inductive invariant, types (hence no overflow), `DistancesAreShortest`, both properties of candidates, for any graph |
| `EcmpProofs!FwInvariant`, `LoopFreedom`, `OnePath`, `RoutesExist` | inductive invariant, `EveryHopIsNearer`, `FlowKeepsToOnePath`, `CrashOnlyWithoutPath` |
| `TcpProofs!FlowInvariant`, `ReportedReceived`, `ClosedOnce`, `ProgressMatches`, `ReportRefined` | inductive invariant, `ReportedIsReceived`, `ClosedWhenAllIsSent`, `ProgressLogMatchesLine`, and that a TCP flow implements `FlowReport`, for any flow, step and buffer size, also a buffer smaller than a step |
| `UdpBurstProofs!BurstInvariant`, `BurstTypes`, `OnlyTheScheduleAborts`, `BurstsReportedOnce`, `BurstsKeepTheirRate`, `BurstRowsAgree` | inductive invariant, types, and all four safety properties of bursts, for any schedule, packet size, rates, ports, processes and assignment of numbers to them |
| `UdpPingProofs!PingInvariant`, `TypeCorrect`, `OwnReplies`, `SocketTimes`, `IntervalsKept`, `RowsComplete`, `RunsThrough` | inductive invariant, types, and all five properties of pings, for any schedules and ports |
| `TcpProofs!ConfigInvariant`, `SettingsCorrect` | inductive invariant, `SettingsAreOwn`, for any configurations and number of simulations |
| `RunProofs!TopologyInvariant`, `LinksConfigured`, `InterfacesAgree` | inductive invariant, `LinksAreAsConfigured`, `InterfacesAgreeWithRouting`, for any topology file |
| `RunProofs!TopologiesAreUsable` | `AcceptedIsUsable`, for any files and any number of processes |
| `RunProofs!FlowsInvariant`, `FlowsRunOnce` | inductive invariant, `EveryFlowRunsOnce`, for any schedule and any number of processes |
| `RunProofs!QueuesInvariant`, `QueueRows` | inductive invariant, `QueueRowsAreExact`, for any traffic, trackings and number of processes |
| `RunProofs!FolderInvariant`, `TypeCorrect`, `YesIsTrue`, `OwnResults`, `ConfigurationIsUsed` | inductive invariant, types, `YesMeansComplete`, `ResultsAreOwn`, `ConfigurationTakesEffect`, for any components, orders and number of runs |

Assumptions are those named in the modules: lengths and horizons are natural numbers, at least
one node, edges `<<a, b>>` with `a < b`, a log is written somewhere, every component that is
constructed writes its results once, a schedule of bursts or pings passes the checks of its
reader, send buffers have natural sizes (`BufferAssumption`), nodes a natural number of ports
(`PortsAssumption`), an assignment has a system for every endpoint (`EndpointsAssumption`: its
length is checked against the number of nodes, `topology-ptop.cc:235-243`), and no interface
has the address of an empty header (`UnsetAssumption`). Of the inputs of `DistributedRun` it is
assumed that lists are finite sequences (`InputsAssumption`, `FlowsAssumption`), that parsed
numbers are integers and the empty text is none (`NumbersAssumption`), and that traffic passes
queues of either kind (`TrackingAssumption`); whether a file makes sense is for the code to
find out. Three theorems need more: `MemoryLogCorrect` that the log is saved in memory,
`FileLogCorrect` that it is saved to a file, and `RunsThrough` that there are finitely many
ports and at least one per ping (`EnoughPorts`): with fewer, `Bind` fails and the client
aborts. The arguments:

* *Interval log.* What is saved is the exact log up to the left end of alpha; alpha's
  value holds up to beta, the last value from the last update on. That two saved
  neighbours differ is not inductive by itself: it also needs that the value of the
  last saved interval differs from alpha's. A line of the file has no right end of its own:
  the lines are read as intervals that the next line ends and, as long as the file is
  open, alpha's left end the last one (`Reading`). Read so, an update does to the file what it
  does to the vector, and the lines that are written at the end close the last interval;
  `FormGrows` and `FormCompleted` are therefore proved once, for either output.
* *Utilization.* While a call is under way the counters lag behind the device by the
  time since `m_prev_time_ns`, and the state the call ends was the state throughout that
  time. The invariant says that idle plus busy is the time from the start of the interval
  to `m_prev_time_ns`, and that busy is the true busy time; a finished list is then exact.
* *Compressed utilization.* The writer is a loop that is to be right about all rows at once,
  the written lines and the one that is still open. The invariant says of each written
  line that its sum is the true busy time between its ends, that it begins where the one
  before it ends, and that no two adjoining intervals in it differ by the threshold or
  more; the open line is such a one up to the interval that comes next. That intervals are
  ordered by time over any distance of indices is no fact of a single step, and is
  invariant for itself (`IntervalsOrdered`).
* *Distances.* The in-place core is compared with the copy `distBefore` of the matrix
  at the beginning of a round: every entry is either the old one or the best way over
  `k`, because row and column `k` do not change in round `k`. Three facts are carried
  from round to round: entries are at least 1 off the diagonal and 1 along edges;
  an entry is finite only if a neighbour one nearer supports it; entries of neighbours
  differ by at most one. The last two are what the candidate lists need.
  For `ShortestDistances`, a finite entry is the length of some walk: otherwise there is
  a least entry without one, and its nearer neighbour has a walk, which the edge prolongs.
  And no walk is shorter: otherwise there is a shortest such walk, and the one without its
  last edge is shorter still, while the entries differ by at most one. Both are induction
  over data, done as a least counterexample among numbers (`OrderedProofs!LeastNumber`).
* *Forwarding.* Lists do not change after the calculation, hence each decision takes a packet
  one nearer, and along a trail distance and hops add up. For `OnePath`, the hash that was
  drawn for a node and a five-tuple is kept, every first step of a trail is the one drawn for
  the datagram, and every later one the one drawn for its node and for what the node can read
  of the packet; so two packets part only where the node can read the ports of one and not of
  the other. For `RoutesExist`, the pair of nodes that a flow is opened between is remembered,
  so that the property speaks also of a TCP socket whose request for a source address throws
  before there is a flow; both directions are followed at once: the node a packet is at can
  reach the destination and also the place the packet came from. The latter is not a matter of
  the candidate lists; it takes that a hop goes along an edge, that the distance back over an
  edge is 1, and that distances of neighbours differ by at most one.
* *TCP flow.* What the client handed over, what the socket buffers, what the server has
  received and what is acknowledged follow each other (`Conservation`). At most one
  callback decides the outcome, and whoever does also finalizes the logs and keeps a copy
  of the amount (`OneOutcome`, `Closing`). Before the outcome the report is made from the
  socket, afterwards from the copy; both are the same number at the moment of the change,
  which is the step of the refinement that is not a stutter.
  A log is updated at the present at the latest, and that of the progress never after the
  outcome, as only an open connection takes acknowledgements; hence no log is closed too early.
* *Sorting.* `InOrder` chooses a sequence; that there is one is shown for sets of
  every size by a least size for which there is none: take away an element that none follows.
  The rows of bursts, the schedule of a system and the rows of queues rest on it.
* *Bursts.* What is in the queue of a system is known exactly: the next link of the chain that
  starts its own bursts, and for each started burst at most one event, the next sending. A
  sending is due at the start of the burst plus its number times the gap, so the rate is kept
  if the gap is right. Packets under way are those of the log of their burst that have not
  arrived, so the server has not seen them, and knows their burst. Each failing step is shown
  to have one of three reasons in the schedule: the number that has no system, the node that is
  not there, and the ports of the node, of which every started burst keeps one. If there is
  none, at the end of a run no event is left, hence every burst was started; its two rows are
  those of the systems responsible for its two ends, and an endpoint has one system.
* *Topology.* For each part of the constructor the invariant says what it accepted: a
  well-formed graph, a value for each link in every map. What is refused afterwards is computed
  from the installed links; `TopologiesAreUsable` follows it back to the file: a node has an
  address if and only if it has a link, a queue is behind a link if and only if the link is in
  the file and, of disciplines, not disabled, and the one event of a scheduler is never at the
  wrong time. Links are installed in the order of the edges; a device is a function of its link
  and the number of edges before that edge, and the next edge comes after all before it, so the
  interfaces of a node are in the order of its neighbours.
* *Flows.* The own schedule of a system is the sorted sequence of the indices of its own flows,
  its applications are clients of the first entries of it, and its one event is the start of
  the next. That event is never in the past, and the start of every entry lies before the end,
  so none is left when the system is done. Each node has exactly one system, and so each
  flow is in exactly one file; its target is an endpoint, and the system of that one has put
  a server there.
* *Queues.* A queue changes only in the system of its node, and there all trackers are attached
  before the simulation starts; so a log is the history of its queue, for each instant of the
  run, and nothing changes it after the system is done. For the rows: those of a link are
  intervals from one change to the next. An instant lies in the one that begins with the
  greatest change not after it, and in no other; the value is constant up to the next change
  (the least one after it), and where two rows adjoin in the sorted file the value differs, as
  there is a change between them. The device that sends over a link is unique, so the queue
  that the tracker found is the one `DeviceOf` names.
* *Pings.* A client is in one of five phases: not due, starting, sending, waiting,
  finished; in each the events of it in the queue are known exactly, and there is at most
  one besides those that start the next clients, which form a chain through the
  schedule. A request is answered by at most one packet under way, and a packet that
  carries the number and identifier of a client is one of its own requests, whatever
  port it arrives at. From the phases follow the times of requests and of the closing of
  the socket; from the packets, whose reply a timestamp is.
* *TCP configuration.* As long as attributes are set one by one, each is ns-3's own value or
  already the one wanted: the former is what the helper demands before it sets one, the
  latter what a second call of `Configure` finds.
* *Run folder.* A process that has not come past the removal of `finished.txt` has
  touched nothing, and afterwards there is no "Yes" but its own. `YesMeansComplete` is
  not inductive alone: it needs that every enabled component before the current
  position is written, and at the end that all are, since both orders name the same
  components. For the configuration: a key that is confirmed was asked for by some
  constructor, and keys of different components differ.

Every invariant and every action property that a passing run checks is a theorem. Only
model-checked: liveness (`SentIsSettled`, `FlowFinishes`, `AllResultsAreWritten`: temporal
properties under fairness are out of the prover's reach), and the three violations. Induction
over data is out of reach as such, since it takes theorems with an operator as parameter; where
it is needed, a least counterexample replaces it. `SumBytes` of a queue is therefore not shown
to be the sum of anything: the theorem about queues holds of whatever number a queue reports.

## 5. Not modelled

* Of the utilities: trimming, quotes, comments and the formatting of numbers; file
  operations where no property is about the files. A text is its parts already.
* The strategy objects (`topology-ptop-*-selector`, routing and arbiter factories): interfaces
  with default implementations of a line; those with content are in `LinkSelectors`.
* Of the TCP client, the detailed logs other than those of progress and state (RTT, windows):
  the same two calls on the same class.
* Of the utilization tracking, the choice of links, which is that of the queues, in
  `QueueTracking`; the printing of routing tables and the checks on interfaces at set-up.
* Timing results, progress output, means and deviations in text files, plotting tools,
  examples: no behaviour over time.
* One system of a distributed run that dies while others go on: with MPI they wait for it,
  and what happens is up to MPI. In `DistributedRun` the others go on, which allows more.
* Link bandwidths, queueing and TCP's congestion control: the simulator's.

## 6. What is left

In the order of what it would add:

1. `RunLifecycle` and `DistributedRun` over one run folder: the files carry the number of
   their system, and a folder may then hold those of systems of an earlier run.
2. Abstract specifications of bursts, flows and queues: what each promises over time, as
   `FlowReport` and `SignalLog` do for a flow and a log, and the refinement step by step.
3. Theorems that tie the components together: that a network whose topology is accepted is one
   `EcmpForwarding` assumes (`Topologies`), and that the logs of `QueueTracking` are what
   `LogUpdateHelper` keeps.
