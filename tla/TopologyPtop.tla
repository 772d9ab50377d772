---------------------------- MODULE TopologyPtop ----------------------------
(***************************************************************************)
(* TopologyPtop: reading the topology file, checking the graph, giving     *)
(* each link its properties, and installing the links one after another,   *)
(* each with a net-device at either end.  An exception ends the process.   *)
(*                                                                         *)
(* A net-device is named <<node, index>>; the index is the one of the      *)
(* interface as well, 0 being the loopback.  All processes of a            *)
(* distributed run build the same; they differ in the channels of links.   *)
(***************************************************************************)
EXTENDS LinkSelectors, Distribution

CONSTANTS
  Inputs    \* the configurations considered: records with, at least, lines
            \* (of the topology file) and distributed (see Distribution)

ASSUME InputsAssumption ==
  \A i \in Inputs : LET d == i.distributed
                    IN /\ d.enabled \in BOOLEAN
                       /\ d.assignment.parts \in Seq(Elements(d.assignment.parts))

VARIABLES
  input,        \* the configuration of this simulation, never changed
  tpc,          \* what the constructor does next; "done", or "threw"
  assignment,   \* m_distributed_node_system_id_assignment
  m_topology_config,
  graph,        \* nodes, edges, switches, tors, servers, allEndpoints
  mapping,      \* the five m_link_..._mapping, by property
  todo,         \* edges that SetupLinks has still to install
  devices,      \* devices[node]: its net-devices, in the order of installation
  interfaces,   \* m_interface_idxs_for_undirected_edges
  sending       \* m_link_to_sending_net_device

tpVars == <<input, tpc, assignment, m_topology_config, graph, mapping, todo,
            devices, interfaces, sending>>

KnownKeys ==
  {"num_nodes", "num_undirected_edges", "switches", "switches_which_are_tors",
   "servers", "undirected_edges", "all_nodes_are_endpoints",
   "link_channel_delay_ns", "link_net_device_data_rate_megabit_per_s",
   "link_net_device_queue", "link_net_device_receive_error_model",
   "link_interface_traffic_control_qdisc"}

NoGraph == [nodes |-> 0, edges |-> {}, switches |-> {}, tors |-> {},
            servers |-> {}, allEndpoints |-> FALSE]
Empty == [x \in {} |-> x]

Reversed(link) == <<link[2], link[1]>>
Links(edges) == edges \cup {Reversed(e) : e \in edges}

TpInit ==
  /\ input \in Inputs
  /\ tpc = "ConfigureSimulation"
  /\ assignment = NotDistributed
  /\ m_topology_config = Empty
  /\ graph = NoGraph
  /\ mapping = Empty
  /\ todo = {}
  /\ devices = Empty /\ interfaces = Empty /\ sending = Empty

Throw ==
  /\ tpc' = "threw"
  /\ UNCHANGED <<input, assignment, m_topology_config, graph, mapping, todo,
                 devices, interfaces, sending>>

Configure ==
  /\ tpc = "ConfigureSimulation"
  /\ LET result == ConfigureSimulation(input.distributed)
     IN \/ result = Error /\ Throw
        \/ /\ result # Error
           /\ assignment' = result
           /\ tpc' = "ReadTopologyConfig"
           /\ UNCHANGED <<input, m_topology_config, graph, mapping, todo,
                          devices, interfaces, sending>>

----------------------------------------------------------------------------
(* The graph *)

AllNodesAreEndpoints(config) ==
  parse_boolean(Plain(get_param_or_default("all_nodes_are_endpoints",
                  [form |-> "", parts |-> <<"false">>], config)))

ReadTopologyConfig ==
  /\ tpc = "ReadTopologyConfig"
  /\ LET config == read_config(input.lines)
         valid == /\ config # Error
                  /\ DOMAIN config \subseteq KnownKeys
                  /\ AllNodesAreEndpoints(config) # Error
     IN \/ ~valid /\ Throw
        \/ /\ valid
           /\ m_topology_config' = config
           /\ tpc' = "ParseTopologyGraph"
           /\ UNCHANGED <<input, assignment, graph, mapping, todo, devices,
                          interfaces, sending>>

\* m_adjacency_list.at(node)
Neighbors(edges, node) == {m \in {e[1] : e \in edges} \cup {e[2] : e \in edges} :
                             <<node, m>> \in edges \/ <<m, node>> \in edges}

\* The edges, as a set of pairs; texts that differ must be edges that differ.
EdgesOf(v, nodes) ==
  LET strings == parse_set_string(v)
      edges == {Pair(t) : t \in strings}
  IN IF /\ strings # Error
        /\ Error \notin edges
        /\ \A e \in edges : e[1] < e[2] /\ e[2] < nodes
        /\ Cardinality(edges) = Cardinality(strings)
     THEN edges ELSE Error

NodeTypesFit(g) ==
  /\ g.servers \cap g.switches = {}
  /\ Cardinality(g.servers \cup g.switches) = g.nodes
  /\ g.tors \subseteq g.switches
  /\ \A s \in g.servers : Neighbors(g.edges, s) \subseteq g.tors

\* A set of nodes of the configuration.
NodeSet(key, nodes) ==
  LET s == parse_set_positive_int64(get_param_or_fail(key, m_topology_config))
  IN IF s # Error /\ all_items_are_less_than(s, nodes) THEN s ELSE Error

\* num_nodes, and num_undirected_edges
Announced(key) == parse_positive_int64(Plain(get_param_or_fail(key, m_topology_config)))

ParsedGraph ==
  LET nodes == Announced("num_nodes")
      g == [nodes |-> nodes,
            edges |-> EdgesOf(get_param_or_fail("undirected_edges", m_topology_config), nodes),
            switches |-> NodeSet("switches", nodes),
            tors |-> NodeSet("switches_which_are_tors", nodes),
            servers |-> NodeSet("servers", nodes),
            allEndpoints |-> AllNodesAreEndpoints(m_topology_config)]
  IN IF /\ nodes # Error
        /\ g.switches # Error /\ g.tors # Error /\ g.servers # Error
        /\ g.edges # Error
        /\ Cardinality(g.edges) = Announced("num_undirected_edges")
        /\ NodeTypesFit(g)
        /\ input.distributed.enabled => Len(assignment) = nodes
     THEN g ELSE Error

ParseTopologyGraph ==
  /\ tpc = "ParseTopologyGraph"
  /\ \/ ParsedGraph = Error /\ Throw
     \/ /\ ParsedGraph # Error
        /\ graph' = ParsedGraph
        /\ tpc' = "ParseTopologyLinkProperties"
        /\ UNCHANGED <<input, assignment, m_topology_config, mapping, todo,
                       devices, interfaces, sending>>

----------------------------------------------------------------------------
(* Link properties: one value for all, or a map that has each of them once *)

\* The entries of a map of edges, by the pair of nodes their key means.
EdgeMap(v, keys) ==
  LET entries == parse_map_string(v)
      pair(i) == Pair(entries[i][1])
  IN IF /\ entries # Error
        /\ Distinct([i \in DOMAIN entries |-> pair(i)])
        /\ {pair(i) : i \in DOMAIN entries} = keys
     THEN [k \in keys |-> entries[CHOOSE i \in DOMAIN entries : pair(i) = k][2]]
     ELSE Error

ParseUndirectedEdgeMap(v) == EdgeMap(v, graph.edges)
ParseDirectedEdgeMap(v) == EdgeMap(v, Links(graph.edges))

IsGlobal(v) == v.form # "map"

UndirectedTexts(v) ==
  IF IsGlobal(v) THEN [e \in graph.edges |-> v] ELSE ParseUndirectedEdgeMap(v)

DirectedTexts(v) ==
  IF IsGlobal(v) THEN [l \in Links(graph.edges) |-> v] ELSE ParseDirectedEdgeMap(v)

LinkChannelDelayNs(v) ==
  LET texts == UndirectedTexts(v)
      value == [e \in DOMAIN texts |-> parse_positive_int64(Plain(texts[e]))]
  IN IF /\ texts # Error /\ Error \notin {value[e] : e \in DOMAIN texts}
        /\ IsGlobal(v) => parse_positive_int64(Plain(v)) # Error
     THEN value ELSE Error

LinkNetDeviceDataRate(v) ==
  LET texts == DirectedTexts(v)
      value == [l \in DOMAIN texts |-> parse_positive_double(Plain(texts[l]))]
  IN IF /\ texts # Error /\ Error \notin {value[l] : l \in DOMAIN texts}
        /\ IsGlobal(v) => parse_positive_double(Plain(v)) # Error
     THEN value ELSE Error

LinkNetDeviceQueue(v) ==
  LET texts == DirectedTexts(v)
      value == [l \in DOMAIN texts |-> ParseQueueValue(texts[l])]
  IN IF /\ texts # Error /\ Error \notin {value[l] : l \in DOMAIN texts}
        /\ IsGlobal(v) => ParseQueueValue(v) # Error
     THEN value ELSE Error

\* This global value, and the next, must be there, but are looked at for the
\* sake of an edge only.
LinkNetDeviceReceiveErrorModel(v) ==
  LET texts == DirectedTexts(v)
      value == [l \in DOMAIN texts |-> ParseReceiveErrorModelValue(texts[l])]
  IN IF v # NoText /\ texts # Error /\ Error \notin {value[l] : l \in DOMAIN texts}
     THEN value ELSE Error

LinkInterfaceTrafficControlQdisc(v) ==
  LET texts == DirectedTexts(v)
      value == [l \in DOMAIN texts |-> ParseTcQdiscValue(texts[l])]
  IN IF v # NoText /\ texts # Error /\ Error \notin {value[l] : l \in DOMAIN texts}
     THEN value ELSE Error

ParsedProperties ==
  LET get(key) == get_param_or_fail(key, m_topology_config)
  IN [delay |-> LinkChannelDelayNs(get("link_channel_delay_ns")),
      rate |-> LinkNetDeviceDataRate(get("link_net_device_data_rate_megabit_per_s")),
      queue |-> LinkNetDeviceQueue(get("link_net_device_queue")),
      error |-> LinkNetDeviceReceiveErrorModel(get("link_net_device_receive_error_model")),
      qdisc |-> LinkInterfaceTrafficControlQdisc(get("link_interface_traffic_control_qdisc"))]

ParseTopologyLinkProperties ==
  /\ tpc = "ParseTopologyLinkProperties"
  /\ LET m == ParsedProperties
         valid == \A property \in DOMAIN m : m[property] # Error
     IN \/ ~valid /\ Throw
        \/ /\ valid
           /\ mapping' = m
           /\ tpc' = "SetupNodes"
           /\ UNCHANGED <<input, assignment, m_topology_config, graph, todo,
                          devices, interfaces, sending>>

----------------------------------------------------------------------------
(* Nodes and links *)

SetupNodes ==
  /\ tpc = "SetupNodes"
  /\ devices' = [node \in 0 .. graph.nodes - 1 |-> <<>>]
  /\ todo' = graph.edges
  /\ tpc' = "SetupLinks"
  /\ UNCHANGED <<input, assignment, m_topology_config, graph, mapping,
                 interfaces, sending>>

\* The systems at which the channel of the link is a normal one.
NormalChannelAt(edge) ==
  {s \in SystemsOf(input.distributed) :
     input.distributed.enabled =>
       \A node \in {edge[1], edge[2]} : IsNodeAssignedToThisSystem(assignment, s, node)}

\* Fault: the error model of the link it sends on, not of the one it receives from.
ReceivesFromOwn(link) == mapping.error[link]

\* What the net-device at the start of the link does to packets it receives.
ReceivesFrom(link) == mapping.error[Reversed(link)]

\* The root discipline of a device after Install, if one is enabled; after
\* Assign, which gives the default to a device that has none; and after
\* Uninstall, if it is disabled.
InstallQdisc(link, root) == IF mapping.qdisc[link] # NoQdisc THEN mapping.qdisc[link] ELSE root
AssignAddress(root) == IF root = NoQdisc THEN DefaultQdisc ELSE root
UninstallQdisc(link, root) == IF mapping.qdisc[link] = NoQdisc THEN NoQdisc ELSE root

Qdisc(link) == UninstallQdisc(link, AssignAddress(InstallQdisc(link, NoQdisc)))

\* The net-device at the start of a link, the first device of the link's edge
\* if first; address 10.network.host, where each link is a network of its own.
Device(link, edge) ==
  [link |-> link,
   rate |-> mapping.rate[link], queue |-> mapping.queue[link],
   error |-> ReceivesFrom(link), qdisc |-> Qdisc(link),
   delay |-> mapping.delay[edge], normalAt |-> NormalChannelAt(edge),
   network |-> Cardinality(DOMAIN interfaces),
   host |-> IF link = edge THEN 1 ELSE 2]

\* Fault: in the order of the file, which may be any.
NextEdgesAny(edges) == edges

\* m_undirected_edges is sorted.
NextEdges(edges) ==
  {e \in edges : \A f \in edges : e[1] < f[1] \/ (e[1] = f[1] /\ e[2] <= f[2])}

SetupLink(edge) ==
  LET a == Append(devices[edge[1]], Device(edge, edge))
      b == Append(devices[edge[2]], Device(Reversed(edge), edge))
  IN /\ devices' = [devices EXCEPT ![edge[1]] = a, ![edge[2]] = b]
     /\ interfaces' = [e \in DOMAIN interfaces \cup {edge} |->
                        IF e = edge THEN <<Len(a), Len(b)>> ELSE interfaces[e]]
     /\ sending' = [link \in DOMAIN sending \cup Links({edge}) |->
                     IF link = edge THEN <<edge[1], Len(a)>>
                     ELSE IF link = Reversed(edge) THEN <<edge[2], Len(b)>> ELSE sending[link]]
     /\ todo' = todo \ {edge}

SetupLinks ==
  /\ tpc = "SetupLinks"
  /\ \/ \E edge \in NextEdges(todo) : SetupLink(edge) /\ UNCHANGED tpc
     \/ /\ todo = {}
        /\ tpc' = "done"
        /\ UNCHANGED <<todo, devices, interfaces, sending>>
  /\ UNCHANGED <<input, assignment, m_topology_config, graph, mapping>>

TpNext == \/ Configure \/ ReadTopologyConfig \/ ParseTopologyGraph
          \/ ParseTopologyLinkProperties \/ SetupNodes \/ SetupLinks

----------------------------------------------------------------------------
(* Questions of the other components *)

IsValidEndpoint(node) ==
  \/ graph.allEndpoints
  \/ node \in (IF graph.servers = {} THEN graph.tors ELSE graph.servers)

GetEndpoints ==
  IF graph.allEndpoints THEN 0 .. graph.nodes - 1
  ELSE IF graph.servers = {} THEN graph.tors ELSE graph.servers

GetLinksSet == Links(graph.edges)

\* Defined for links only: asking for another throws.
GetSendingNetDeviceForLink(link) == sending[link]

----------------------------------------------------------------------------
(* Properties *)

TpTypeOK ==
  /\ tpc \in {"ConfigureSimulation", "ReadTopologyConfig", "ParseTopologyGraph",
              "ParseTopologyLinkProperties", "SetupNodes", "SetupLinks", "done", "threw"}
  /\ graph.edges \subseteq (0 .. graph.nodes - 1) \X (0 .. graph.nodes - 1)
  /\ todo \subseteq graph.edges
  /\ DOMAIN interfaces \subseteq graph.edges
  /\ DOMAIN sending = Links(DOMAIN interfaces)

\* What the file says of a link: the value in the one entry of the map that
\* names the link, or the value for all of them.
SaidOf(key, link) ==
  LET v == m_topology_config[key]
  IN IF ~IsGlobal(v) THEN (CHOOSE p \in Elements(v.parts) : Pair(p[1]) = link)[2] ELSE v

\* A link that is installed is what the file says of it, in each direction:
\* rate, queue and discipline where it is sent from, errors where it is
\* received, the delay for both; within one system, and only there, its
\* channel is a normal one.
LinksAreAsConfigured ==
  \A e \in DOMAIN interfaces : \A link \in {e, Reversed(e)} :
    LET from == sending[link]
        to == sending[Reversed(link)]
        sender == devices[from[1]][from[2]]
        receiver == devices[to[1]][to[2]]
    IN /\ from[1] = link[1] /\ sender.link = link
       /\ sender.rate = parse_positive_double(Plain(
                          SaidOf("link_net_device_data_rate_megabit_per_s", link)))
       /\ sender.queue = ParseQueueValue(SaidOf("link_net_device_queue", link))
       /\ sender.qdisc = ParseTcQdiscValue(SaidOf("link_interface_traffic_control_qdisc", link))
       /\ receiver.error =
            ParseReceiveErrorModelValue(SaidOf("link_net_device_receive_error_model", link))
       /\ sender.delay = parse_int64(Plain(SaidOf("link_channel_delay_ns", e)))
       /\ sender.delay = receiver.delay
       /\ \A s \in SystemsOf(input.distributed) :
            s \in sender.normalAt <=>
              IsMine(assignment, s, link[1]) /\ IsMine(assignment, s, link[2])

\* What routing takes for granted: the interfaces of a node are in the order
\* of its neighbours, so that its address (of the first) is the one on the
\* link to its smallest neighbour; the indices stored for an edge are those of
\* its own two devices; no two devices share an address, and two share a
\* network exactly if they are the ends of a link.
InterfacesAgreeWithRouting ==
  /\ \A n \in DOMAIN devices : \A i, j \in DOMAIN devices[n] :
       i < j => devices[n][i].link[2] < devices[n][j].link[2]
  /\ \A e \in DOMAIN interfaces :
       /\ devices[e[1]][interfaces[e][1]].link = e
       /\ devices[e[2]][interfaces[e][2]].link = Reversed(e)
  /\ LET all == UNION {Elements(devices[n]) : n \in DOMAIN devices}
     IN \A d, f \in all :
          /\ d.network = f.network <=> d.link \in {f.link, Reversed(f.link)}
          /\ d.network = f.network /\ d.host = f.host => d = f
=============================================================================
