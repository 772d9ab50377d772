----------------------------- MODULE RunProofs -----------------------------
(***************************************************************************)
(* A run, for any configurations, on any number of systems.                *)
(*                                                                         *)
(* The topology: what each part of the file was found to be when it was    *)
(* accepted, and, link by link, what has been installed so far.  The       *)
(* flows: each system starts its own entries of the schedule one after     *)
(* another, the event of the next one being set at its start.  The         *)
(* queues: the tracker of a link knows the queue of the device that sends  *)
(* over the link from the time it was attached; it is attached before      *)
(* anything is sent, and after its system is done nothing changes it.      *)
(* From these three follows what the files of all systems say together.    *)
(* Last, the folder these files are in, over several runs.                 *)
(***************************************************************************)
EXTENDS DistributedRun, RunLifecycle, OrderedProofs, FiniteSetTheorems,
        SequenceTheorems, TLAPS

----------------------------------------------------------------------------
(* What the parsers accept *)

LEMMA NumberType ==
  ASSUME NEW t, parse_positive_int64(t) # Error
  PROVE  parse_positive_int64(t) \in Nat
<1>1. /\ t \in DOMAIN Int64Of /\ Int64Of[t] >= 0
      /\ parse_positive_int64(t) = Int64Of[t]
  BY DEF parse_positive_int64
<1>2. Int64Of[t] \in Int
  BY <1>1, NumbersAssumption
<1> QED BY <1>1, <1>2

LEMMA NoNumber == parse_positive_int64("") = Error /\ parse_positive_double("") = Error
BY NumbersAssumption DEF parse_positive_int64, parse_positive_double

LEMMA PairType ==
  ASSUME NEW t, Pair(t) # Error
  PROVE  /\ Pair(t) \in Nat \X Nat
         /\ Pair(t) = <<Pair(t)[1], Pair(t)[2]>>
<1>1. /\ Pair(t) = <<parse_positive_int64(t[1]), parse_positive_int64(t[2])>>
      /\ parse_positive_int64(t[1]) # Error /\ parse_positive_int64(t[2]) # Error
  BY DEF Pair
<1> QED BY <1>1, NumberType

LEMMA NodeSetType ==
  ASSUME NEW key, NEW nodes \in Nat, NodeSet(key, nodes) # Error
  PROVE  NodeSet(key, nodes) \subseteq 0 .. nodes - 1
<1> DEFINE v == get_param_or_fail(key, m_topology_config)
           s == parse_set_positive_int64(v)
           numbers == {parse_positive_int64(t) : t \in parse_set_string(v)}
<1>1. NodeSet(key, nodes) = s /\ s # Error /\ \A n \in s : n < nodes
  BY DEF NodeSet, all_items_are_less_than
<1>2. s = numbers /\ Error \notin numbers
  BY <1>1 DEF parse_set_positive_int64
<1>3. ASSUME NEW n \in s PROVE n \in 0 .. nodes - 1
  <2>1. PICK t \in parse_set_string(v) : n = parse_positive_int64(t)
    BY <1>2
  <2>2. n # Error
    BY <1>2
  <2>3. n \in Nat
    BY <2>1, <2>2, NumberType
  <2> QED BY <1>1, <2>3
<1> QED BY <1>1, <1>3

LEMMA EdgesType ==
  ASSUME NEW v, NEW nodes \in Nat, EdgesOf(v, nodes) # Error
  PROVE  \A e \in EdgesOf(v, nodes) :
           /\ e \in (0 .. nodes - 1) \X (0 .. nodes - 1)
           /\ e = <<e[1], e[2]>> /\ e[1] < e[2]
<1> DEFINE edges == {Pair(t) : t \in parse_set_string(v)}
<1>1. /\ EdgesOf(v, nodes) = edges /\ Error \notin edges
      /\ \A e \in edges : e[1] < e[2] /\ e[2] < nodes
  BY DEF EdgesOf
<1>2. ASSUME NEW e \in edges
      PROVE  /\ e \in (0 .. nodes - 1) \X (0 .. nodes - 1)
             /\ e = <<e[1], e[2]>> /\ e[1] < e[2]
  <2>1. PICK t \in parse_set_string(v) : e = Pair(t)
    OBVIOUS
  <2>2. e \in Nat \X Nat /\ e = <<e[1], e[2]>>
    BY <1>1, <2>1, PairType
  <2>3. e[1] < e[2] /\ e[2] < nodes
    BY <1>1
  <2> QED BY <2>2, <2>3
<1> QED BY <1>1, <1>2

\* A distributed run has an assignment, and its entries are systems.
LEMMA AssignmentType ==
  ASSUME NEW i \in Inputs, ConfigureSimulation(i.distributed) # Error
  PROVE  LET a == ConfigureSimulation(i.distributed)
         IN /\ a \in Seq(0 .. MpiSize - 1)
            /\ ~i.distributed.enabled => a = NotDistributed
<1> DEFINE d == i.distributed
           parts == d.assignment.parts
           a == ConfigureSimulation(d)
           list == parse_list_positive_int64(d.assignment)
<1>1. parts \in Seq(Elements(parts)) /\ d.enabled \in BOOLEAN
  BY InputsAssumption
<1>2. CASE ~d.enabled
  <2>1. a = << >>
    BY <1>2 DEF ConfigureSimulation, NotDistributed
  <2> QED BY <1>2, <2>1 DEF NotDistributed
<1>3. CASE d.enabled
  <2>1. a = list /\ list # Error /\ \A v \in Elements(list) : v < MpiSize
    BY <1>3 DEF ConfigureSimulation, all_items_are_less_than
  <2>2. /\ list = [k \in DOMAIN parts |-> parse_positive_int64(parts[k])]
        /\ \A k \in DOMAIN parts : parse_positive_int64(parts[k]) # Error
    BY <2>1 DEF parse_list_positive_int64
  <2>3. DOMAIN parts = 1 .. Len(parts) /\ Len(parts) \in Nat
    BY <1>1
  <2> HIDE DEF parts, list, a, d
  <2>4. ASSUME NEW k \in 1 .. Len(parts) PROVE list[k] \in 0 .. MpiSize - 1
    <3>1. list[k] = parse_positive_int64(parts[k]) /\ list[k] \in Nat
      BY <2>2, <2>3, NumberType
    <3>2. list[k] < MpiSize
      BY <2>1, <2>2, <2>3 DEF Elements
    <3> QED BY <3>1, <3>2, MpiAssumption
  <2>5. list \in Seq(0 .. MpiSize - 1)
    BY <2>2, <2>3, <2>4
  <2> QED BY <1>3, <2>1, <2>5 DEF a, d
<1> QED BY <1>1, <1>2, <1>3

----------------------------------------------------------------------------
(* A graph that is not refused *)

WellFormed(g) ==
  LET nodes == 0 .. g.nodes - 1
  IN /\ g.nodes \in Nat
     /\ g.nodes = Announced("num_nodes")
     /\ Cardinality(g.edges) = Announced("num_undirected_edges")
     /\ \A e \in g.edges : e \in nodes \X nodes /\ e = <<e[1], e[2]>> /\ e[1] < e[2]
     /\ g.servers \cup g.switches = nodes
     /\ g.servers \cap g.switches = {}
     /\ g.tors \subseteq g.switches
     /\ \A s \in g.servers : Neighbors(g.edges, s) \subseteq g.tors
     /\ input.distributed.enabled => Len(assignment) = g.nodes

\* Two sets that fit into the nodes and are as many together are all nodes.
LEMMA AllNodes ==
  ASSUME NEW n \in Nat, NEW S, S \subseteq 0 .. n - 1, Cardinality(S) = n
  PROVE  S = 0 .. n - 1
<1>1. IsFiniteSet(0 .. n - 1) /\ Cardinality(0 .. n - 1) = n
  <2>1. 0 \in Int /\ n - 1 \in Int
    OBVIOUS
  <2>2. /\ IsFiniteSet(0 .. n - 1)
        /\ Cardinality(0 .. n - 1) = IF 0 > n - 1 THEN 0 ELSE (n - 1) - 0 + 1
    BY <2>1, FS_Interval
  <2> QED BY <2>2
<1> QED BY <1>1, FS_Subset

LEMMA AcceptedGraph ==
  ASSUME ParsedGraph # Error
  PROVE  WellFormed(ParsedGraph)
<1> DEFINE n == Announced("num_nodes")
           g == [nodes |-> n,
                 edges |-> EdgesOf(get_param_or_fail("undirected_edges", m_topology_config), n),
                 switches |-> NodeSet("switches", n),
                 tors |-> NodeSet("switches_which_are_tors", n),
                 servers |-> NodeSet("servers", n),
                 allEndpoints |-> AllNodesAreEndpoints(m_topology_config)]
<1>1. /\ ParsedGraph = g /\ n # Error
      /\ g.switches # Error /\ g.tors # Error /\ g.servers # Error /\ g.edges # Error
      /\ Cardinality(g.edges) = Announced("num_undirected_edges")
      /\ NodeTypesFit(g)
      /\ input.distributed.enabled => Len(assignment) = n
  BY DEF ParsedGraph
<1>2. n \in Nat
  BY <1>1, NumberType DEF Announced
<1>3. \A e \in g.edges : /\ e \in (0 .. n - 1) \X (0 .. n - 1)
                         /\ e = <<e[1], e[2]>> /\ e[1] < e[2]
  BY <1>1, <1>2, EdgesType
<1>4. g.switches \subseteq 0 .. n - 1 /\ g.servers \subseteq 0 .. n - 1
  BY <1>1, <1>2, NodeSetType
<1>5. g.nodes = n /\ n = Announced("num_nodes")
  OBVIOUS
<1> HIDE DEF g, n
<1>6. /\ g.servers \cap g.switches = {}
      /\ Cardinality(g.servers \cup g.switches) = n
      /\ g.tors \subseteq g.switches
      /\ \A s \in g.servers : Neighbors(g.edges, s) \subseteq g.tors
  <2>1. NodeTypesFit(g)
    BY <1>1
  <2> QED BY <1>5, <2>1 DEF NodeTypesFit
<1>7. g.servers \cup g.switches = 0 .. n - 1
  BY <1>2, <1>4, <1>6, AllNodes
<1> QED BY <1>1, <1>2, <1>3, <1>5, <1>6, <1>7 DEF WellFormed

----------------------------------------------------------------------------
(* Link properties that are not refused *)

\* What a text says of a link.
Said(v, link) ==
  IF ~IsGlobal(v) THEN (CHOOSE p \in Elements(v.parts) : Pair(p[1]) = link)[2] ELSE v

LEMMA EdgeMapText ==
  ASSUME NEW v, NEW keys, EdgeMap(v, keys) # Error
  PROVE  /\ DOMAIN EdgeMap(v, keys) = keys
         /\ \A k \in keys :
              EdgeMap(v, keys)[k] = (CHOOSE p \in Elements(v.parts) : Pair(p[1]) = k)[2]
<1> DEFINE pair(i) == Pair(v.parts[i][1])
<1>1. parse_map_string(v) = v.parts
  BY DEF EdgeMap, parse_map_string
<1>2. /\ Distinct([i \in DOMAIN v.parts |-> pair(i)])
      /\ {pair(i) : i \in DOMAIN v.parts} = keys
      /\ EdgeMap(v, keys) =
           [k \in keys |-> v.parts[CHOOSE i \in DOMAIN v.parts : pair(i) = k][2]]
  BY <1>1 DEF EdgeMap
<1>3. \A i, j \in DOMAIN v.parts : pair(i) = pair(j) => i = j
  BY <1>2 DEF Distinct
<1>4. ASSUME NEW k \in keys
      PROVE  EdgeMap(v, keys)[k] = (CHOOSE p \in Elements(v.parts) : Pair(p[1]) = k)[2]
  <2>1. PICK i \in DOMAIN v.parts : pair(i) = k
    BY <1>2
  <2>2. (CHOOSE j \in DOMAIN v.parts : pair(j) = k) = i
    BY <1>3, <2>1
  <2>3. v.parts[i] \in Elements(v.parts) /\ Pair(v.parts[i][1]) = k
    BY <2>1 DEF Elements
  <2>4. \A p \in Elements(v.parts) : Pair(p[1]) = k => p = v.parts[i]
    BY <1>3, <2>1 DEF Elements
  <2>5. (CHOOSE p \in Elements(v.parts) : Pair(p[1]) = k) = v.parts[i]
    BY <2>3, <2>4
  <2>6. EdgeMap(v, keys)[k] = v.parts[CHOOSE j \in DOMAIN v.parts : pair(j) = k][2]
    BY <1>2
  <2>7. EdgeMap(v, keys)[k] = v.parts[i][2]
    BY <2>2, <2>6
  <2> QED BY <2>5, <2>7
<1> QED BY <1>2, <1>4

LEMMA DirectedText ==
  ASSUME NEW v, DirectedTexts(v) # Error
  PROVE  /\ DOMAIN DirectedTexts(v) = Links(graph.edges)
         /\ \A link \in Links(graph.edges) : DirectedTexts(v)[link] = Said(v, link)
BY EdgeMapText DEF DirectedTexts, ParseDirectedEdgeMap, Said

LEMMA UndirectedText ==
  ASSUME NEW v, UndirectedTexts(v) # Error
  PROVE  /\ DOMAIN UndirectedTexts(v) = graph.edges
         /\ \A e \in graph.edges : UndirectedTexts(v)[e] = Said(v, e)
BY EdgeMapText DEF UndirectedTexts, ParseUndirectedEdgeMap, Said

LEMMA NoTextIsRefused ==
  /\ \A link : Said(NoText, link) = NoText
  /\ Plain(NoText) = ""
  /\ ParseQueueValue(NoText) = Error
  /\ ParseReceiveErrorModelValue(NoText) = Error
  /\ ParseTcQdiscValue(NoText) = Error
<1>1. Plain(NoText) = ""
  BY DEF NoText, Plain
<1>2. \A link : Said(NoText, link) = NoText
  BY DEF Said, NoText, IsGlobal
<1>3. ParseQueueValue(NoText) = Error
  BY DEF ParseQueueValue, NoText
<1>4. ParseReceiveErrorModelValue(NoText) = Error
  BY <1>1 DEF ParseReceiveErrorModelValue, NoText
<1>5. ParseTcQdiscValue(NoText) = Error
  BY <1>1 DEF ParseTcQdiscValue, NoText
<1> QED BY <1>1, <1>2, <1>3, <1>4, <1>5

\* A key that something was made of for a link is there.
LEMMA KeyIsThere ==
  ASSUME NEW key, NEW link,
         Said(get_param_or_fail(key, m_topology_config), link) # NoText
  PROVE  SaidOf(key, link) = Said(get_param_or_fail(key, m_topology_config), link)
<1>1. get_param_or_fail(key, m_topology_config) # NoText
  BY NoTextIsRefused
<1>2. get_param_or_fail(key, m_topology_config) = m_topology_config[key]
  BY <1>1 DEF get_param_or_fail
<1>3. SaidOf(key, link) = Said(m_topology_config[key], link)
  BY DEF SaidOf, Said
<1> QED BY <1>2, <1>3

\* What the mappings are when they are not refused.
AsSaid(m) ==
  /\ \A e \in graph.edges :
       m.delay[e] = parse_int64(Plain(SaidOf("link_channel_delay_ns", e)))
  /\ \A link \in Links(graph.edges) :
       /\ m.rate[link] = parse_positive_double(Plain(
                           SaidOf("link_net_device_data_rate_megabit_per_s", link)))
       /\ m.queue[link] = ParseQueueValue(SaidOf("link_net_device_queue", link))
       /\ m.error[link] =
            ParseReceiveErrorModelValue(SaidOf("link_net_device_receive_error_model", link))
       /\ m.qdisc[link] =
            ParseTcQdiscValue(SaidOf("link_interface_traffic_control_qdisc", link))

LEMMA AcceptedProperties ==
  ASSUME \A property \in DOMAIN ParsedProperties : ParsedProperties[property] # Error
  PROVE  AsSaid(ParsedProperties)
<1> DEFINE get(key) == get_param_or_fail(key, m_topology_config)
           m == ParsedProperties
<1>1. /\ m.delay = LinkChannelDelayNs(get("link_channel_delay_ns"))
      /\ m.rate = LinkNetDeviceDataRate(get("link_net_device_data_rate_megabit_per_s"))
      /\ m.queue = LinkNetDeviceQueue(get("link_net_device_queue"))
      /\ m.error = LinkNetDeviceReceiveErrorModel(get("link_net_device_receive_error_model"))
      /\ m.qdisc =
           LinkInterfaceTrafficControlQdisc(get("link_interface_traffic_control_qdisc"))
      /\ m.delay # Error /\ m.rate # Error /\ m.queue # Error
      /\ m.error # Error /\ m.qdisc # Error
  BY DEF ParsedProperties
<1> HIDE DEF m, get
<1>2. ASSUME NEW e \in graph.edges
      PROVE  m.delay[e] = parse_int64(Plain(SaidOf("link_channel_delay_ns", e)))
  <2> DEFINE v == get("link_channel_delay_ns")
             texts == UndirectedTexts(v)
  <2>1. /\ texts # Error
        /\ m.delay = [f \in DOMAIN texts |-> parse_positive_int64(Plain(texts[f]))]
        /\ \A f \in DOMAIN texts : m.delay[f] # Error
    BY <1>1 DEF LinkChannelDelayNs
  <2>2. e \in DOMAIN texts /\ texts[e] = Said(v, e)
    BY <2>1, UndirectedText
  <2>3. parse_positive_int64(Plain(Said(v, e))) # Error
        /\ m.delay[e] = parse_positive_int64(Plain(Said(v, e)))
    BY <2>1, <2>2
  <2>4. Said(v, e) # NoText
    BY <2>3, NoTextIsRefused, NoNumber
  <2>5. SaidOf("link_channel_delay_ns", e) = Said(v, e)
    BY <2>4, KeyIsThere DEF get
  <2> QED BY <2>3, <2>5 DEF parse_positive_int64, parse_int64
<1>3. ASSUME NEW l \in Links(graph.edges)
      PROVE  m.rate[l] = parse_positive_double(Plain(
                           SaidOf("link_net_device_data_rate_megabit_per_s", l)))
  <2> DEFINE v == get("link_net_device_data_rate_megabit_per_s")
             texts == DirectedTexts(v)
  <2>1. /\ texts # Error
        /\ m.rate = [k \in DOMAIN texts |-> parse_positive_double(Plain(texts[k]))]
        /\ \A k \in DOMAIN texts : m.rate[k] # Error
    BY <1>1 DEF LinkNetDeviceDataRate
  <2>2. l \in DOMAIN texts /\ texts[l] = Said(v, l)
    BY <2>1, DirectedText
  <2>3. parse_positive_double(Plain(Said(v, l))) # Error
        /\ m.rate[l] = parse_positive_double(Plain(Said(v, l)))
    BY <2>1, <2>2
  <2>4. Said(v, l) # NoText
    BY <2>3, NoTextIsRefused, NoNumber
  <2> QED BY <2>3, <2>4, KeyIsThere DEF get
<1>4. ASSUME NEW l \in Links(graph.edges)
      PROVE  m.queue[l] = ParseQueueValue(SaidOf("link_net_device_queue", l))
  <2> DEFINE v == get("link_net_device_queue")
             texts == DirectedTexts(v)
  <2>1. /\ texts # Error
        /\ m.queue = [k \in DOMAIN texts |-> ParseQueueValue(texts[k])]
        /\ \A k \in DOMAIN texts : m.queue[k] # Error
    BY <1>1 DEF LinkNetDeviceQueue
  <2>2. l \in DOMAIN texts /\ texts[l] = Said(v, l)
    BY <2>1, DirectedText
  <2>3. ParseQueueValue(Said(v, l)) # Error /\ m.queue[l] = ParseQueueValue(Said(v, l))
    BY <2>1, <2>2
  <2> QED BY <2>3, NoTextIsRefused, KeyIsThere DEF get
<1>5. ASSUME NEW l \in Links(graph.edges)
      PROVE  m.error[l] = ParseReceiveErrorModelValue(
                            SaidOf("link_net_device_receive_error_model", l))
  <2> DEFINE v == get("link_net_device_receive_error_model")
             texts == DirectedTexts(v)
  <2>1. /\ texts # Error
        /\ m.error = [k \in DOMAIN texts |-> ParseReceiveErrorModelValue(texts[k])]
        /\ \A k \in DOMAIN texts : m.error[k] # Error
    BY <1>1 DEF LinkNetDeviceReceiveErrorModel
  <2>2. l \in DOMAIN texts /\ texts[l] = Said(v, l)
    BY <2>1, DirectedText
  <2>3. ParseReceiveErrorModelValue(Said(v, l)) # Error
        /\ m.error[l] = ParseReceiveErrorModelValue(Said(v, l))
    BY <2>1, <2>2
  <2> QED BY <2>3, NoTextIsRefused, KeyIsThere DEF get
<1>6. ASSUME NEW l \in Links(graph.edges)
      PROVE  m.qdisc[l] = ParseTcQdiscValue(SaidOf("link_interface_traffic_control_qdisc", l))
  <2> DEFINE v == get("link_interface_traffic_control_qdisc")
             texts == DirectedTexts(v)
  <2>1. /\ texts # Error
        /\ m.qdisc = [k \in DOMAIN texts |-> ParseTcQdiscValue(texts[k])]
        /\ \A k \in DOMAIN texts : m.qdisc[k] # Error
    BY <1>1 DEF LinkInterfaceTrafficControlQdisc
  <2>2. l \in DOMAIN texts /\ texts[l] = Said(v, l)
    BY <2>1, DirectedText
  <2>3. ParseTcQdiscValue(Said(v, l)) # Error /\ m.qdisc[l] = ParseTcQdiscValue(Said(v, l))
    BY <2>1, <2>2
  <2> QED BY <2>3, NoTextIsRefused, KeyIsThere DEF get
<1> QED BY <1>2, <1>3, <1>4, <1>5, <1>6 DEF AsSaid, m

----------------------------------------------------------------------------
(* The links, one after another *)

EdgeOrder ==
  {p \in graph.edges \X graph.edges :
     p[1][1] < p[2][1] \/ (p[1][1] = p[2][1] /\ p[1][2] < p[2][2])}

EdgeOf(link) == IF link[1] < link[2] THEN link ELSE Reversed(link)

\* The net-device at the start of a link, whenever it is installed: the number
\* of its network is the number of edges before its own.
Made(link) ==
  [link |-> link,
   rate |-> mapping.rate[link], queue |-> mapping.queue[link],
   error |-> ReceivesFrom(link), qdisc |-> Qdisc(link),
   delay |-> mapping.delay[EdgeOf(link)], normalAt |-> NormalChannelAt(EdgeOf(link)),
   network |-> Cardinality(Before(graph.edges, EdgeOrder, EdgeOf(link))),
   host |-> IF link[1] < link[2] THEN 1 ELSE 2]

Installed == graph.edges \ todo

AtTheirEnds ==
  /\ devices \in [0 .. graph.nodes - 1 -> Seq({Made(link) : link \in Links(Installed)})]
  /\ \A n \in 0 .. graph.nodes - 1 : \A i \in DOMAIN devices[n] :
       devices[n][i].link[1] = n
  /\ \A n \in 0 .. graph.nodes - 1 : \A i, j \in DOMAIN devices[n] :
       i < j => devices[n][i].link[2] < devices[n][j].link[2]

WithTheirIndices ==
  /\ DOMAIN interfaces = Installed
  /\ DOMAIN sending = Links(Installed)
  /\ \A e \in Installed :
       LET i == interfaces[e][1]
           j == interfaces[e][2]
       IN /\ i \in DOMAIN devices[e[1]] /\ devices[e[1]][i] = Made(e)
          /\ j \in DOMAIN devices[e[2]] /\ devices[e[2]][j] = Made(Reversed(e))
          /\ sending[e] = <<e[1], i>> /\ sending[Reversed(e)] = <<e[2], j>>

InstalledInOrder ==
  /\ todo \subseteq graph.edges
  /\ \A e \in Installed, f \in todo : <<e, f>> \in EdgeOrder

TopologyInv ==
  /\ input \in Inputs
  /\ tpc \in {"ConfigureSimulation", "ReadTopologyConfig", "ParseTopologyGraph",
              "ParseTopologyLinkProperties", "SetupNodes", "SetupLinks", "done", "threw"}
  /\ tpc \notin {"ConfigureSimulation", "threw"} =>
       assignment = ConfigureSimulation(input.distributed) /\ assignment # Error
  /\ tpc \in {"ParseTopologyLinkProperties", "SetupNodes", "SetupLinks", "done"} =>
       WellFormed(graph)
  /\ tpc \in {"SetupNodes", "SetupLinks", "done"} => AsSaid(mapping)
  /\ tpc \in {"SetupLinks", "done"} => InstalledInOrder /\ AtTheirEnds /\ WithTheirIndices
  /\ tpc \notin {"SetupLinks", "done"} =>
       devices = Empty /\ interfaces = Empty /\ sending = Empty
  /\ tpc = "done" => todo = {}

----------------------------------------------------------------------------
LEMMA EdgesAreOrdered ==
  ASSUME WellFormed(graph)
  PROVE  IsFiniteSet(graph.edges) /\ IsStrictOrder(graph.edges, EdgeOrder)
<1> DEFINE nodes == 0 .. graph.nodes - 1
<1>1. graph.nodes \in Nat
      /\ \A e \in graph.edges : e \in nodes \X nodes /\ e = <<e[1], e[2]>> /\ e[1] < e[2]
  BY DEF WellFormed
<1>2. IsFiniteSet(nodes)
  <2>1. 0 \in Int /\ graph.nodes - 1 \in Int
    BY <1>1
  <2> QED BY <2>1, FS_Interval
<1>3. IsFiniteSet(nodes \X nodes)
  BY <1>2, FS_Product
<1>4. graph.edges \subseteq nodes \X nodes
  BY <1>1
<1>5. IsFiniteSet(graph.edges)
  BY <1>3, <1>4, FS_Subset
<1>6. \A e \in graph.edges : e[1] \in Int /\ e[2] \in Int /\ e = <<e[1], e[2]>>
  BY <1>1
<1>7. \A e, f \in graph.edges :
        <<e, f>> \in EdgeOrder <=> e[1] < f[1] \/ (e[1] = f[1] /\ e[2] < f[2])
  BY DEF EdgeOrder
<1>8. \A e \in graph.edges : <<e, e>> \notin EdgeOrder
  BY <1>6, <1>7
<1>9. \A e, f, g \in graph.edges :
        <<e, f>> \in EdgeOrder /\ <<f, g>> \in EdgeOrder => <<e, g>> \in EdgeOrder
  BY <1>6, <1>7
<1>10. ASSUME NEW e \in graph.edges, NEW f \in graph.edges,
               <<e, f>> \notin EdgeOrder, <<f, e>> \notin EdgeOrder
       PROVE  e = f
  <2>1. e[1] = f[1] /\ e[2] = f[2]
    BY <1>6, <1>7, <1>10
  <2> QED BY <1>6, <2>1
<1> QED BY <1>5, <1>8, <1>9, <1>10 DEF IsStrictOrder

LEMMA EdgeFacts ==
  ASSUME WellFormed(graph), NEW e \in graph.edges
  PROVE  /\ e = <<e[1], e[2]>> /\ e[1] \in 0 .. graph.nodes - 1 /\ e[2] \in 0 .. graph.nodes - 1
         /\ e[1] < e[2]
         /\ Reversed(e) = <<e[2], e[1]>> /\ Reversed(Reversed(e)) = e /\ Reversed(e) # e
         /\ EdgeOf(e) = e /\ EdgeOf(Reversed(e)) = e
<1>1. /\ e = <<e[1], e[2]>> /\ e[1] \in 0 .. graph.nodes - 1 /\ e[2] \in 0 .. graph.nodes - 1
      /\ e[1] < e[2]
  BY DEF WellFormed
<1>2. Reversed(e) = <<e[2], e[1]>>
  BY DEF Reversed
<1>3. Reversed(Reversed(e)) = e
  BY <1>1, <1>2 DEF Reversed
<1>4. e[1] \in Int /\ e[2] \in Int
  BY <1>1
<1>5. Reversed(e) # e
  <2>1. Reversed(e)[1] # e[1]
    BY <1>1, <1>2, <1>4
  <2> QED BY <2>1
<1>6. EdgeOf(e) = e
  BY <1>1 DEF EdgeOf
<1>7. EdgeOf(Reversed(e)) = e
  <2>1. Reversed(e)[1] = e[2] /\ Reversed(e)[2] = e[1] /\ ~(e[2] < e[1])
    BY <1>1, <1>2, <1>4
  <2> QED BY <1>3, <2>1 DEF EdgeOf
<1> QED BY <1>1, <1>2, <1>3, <1>5, <1>6, <1>7

\* A link is one direction of an edge.
LEMMA LinkFacts ==
  ASSUME WellFormed(graph), NEW S \in SUBSET graph.edges, NEW l \in Links(S)
  PROVE  /\ EdgeOf(l) \in S
         /\ l = EdgeOf(l) \/ l = Reversed(EdgeOf(l))
         /\ l = <<l[1], l[2]>> /\ l[1] # l[2]
         /\ l[1] \in 0 .. graph.nodes - 1 /\ l[2] \in 0 .. graph.nodes - 1
         /\ Reversed(l) = <<l[2], l[1]>> /\ Reversed(Reversed(l)) = l /\ Reversed(l) \in Links(S)
         /\ Reversed(l) # l
         /\ l[1] < l[2] => EdgeOf(l) = l
         /\ ~(l[1] < l[2]) => EdgeOf(l) = <<l[2], l[1]>>
<1>1. PICK e \in S : l = e \/ l = Reversed(e)
  BY DEF Links
<1>2. /\ e = <<e[1], e[2]>> /\ e[1] \in 0 .. graph.nodes - 1 /\ e[2] \in 0 .. graph.nodes - 1
      /\ e[1] < e[2]
      /\ Reversed(e) = <<e[2], e[1]>> /\ Reversed(Reversed(e)) = e /\ Reversed(e) # e
      /\ EdgeOf(e) = e /\ EdgeOf(Reversed(e)) = e
  BY EdgeFacts
<1>3. Reversed(e) \in Links(S) /\ e \in Links(S)
  BY DEF Links
<1>4. CASE l = e
  BY <1>2, <1>3, <1>4 DEF EdgeOf
<1>5. CASE l = Reversed(e)
  <2>1. l[1] = e[2] /\ l[2] = e[1]
    BY <1>2, <1>5
  <2>2. EdgeOf(l) = e /\ Reversed(l) = e
    BY <1>2, <1>5
  <2>3. ~(l[1] < l[2]) /\ l[1] # l[2]
    BY <1>2, <2>1
  <2> QED BY <1>2, <1>3, <1>5, <2>1, <2>2, <2>3
<1> QED BY <1>1, <1>4, <1>5

LEMMA TopologyStays ==
  ASSUME UNCHANGED <<input, assignment, m_topology_config, graph, mapping>>
  PROVE  /\ \A l : Made(l)' = Made(l)
         /\ EdgeOrder' = EdgeOrder
         /\ WellFormed(graph)' <=> WellFormed(graph)
         /\ AsSaid(mapping)' <=> AsSaid(mapping)
<1>1. EdgeOrder' = EdgeOrder
  BY DEF EdgeOrder
<1>2. \A l : Made(l)' = Made(l)
  BY <1>1 DEF Made, ReceivesFrom, Qdisc, InstallQdisc, UninstallQdisc, NormalChannelAt
<1>3. WellFormed(graph)' <=> WellFormed(graph)
  <2>1. \A key : Announced(key)' = Announced(key)
    BY DEF Announced
  <2> QED BY <2>1 DEF WellFormed
<1>4. AsSaid(mapping)' <=> AsSaid(mapping)
  <2>1. \A key, link : SaidOf(key, link)' = SaidOf(key, link)
    BY DEF SaidOf
  <2> QED BY <2>1 DEF AsSaid
<1> QED BY <1>1, <1>2, <1>3, <1>4

\* The next edge comes after those that are installed and before the others.
LEMMA NextEdge ==
  ASSUME WellFormed(graph), InstalledInOrder, NEW edge \in NextEdges(todo)
  PROVE  /\ edge \in graph.edges /\ edge \in todo
         /\ \A e \in Installed : <<e, edge>> \in EdgeOrder
         /\ \A f \in todo \ {edge} : <<edge, f>> \in EdgeOrder
         /\ Before(graph.edges, EdgeOrder, edge) = Installed
<1>1. edge \in graph.edges /\ edge \in todo /\ todo \subseteq graph.edges
  BY DEF NextEdges, InstalledInOrder
<1>2. \A e \in Installed : <<e, edge>> \in EdgeOrder
  BY <1>1 DEF InstalledInOrder
<1>3. ASSUME NEW f \in todo \ {edge} PROVE <<edge, f>> \in EdgeOrder
  <2>1. edge[1] < f[1] \/ (edge[1] = f[1] /\ edge[2] <= f[2])
    BY DEF NextEdges
  <2>2. /\ edge = <<edge[1], edge[2]>> /\ edge[1] \in Int /\ edge[2] \in Int
        /\ f = <<f[1], f[2]>> /\ f[1] \in Int /\ f[2] \in Int
    BY <1>1, EdgeFacts
  <2>3. edge[1] < f[1] \/ (edge[1] = f[1] /\ edge[2] < f[2])
    BY <2>1, <2>2
  <2> QED BY <1>1, <2>3 DEF EdgeOrder
<1>4. ASSUME NEW f \in graph.edges, <<f, edge>> \in EdgeOrder PROVE f \in Installed
  <2>1. f # edge /\ <<edge, f>> \notin EdgeOrder
    BY <1>1, <1>4, EdgesAreOrdered DEF IsStrictOrder
  <2> QED BY <1>3, <2>1 DEF Installed
<1>5. Before(graph.edges, EdgeOrder, edge) = Installed
  BY <1>2, <1>4 DEF Before, Installed
<1> QED BY <1>1, <1>2, <1>3, <1>5

\* The two net-devices are what they would be at any moment.
LEMMA DevicesAreMade ==
  ASSUME WellFormed(graph), InstalledInOrder, WithTheirIndices, NEW edge \in NextEdges(todo)
  PROVE  /\ Device(edge, edge) = Made(edge)
         /\ Device(Reversed(edge), edge) = Made(Reversed(edge))
<1>1. edge \in graph.edges /\ Before(graph.edges, EdgeOrder, edge) = Installed
  BY NextEdge
<1>2. /\ EdgeOf(edge) = edge /\ EdgeOf(Reversed(edge)) = edge /\ Reversed(edge) # edge
      /\ edge[1] < edge[2] /\ ~(Reversed(edge)[1] < Reversed(edge)[2])
  <2>1. /\ EdgeOf(edge) = edge /\ EdgeOf(Reversed(edge)) = edge /\ Reversed(edge) # edge
        /\ edge[1] < edge[2] /\ edge[1] \in Int /\ edge[2] \in Int
        /\ Reversed(edge) = <<edge[2], edge[1]>>
    BY <1>1, EdgeFacts
  <2>2. Reversed(edge)[1] = edge[2] /\ Reversed(edge)[2] = edge[1]
    BY <2>1
  <2>3. ~(edge[2] < edge[1])
    BY <2>1
  <2> QED BY <2>1, <2>2, <2>3
<1>3. DOMAIN interfaces = Installed
  BY DEF WithTheirIndices
<1>4. Device(edge, edge) = Made(edge)
  BY <1>1, <1>2, <1>3 DEF Device, Made
<1>5. Device(Reversed(edge), edge) = Made(Reversed(edge))
  BY <1>1, <1>2, <1>3 DEF Device, Made
<1> QED BY <1>4, <1>5

\* Neighbours that come later have larger numbers.
LEMMA LaterNeighbor ==
  ASSUME WellFormed(graph), InstalledInOrder, NEW edge \in NextEdges(todo),
         NEW l \in Links(Installed), NEW k \in {edge, Reversed(edge)}, l[1] = k[1]
  PROVE  l[2] < k[2]
<1> DEFINE e == EdgeOf(l)
<1>1. edge \in graph.edges
  BY NextEdge
<1>2. Installed \in SUBSET graph.edges
  BY DEF Installed
<1>3. /\ e \in Installed
      /\ l[1] # l[2] /\ l[1] \in Int /\ l[2] \in Int
      /\ l = <<l[1], l[2]>>
      /\ l[1] < l[2] => e = l
      /\ ~(l[1] < l[2]) => e = <<l[2], l[1]>>
  BY <1>2, LinkFacts
<1>4. e \in graph.edges /\ <<e, edge>> \in EdgeOrder
  BY <1>2, <1>3, NextEdge
<1>5. e[1] < edge[1] \/ (e[1] = edge[1] /\ e[2] < edge[2])
  BY <1>4 DEF EdgeOrder
<1>6. edge[1] < edge[2] /\ edge[1] \in Int /\ edge[2] \in Int
      /\ Reversed(edge) = <<edge[2], edge[1]>>
  BY <1>1, EdgeFacts
<1> HIDE DEF e
<1>7. CASE l[1] < l[2]
  <2>1. e[1] = l[1] /\ e[2] = l[2]
    BY <1>3, <1>7
  <2>2. CASE k = edge
    BY <1>3, <1>5, <1>6, <1>7, <2>1, <2>2
  <2>3. CASE k = Reversed(edge)
    <3>1. k[1] = edge[2] /\ k[2] = edge[1]
      BY <1>6, <2>3
    <3> QED BY <1>3, <1>5, <1>6, <1>7, <2>1, <3>1
  <2> QED BY <2>2, <2>3
<1>8. CASE ~(l[1] < l[2])
  <2>1. e[1] = l[2] /\ e[2] = l[1]
    BY <1>3, <1>8
  <2>2. CASE k = edge
    BY <1>3, <1>5, <1>6, <1>8, <2>1, <2>2
  <2>3. CASE k = Reversed(edge)
    <3>1. k[1] = edge[2] /\ k[2] = edge[1]
      BY <1>6, <2>3
    <3> QED BY <1>3, <1>5, <1>6, <1>8, <2>1, <3>1
  <2> QED BY <2>2, <2>3
<1> QED BY <1>7, <1>8

LEMMA MoreDevices ==
  ASSUME WellFormed(graph), InstalledInOrder, AtTheirEnds, NEW edge \in NextEdges(todo),
         NEW k \in {edge, Reversed(edge)}
  PROVE  LET n == k[1]
             s == Append(devices[n], Made(k))
         IN /\ n \in 0 .. graph.nodes - 1
            /\ s \in Seq({Made(link) : link \in Links(Installed \cup {edge})})
            /\ DOMAIN s = 1 .. Len(s) /\ Len(s) = Len(devices[n]) + 1 /\ Len(s) \in Nat
            /\ DOMAIN devices[n] = 1 .. Len(devices[n])
            /\ s[Len(s)] = Made(k)
            /\ \A i \in DOMAIN devices[n] : s[i] = devices[n][i]
            /\ \A i \in DOMAIN s : s[i].link[1] = n
            /\ \A i, j \in DOMAIN s : i < j => s[i].link[2] < s[j].link[2]
<1> DEFINE n == k[1]
           old == devices[n]
           s == Append(old, Made(k))
           Some == {Made(link) : link \in Links(Installed)}
           More == {Made(link) : link \in Links(Installed \cup {edge})}
<1>1. edge \in graph.edges
  BY NextEdge
<1>2. /\ edge[1] \in 0 .. graph.nodes - 1 /\ edge[2] \in 0 .. graph.nodes - 1
      /\ Reversed(edge) = <<edge[2], edge[1]>>
  BY <1>1, EdgeFacts
<1>3. n \in 0 .. graph.nodes - 1
  BY <1>2
<1>4. old \in Seq(Some)
  BY <1>3 DEF AtTheirEnds
<1>5. Made(k) \in More /\ Made(k).link = k
  BY DEF Links, Made
<1>6. Some \subseteq More
  BY DEF Links
<1> HIDE DEF Some, More
<1>7. old \in Seq(More)
  BY <1>4, <1>6
<1>8. /\ s \in Seq(More) /\ DOMAIN s = 1 .. Len(s) /\ Len(s) = Len(old) + 1 /\ Len(s) \in Nat
      /\ Len(old) \in Nat /\ DOMAIN old = 1 .. Len(old) /\ s[Len(s)] = Made(k)
      /\ \A i \in DOMAIN old : s[i] = old[i]
  BY <1>5, <1>7
<1>9. ASSUME NEW i \in DOMAIN old
      PROVE  old[i].link[1] = n /\ old[i].link[2] < k[2]
  <2>1. old[i].link[1] = n
    BY <1>3 DEF AtTheirEnds
  <2>2. PICK l \in Links(Installed) : old[i] = Made(l)
    BY <1>4 DEF Some
  <2>3. old[i].link = l
    BY <2>2 DEF Made
  <2> QED BY <2>1, <2>3, LaterNeighbor
<1>10. \A i, j \in DOMAIN old : i < j => old[i].link[2] < old[j].link[2]
  BY <1>3 DEF AtTheirEnds
<1> HIDE DEF s, old, n
<1>11. ASSUME NEW i \in DOMAIN s PROVE i = Len(s) \/ i \in DOMAIN old
  BY <1>8
<1>12. ASSUME NEW i \in DOMAIN s PROVE s[i].link[1] = n
  <2>1. k[1] = n
    BY DEF n
  <2> QED BY <1>5, <1>8, <1>9, <1>11, <2>1
<1>13. ASSUME NEW i \in DOMAIN s, NEW j \in DOMAIN s, i < j
       PROVE  s[i].link[2] < s[j].link[2]
  <2>1. i \in DOMAIN old
    BY <1>8, <1>13
  <2>2. CASE j \in DOMAIN old
    BY <1>8, <1>10, <1>13, <2>1, <2>2
  <2>3. CASE j = Len(s)
    BY <1>5, <1>8, <1>9, <2>1, <2>3
  <2> QED BY <1>11, <2>2, <2>3
<1>14. /\ s \in Seq(More) /\ n \in 0 .. graph.nodes - 1
  BY <1>3, <1>8
<1> QED BY <1>8, <1>12, <1>13, <1>14 DEF s, old, n, More

LEMMA SetupLinkStep ==
  ASSUME WellFormed(graph), InstalledInOrder, AtTheirEnds, WithTheirIndices,
         NEW edge \in NextEdges(todo), SetupLink(edge),
         UNCHANGED <<input, assignment, m_topology_config, graph, mapping>>
  PROVE  InstalledInOrder' /\ AtTheirEnds' /\ WithTheirIndices'
<1> DEFINE rev == Reversed(edge)
           p == edge[1]
           q == edge[2]
           a == Append(devices[p], Made(edge))
           b == Append(devices[q], Made(rev))
           nodes == 0 .. graph.nodes - 1
           now2 == Installed \cup {edge}
           More == {Made(link) : link \in Links(now2)}
<1>1. /\ edge \in graph.edges /\ edge \in todo
      /\ \A e \in Installed : <<e, edge>> \in EdgeOrder
      /\ \A f \in todo \ {edge} : <<edge, f>> \in EdgeOrder
  BY NextEdge
<1>2. /\ edge = <<p, q>> /\ p \in nodes /\ q \in nodes /\ p # q
      /\ rev = <<q, p>> /\ rev # edge
  <2>1. /\ edge = <<p, q>> /\ p \in nodes /\ q \in nodes /\ p < q
        /\ rev = <<q, p>> /\ rev # edge
    BY <1>1, EdgeFacts
  <2> QED BY <2>1
<1>3. /\ devices' = [devices EXCEPT ![p] = a, ![q] = b]
      /\ interfaces' = [e \in DOMAIN interfaces \cup {edge} |->
                         IF e = edge THEN <<Len(a), Len(b)>> ELSE interfaces[e]]
      /\ sending' = [link \in DOMAIN sending \cup Links({edge}) |->
                      IF link = edge THEN <<p, Len(a)>>
                      ELSE IF link = rev THEN <<q, Len(b)>> ELSE sending[link]]
      /\ todo' = todo \ {edge}
  BY DevicesAreMade DEF SetupLink
<1>4. /\ \A l : Made(l)' = Made(l)
      /\ EdgeOrder' = EdgeOrder /\ graph' = graph
  BY TopologyStays
<1>5. Installed' = now2
  BY <1>1, <1>3, <1>4 DEF Installed
<1>6. InstalledInOrder'
  <2>1. todo' \subseteq graph'.edges
    BY <1>3, <1>4 DEF InstalledInOrder
  <2>2. \A e \in now2, f \in todo' : <<e, f>> \in EdgeOrder
    BY <1>1, <1>3 DEF InstalledInOrder
  <2> QED BY <1>4, <1>5, <2>1, <2>2 DEF InstalledInOrder
<1>7. /\ p \in nodes /\ a \in Seq(More)
      /\ DOMAIN a = 1 .. Len(a) /\ Len(a) = Len(devices[p]) + 1 /\ Len(a) \in Nat
      /\ DOMAIN devices[p] = 1 .. Len(devices[p])
      /\ a[Len(a)] = Made(edge)
      /\ \A i \in DOMAIN devices[p] : a[i] = devices[p][i]
      /\ \A i \in DOMAIN a : a[i].link[1] = p
      /\ \A i, j \in DOMAIN a : i < j => a[i].link[2] < a[j].link[2]
  BY MoreDevices
<1>8. /\ q \in nodes /\ b \in Seq(More)
      /\ DOMAIN b = 1 .. Len(b) /\ Len(b) = Len(devices[q]) + 1 /\ Len(b) \in Nat
      /\ DOMAIN devices[q] = 1 .. Len(devices[q])
      /\ b[Len(b)] = Made(rev)
      /\ \A i \in DOMAIN devices[q] : b[i] = devices[q][i]
      /\ \A i \in DOMAIN b : b[i].link[1] = q
      /\ \A i, j \in DOMAIN b : i < j => b[i].link[2] < b[j].link[2]
  <2> DEFINE r == rev[1]
             c == Append(devices[r], Made(rev))
  <2>1. rev \in {edge, Reversed(edge)} /\ r = q
    BY <1>2
  <2> HIDE DEF rev
  <2>2. /\ r \in nodes /\ c \in Seq(More)
        /\ DOMAIN c = 1 .. Len(c) /\ Len(c) = Len(devices[r]) + 1 /\ Len(c) \in Nat
        /\ DOMAIN devices[r] = 1 .. Len(devices[r])
        /\ c[Len(c)] = Made(rev)
        /\ \A i \in DOMAIN devices[r] : c[i] = devices[r][i]
        /\ \A i \in DOMAIN c : c[i].link[1] = r
        /\ \A i, j \in DOMAIN c : i < j => c[i].link[2] < c[j].link[2]
    BY <2>1, MoreDevices
  <2>3. r = q
    BY <2>1
  <2> HIDE DEF r, More
  <2> QED BY <2>2, <2>3
<1>9. devices \in [nodes -> Seq(More)]
  <2>1. {Made(link) : link \in Links(Installed)} \subseteq More
    BY DEF Links
  <2> HIDE DEF More
  <2>2. Seq({Made(link) : link \in Links(Installed)}) \subseteq Seq(More)
    BY <2>1
  <2>3. devices \in [nodes -> Seq({Made(link) : link \in Links(Installed)})]
    BY DEF AtTheirEnds
  <2> QED BY <2>2, <2>3
<1>10. /\ devices'[p] = a /\ devices'[q] = b
       /\ \A n \in nodes \ {p, q} : devices'[n] = devices[n]
       /\ devices' \in [nodes -> Seq(More)]
  <2> HIDE DEF a, b, p, q, More
  <2> QED BY <1>2, <1>3, <1>7, <1>8, <1>9
<1> HIDE DEF a, b, p, q, rev
<1>11. AtTheirEnds'
  <2>1. devices' \in [nodes -> Seq({Made(link) : link \in Links(Installed)})]'
    <3>1. {Made(link) : link \in Links(Installed)}' = More
      BY <1>4, <1>5 DEF Links
    <3> QED BY <1>4, <1>10, <3>1
  <2>2. ASSUME NEW n \in nodes
        PROVE  /\ \A i \in DOMAIN devices'[n] : devices'[n][i].link[1] = n
               /\ \A i, j \in DOMAIN devices'[n] :
                    i < j => devices'[n][i].link[2] < devices'[n][j].link[2]
    <3>1. CASE n \in {p, q}
      BY <1>7, <1>8, <1>10, <3>1
    <3>2. CASE n \notin {p, q}
      BY <1>10, <3>2 DEF AtTheirEnds
    <3> QED BY <3>1, <3>2
  <2> QED BY <1>4, <2>1, <2>2 DEF AtTheirEnds
<1>12. ASSUME NEW n \in nodes, NEW i \in DOMAIN devices[n]
       PROVE  i \in DOMAIN devices'[n] /\ devices'[n][i] = devices[n][i]
  <2>1. CASE n = p
    BY <1>7, <1>10, <2>1
  <2>2. CASE n = q
    BY <1>8, <1>10, <2>2
  <2>3. CASE n \notin {p, q}
    BY <1>10, <2>3
  <2> QED BY <2>1, <2>2, <2>3
<1>13. WithTheirIndices'
  <2>1. DOMAIN interfaces' = now2
    BY <1>3 DEF WithTheirIndices
  <2>2. DOMAIN sending' = Links(now2)
    BY <1>3 DEF WithTheirIndices, Links
  <2>3. ASSUME NEW e \in now2
        PROVE  LET i == interfaces'[e][1]
                   j == interfaces'[e][2]
               IN /\ i \in DOMAIN devices'[e[1]] /\ devices'[e[1]][i] = Made(e)
                  /\ j \in DOMAIN devices'[e[2]] /\ devices'[e[2]][j] = Made(Reversed(e))
                  /\ sending'[e] = <<e[1], i>> /\ sending'[Reversed(e)] = <<e[2], j>>
    <3>1. e \in Links(now2) /\ Reversed(e) \in Links(now2)
      BY DEF Links
    <3>2. CASE e = edge
      <4>1. interfaces'[e] = <<Len(a), Len(b)>>
        BY <1>3, <3>2
      <4>2. e[1] = p /\ e[2] = q /\ Reversed(e) = rev
        BY <3>2 DEF p, q, rev
      <4>3. sending'[e] = <<p, Len(a)>> /\ sending'[rev] = <<q, Len(b)>>
        BY <1>2, <1>3, <2>2, <3>1, <3>2, <4>2
      <4>4. Len(a) \in DOMAIN a /\ Len(b) \in DOMAIN b
        BY <1>7, <1>8
      <4> QED BY <1>7, <1>8, <1>10, <3>2, <4>1, <4>2, <4>3, <4>4
    <3>3. CASE e # edge
      <4>1. e \in Installed /\ e \in graph.edges
        BY <3>3 DEF Installed
      <4> DEFINE i == interfaces[e][1]
                 j == interfaces[e][2]
      <4>2. /\ i \in DOMAIN devices[e[1]] /\ devices[e[1]][i] = Made(e)
            /\ j \in DOMAIN devices[e[2]] /\ devices[e[2]][j] = Made(Reversed(e))
            /\ sending[e] = <<e[1], i>> /\ sending[Reversed(e)] = <<e[2], j>>
        BY <4>1 DEF WithTheirIndices
      <4>3. interfaces'[e] = interfaces[e]
        BY <1>3, <2>1, <3>3
      <4>4. /\ e[1] \in nodes /\ e[2] \in nodes
            /\ EdgeOf(e) = e /\ EdgeOf(Reversed(e)) = e
        BY <4>1, EdgeFacts
      <4>5. EdgeOf(edge) = edge /\ EdgeOf(rev) = edge
        BY <1>1, EdgeFacts DEF rev
      <4>6. e # edge /\ e # rev /\ Reversed(e) # edge /\ Reversed(e) # rev
        BY <3>3, <4>4, <4>5
      <4>7. sending'[e] = sending[e] /\ sending'[Reversed(e)] = sending[Reversed(e)]
        BY <1>3, <2>2, <3>1, <4>6
      <4> QED BY <1>12, <4>2, <4>3, <4>4, <4>7
    <3> QED BY <3>2, <3>3
  <2> QED BY <1>4, <1>5, <2>1, <2>2, <2>3 DEF WithTheirIndices, Links
<1> QED BY <1>6, <1>11, <1>13

LEMMA ThrowKeeps ==
  ASSUME TopologyInv, Throw, tpc \notin {"SetupLinks", "done"}
  PROVE  TopologyInv'
BY DEF TopologyInv, Throw

LEMMA ConfigureKeeps == TopologyInv /\ Configure => TopologyInv'
<1> SUFFICES ASSUME TopologyInv, Configure PROVE TopologyInv'
  OBVIOUS
<1>1. CASE Throw
  BY <1>1, ThrowKeeps DEF Configure
<1>2. CASE ~Throw
  BY <1>2 DEF Configure, TopologyInv
<1> QED BY <1>1, <1>2

LEMMA ReadTopologyConfigKeeps == TopologyInv /\ ReadTopologyConfig => TopologyInv'
<1> SUFFICES ASSUME TopologyInv, ReadTopologyConfig PROVE TopologyInv'
  OBVIOUS
<1>1. CASE Throw
  BY <1>1, ThrowKeeps DEF ReadTopologyConfig
<1>2. CASE ~Throw
  BY <1>2 DEF ReadTopologyConfig, TopologyInv
<1> QED BY <1>1, <1>2

LEMMA ParseTopologyGraphKeeps == TopologyInv /\ ParseTopologyGraph => TopologyInv'
<1> SUFFICES ASSUME TopologyInv, ParseTopologyGraph PROVE TopologyInv'
  OBVIOUS
<1>1. CASE Throw
  BY <1>1, ThrowKeeps DEF ParseTopologyGraph
<1>2. CASE ~Throw
  <2>1. /\ ParsedGraph # Error /\ graph' = ParsedGraph
        /\ tpc' = "ParseTopologyLinkProperties" /\ tpc = "ParseTopologyGraph"
        /\ UNCHANGED <<input, assignment, m_topology_config, devices, interfaces, sending>>
    BY <1>2 DEF ParseTopologyGraph
  <2>2. WellFormed(graph)'
    BY <2>1, AcceptedGraph DEF WellFormed, Announced
  <2> QED BY <2>1, <2>2 DEF TopologyInv
<1> QED BY <1>1, <1>2

LEMMA ParseTopologyLinkPropertiesKeeps ==
  TopologyInv /\ ParseTopologyLinkProperties => TopologyInv'
<1> SUFFICES ASSUME TopologyInv, ParseTopologyLinkProperties PROVE TopologyInv'
  OBVIOUS
<1>1. CASE Throw
  BY <1>1, ThrowKeeps DEF ParseTopologyLinkProperties
<1>2. CASE ~Throw
  <2>1. /\ \A property \in DOMAIN ParsedProperties : ParsedProperties[property] # Error
        /\ mapping' = ParsedProperties
        /\ tpc' = "SetupNodes" /\ tpc = "ParseTopologyLinkProperties"
        /\ UNCHANGED <<input, assignment, m_topology_config, graph, devices, interfaces, sending>>
    BY <1>2 DEF ParseTopologyLinkProperties
  <2>2. AsSaid(mapping)'
    <3>1. AsSaid(mapping')
      BY <2>1, AcceptedProperties
    <3>2. \A key, link : SaidOf(key, link)' = SaidOf(key, link)
      BY <2>1 DEF SaidOf
    <3> QED BY <2>1, <3>1, <3>2 DEF AsSaid
  <2>3. WellFormed(graph)'
    BY <2>1 DEF WellFormed, Announced, TopologyInv
  <2> QED BY <2>1, <2>2, <2>3 DEF TopologyInv
<1> QED BY <1>1, <1>2

LEMMA SetupNodesKeeps == TopologyInv /\ SetupNodes => TopologyInv'
<1> SUFFICES ASSUME TopologyInv, SetupNodes PROVE TopologyInv'
  OBVIOUS
<1>1. /\ tpc = "SetupNodes" /\ tpc' = "SetupLinks"
      /\ devices' = [node \in 0 .. graph.nodes - 1 |-> <<>>]
      /\ todo' = graph.edges
      /\ UNCHANGED <<input, assignment, m_topology_config, graph, mapping, interfaces, sending>>
  BY DEF SetupNodes
<1>2. WellFormed(graph)' /\ AsSaid(mapping)'
  BY <1>1, TopologyStays DEF TopologyInv
<1>3. Installed' = {}
  BY <1>1 DEF Installed
<1>4. InstalledInOrder'
  BY <1>1, <1>3 DEF InstalledInOrder
<1>5. AtTheirEnds'
  BY <1>1 DEF AtTheirEnds
<1>6. WithTheirIndices'
  <2>1. interfaces' = Empty /\ sending' = Empty
    BY <1>1 DEF TopologyInv
  <2>2. DOMAIN Empty = {}
    BY DEF Empty
  <2> QED BY <1>3, <2>1, <2>2 DEF WithTheirIndices, Links
<1> QED BY <1>1, <1>2, <1>4, <1>5, <1>6 DEF TopologyInv

LEMMA SetupLinksKeeps == TopologyInv /\ SetupLinks => TopologyInv'
<1> SUFFICES ASSUME TopologyInv, SetupLinks PROVE TopologyInv'
  OBVIOUS
<1>1. /\ tpc = "SetupLinks"
      /\ UNCHANGED <<input, assignment, m_topology_config, graph, mapping>>
  BY DEF SetupLinks
<1>2. /\ WellFormed(graph) /\ InstalledInOrder /\ AtTheirEnds /\ WithTheirIndices
      /\ input' \in Inputs
      /\ assignment' = ConfigureSimulation(input'.distributed) /\ assignment' # Error
  BY <1>1 DEF TopologyInv
<1>3. WellFormed(graph)' /\ AsSaid(mapping)'
  BY <1>1, TopologyStays DEF TopologyInv
<1>4. ASSUME NEW edge \in NextEdges(todo), SetupLink(edge), UNCHANGED tpc
      PROVE  TopologyInv'
  <2>1. InstalledInOrder' /\ AtTheirEnds' /\ WithTheirIndices'
    BY <1>1, <1>2, <1>4, SetupLinkStep
  <2> QED BY <1>1, <1>2, <1>3, <1>4, <2>1 DEF TopologyInv
<1>5. CASE todo = {} /\ tpc' = "done" /\ UNCHANGED <<todo, devices, interfaces, sending>>
  <2>1. /\ \A l : Made(l)' = Made(l)
        /\ EdgeOrder' = EdgeOrder /\ Installed' = Installed
    BY <1>1, <1>5, TopologyStays DEF Installed
  <2>2. InstalledInOrder'
    BY <1>1, <1>2, <1>5, <2>1 DEF InstalledInOrder
  <2>3. AtTheirEnds'
    <3>1. {Made(link) : link \in Links(Installed)}' = {Made(link) : link \in Links(Installed)}
      BY <2>1 DEF Links
    <3> QED BY <1>1, <1>2, <1>5, <3>1 DEF AtTheirEnds
  <2>4. WithTheirIndices'
    BY <1>1, <1>2, <1>5, <2>1 DEF WithTheirIndices, Links
  <2> QED BY <1>1, <1>2, <1>3, <1>5, <2>2, <2>3, <2>4 DEF TopologyInv
<1> QED BY <1>4, <1>5 DEF SetupLinks

LEMMA TopologyUnchanged == TopologyInv /\ UNCHANGED tpVars => TopologyInv'
<1> SUFFICES ASSUME TopologyInv, UNCHANGED tpVars PROVE TopologyInv'
  OBVIOUS
<1>1. UNCHANGED <<input, tpc, assignment, m_topology_config, graph, mapping, todo,
                  devices, interfaces, sending>>
  BY DEF tpVars
<1>2. /\ \A l : Made(l)' = Made(l)
      /\ EdgeOrder' = EdgeOrder /\ Installed' = Installed
      /\ WellFormed(graph)' <=> WellFormed(graph)
      /\ AsSaid(mapping)' <=> AsSaid(mapping)
  BY <1>1, TopologyStays DEF Installed
<1>3. InstalledInOrder' <=> InstalledInOrder
  BY <1>1, <1>2 DEF InstalledInOrder
<1>4. AtTheirEnds' <=> AtTheirEnds
  <2>1. {Made(link) : link \in Links(Installed)}' = {Made(link) : link \in Links(Installed)}
    BY <1>2 DEF Links
  <2> QED BY <1>1, <2>1 DEF AtTheirEnds
<1>5. WithTheirIndices' <=> WithTheirIndices
  BY <1>1, <1>2 DEF WithTheirIndices, Links
<1> QED BY <1>1, <1>2, <1>3, <1>4, <1>5 DEF TopologyInv

LEMMA TopologyStep == TopologyInv /\ [Next]_vars => TopologyInv'
<1>1. TopologyInv /\ TpNext => TopologyInv'
  BY ConfigureKeeps, ReadTopologyConfigKeeps, ParseTopologyGraphKeeps,
     ParseTopologyLinkPropertiesKeeps, SetupNodesKeeps, SetupLinksKeeps DEF TpNext
<1>2. [Next]_vars => TpNext \/ UNCHANGED tpVars
  BY DEF Next, BuildTopology, SystemStep, vars
<1> QED BY <1>1, <1>2, TopologyUnchanged

LEMMA TopologyInit == Init => TopologyInv
BY DEF Init, TpInit, TopologyInv

\* The inductive invariant of the topology: what each part of the constructor
\* has accepted, and, while links are installed, those that are, at both ends
\* and in the order of their edges.
THEOREM TopologyInvariant == Spec => []TopologyInv
BY TopologyInit, TopologyStep, PTL DEF Spec

----------------------------------------------------------------------------
(* What is concluded about the topology *)

\* Each node has a system, in a distributed run.
LEMMA NodesHaveSystems ==
  ASSUME TopologyInv, WellFormed(graph), tpc \notin {"ConfigureSimulation", "threw"}
  PROVE  /\ input.distributed.enabled \in BOOLEAN
         /\ ~input.distributed.enabled => assignment = NotDistributed
         /\ input.distributed.enabled =>
              \A n \in 0 .. graph.nodes - 1 :
                HasSystem(assignment, n) /\ assignment[n + 1] \in 0 .. MpiSize - 1
<1>1. /\ input \in Inputs /\ assignment = ConfigureSimulation(input.distributed)
      /\ assignment # Error
  BY DEF TopologyInv
<1>2. assignment \in Seq(0 .. MpiSize - 1)
      /\ (~input.distributed.enabled => assignment = NotDistributed)
  BY <1>1, AssignmentType
<1>3. input.distributed.enabled \in BOOLEAN
  BY <1>1, InputsAssumption
<1>4. ASSUME input.distributed.enabled, NEW n \in 0 .. graph.nodes - 1
      PROVE  HasSystem(assignment, n) /\ assignment[n + 1] \in 0 .. MpiSize - 1
  <2>1. Len(assignment) = graph.nodes /\ graph.nodes \in Nat
    BY <1>4 DEF WellFormed
  <2>2. DOMAIN assignment = 1 .. graph.nodes
    BY <1>2, <2>1
  <2>3. n + 1 \in DOMAIN assignment
    BY <2>1, <2>2
  <2>4. \A k \in 1 .. Len(assignment) : assignment[k] \in 0 .. MpiSize - 1
    BY <1>2, ElementOfSeq
  <2> DEFINE k == n + 1
  <2>5. k \in DOMAIN assignment /\ k \in 1 .. Len(assignment)
    BY <2>1, <2>2, <2>3
  <2> HIDE DEF k
  <2>6. assignment[k] \in 0 .. MpiSize - 1
    BY <2>4, <2>5
  <2> QED BY <2>5, <2>6 DEF HasSystem, k
<1> QED BY <1>2, <1>3, <1>4

LEMMA InstalledLink ==
  ASSUME TopologyInv, NEW e \in DOMAIN interfaces, NEW link \in {e, Reversed(e)}
  PROVE  /\ tpc \in {"SetupLinks", "done"} /\ e \in Installed /\ e \in graph.edges
         /\ WellFormed(graph) /\ AsSaid(mapping)
         /\ link \in Links(graph.edges) /\ EdgeOf(link) = e
         /\ Reversed(Reversed(link)) = link /\ EdgeOf(Reversed(link)) = e
         /\ sending[link][1] = link[1]
         /\ sending[link][2] \in DOMAIN devices[link[1]]
         /\ devices[sending[link][1]][sending[link][2]] = Made(link)
         /\ devices[sending[Reversed(link)][1]][sending[Reversed(link)][2]] =
              Made(Reversed(link))
<1>1. tpc \in {"SetupLinks", "done"}
  <2>1. DOMAIN Empty = {}
    BY DEF Empty
  <2> QED BY <2>1 DEF TopologyInv
<1>2. WellFormed(graph) /\ AsSaid(mapping) /\ WithTheirIndices
  BY <1>1 DEF TopologyInv
<1>3. e \in Installed /\ e \in graph.edges
  BY <1>2 DEF WithTheirIndices, Installed
<1>4. /\ Reversed(e) = <<e[2], e[1]>> /\ Reversed(Reversed(e)) = e
      /\ EdgeOf(e) = e /\ EdgeOf(Reversed(e)) = e
  BY <1>2, <1>3, EdgeFacts
<1>5. Reversed(e)[1] = e[2] /\ Reversed(e)[2] = e[1]
  BY <1>4
<1>6. link \in Links(graph.edges)
  BY <1>3 DEF Links
<1> DEFINE i == interfaces[e][1]
           j == interfaces[e][2]
<1>7. /\ i \in DOMAIN devices[e[1]] /\ devices[e[1]][i] = Made(e)
      /\ j \in DOMAIN devices[e[2]] /\ devices[e[2]][j] = Made(Reversed(e))
      /\ sending[e] = <<e[1], i>> /\ sending[Reversed(e)] = <<e[2], j>>
  BY <1>2, <1>3 DEF WithTheirIndices
<1>8. /\ sending[e][1] = e[1] /\ sending[e][2] = i
      /\ sending[Reversed(e)][1] = e[2] /\ sending[Reversed(e)][2] = j
  BY <1>7
<1> HIDE DEF i, j
<1>9. CASE link = e
  BY <1>1, <1>2, <1>3, <1>4, <1>6, <1>7, <1>8, <1>9
<1>10. CASE link = Reversed(e)
  BY <1>1, <1>2, <1>3, <1>4, <1>5, <1>6, <1>7, <1>8, <1>10
<1> QED BY <1>9, <1>10

\* A link between nodes has a normal channel in the system of both.
LEMMA NormalChannels ==
  ASSUME TopologyInv, NEW e \in DOMAIN interfaces, NEW link \in {e, Reversed(e)},
         NEW s \in SystemsOf(input.distributed)
  PROVE  s \in Made(link).normalAt <=>
           IsMine(assignment, s, link[1]) /\ IsMine(assignment, s, link[2])
<1>1. /\ tpc \in {"SetupLinks", "done"} /\ e \in graph.edges
      /\ WellFormed(graph) /\ EdgeOf(link) = e
  BY InstalledLink
<1>2. Made(link).normalAt = NormalChannelAt(e)
  BY <1>1 DEF Made
<1>3. {link[1], link[2]} = {e[1], e[2]}
  BY DEF Reversed
<1>4. s \in NormalChannelAt(e) <=>
        (input.distributed.enabled =>
           /\ IsNodeAssignedToThisSystem(assignment, s, link[1])
           /\ IsNodeAssignedToThisSystem(assignment, s, link[2]))
  BY <1>3 DEF NormalChannelAt
<1>5. input.distributed.enabled <=> assignment # NotDistributed
  <2>1. ~input.distributed.enabled => assignment = NotDistributed
    BY <1>1, NodesHaveSystems
  <2>2. ASSUME input.distributed.enabled PROVE assignment # NotDistributed
    <3>1. e[1] \in 0 .. graph.nodes - 1
      BY <1>1, EdgeFacts
    <3>2. e[1] + 1 \in DOMAIN assignment
      BY <1>1, <2>2, <3>1, NodesHaveSystems DEF HasSystem
    <3> QED BY <3>2 DEF NotDistributed
  <2> QED BY <2>1, <2>2
<1> QED BY <1>2, <1>4, <1>5 DEF IsMine

\* However links are given their properties, for all at once or one by one in
\* whatever order: at each moment, each link that is installed has what the
\* file says of it, at the right one of its ends.
THEOREM LinksConfigured == Spec => []LinksAreAsConfigured
<1>1. TopologyInv => LinksAreAsConfigured
  <2> SUFFICES ASSUME TopologyInv, NEW e \in DOMAIN interfaces, NEW link \in {e, Reversed(e)}
               PROVE  LET from == sending[link]
                          to == sending[Reversed(link)]
                          sender == devices[from[1]][from[2]]
                          receiver == devices[to[1]][to[2]]
                      IN /\ from[1] = link[1] /\ sender.link = link
                         /\ sender.rate = parse_positive_double(Plain(
                              SaidOf("link_net_device_data_rate_megabit_per_s", link)))
                         /\ sender.queue =
                              ParseQueueValue(SaidOf("link_net_device_queue", link))
                         /\ sender.qdisc = ParseTcQdiscValue(
                              SaidOf("link_interface_traffic_control_qdisc", link))
                         /\ receiver.error = ParseReceiveErrorModelValue(
                              SaidOf("link_net_device_receive_error_model", link))
                         /\ sender.delay = parse_int64(Plain(SaidOf("link_channel_delay_ns", e)))
                         /\ sender.delay = receiver.delay
                         /\ \A s \in SystemsOf(input.distributed) :
                              s \in sender.normalAt <=>
                                IsMine(assignment, s, link[1]) /\ IsMine(assignment, s, link[2])
    BY DEF LinksAreAsConfigured
  <2> DEFINE sender == devices[sending[link][1]][sending[link][2]]
             receiver == devices[sending[Reversed(link)][1]][sending[Reversed(link)][2]]
  <2>1. /\ e \in graph.edges /\ AsSaid(mapping) /\ link \in Links(graph.edges)
        /\ EdgeOf(link) = e /\ EdgeOf(Reversed(link)) = e
        /\ Reversed(Reversed(link)) = link
        /\ sending[link][1] = link[1]
        /\ sender = Made(link) /\ receiver = Made(Reversed(link))
    BY InstalledLink
  <2>2. /\ Made(link).link = link
        /\ Made(link).rate = mapping.rate[link]
        /\ Made(link).queue = mapping.queue[link]
        /\ Made(link).qdisc = mapping.qdisc[link]
        /\ Made(link).delay = mapping.delay[e]
        /\ Made(Reversed(link)).delay = mapping.delay[e]
        /\ Made(Reversed(link)).error = mapping.error[link]
    BY <2>1 DEF Made, Qdisc, InstallQdisc, AssignAddress, UninstallQdisc, ReceivesFrom
  <2>3. /\ mapping.delay[e] = parse_int64(Plain(SaidOf("link_channel_delay_ns", e)))
        /\ mapping.rate[link] = parse_positive_double(Plain(
             SaidOf("link_net_device_data_rate_megabit_per_s", link)))
        /\ mapping.queue[link] = ParseQueueValue(SaidOf("link_net_device_queue", link))
        /\ mapping.error[link] =
             ParseReceiveErrorModelValue(SaidOf("link_net_device_receive_error_model", link))
        /\ mapping.qdisc[link] =
             ParseTcQdiscValue(SaidOf("link_interface_traffic_control_qdisc", link))
    BY <2>1 DEF AsSaid
  <2>4. \A s \in SystemsOf(input.distributed) :
          s \in Made(link).normalAt <=>
            IsMine(assignment, s, link[1]) /\ IsMine(assignment, s, link[2])
    BY NormalChannels
  <2> HIDE DEF sender, receiver
  <2>5. /\ sending[link][1] = link[1] /\ sender.link = link
        /\ sender.rate = parse_positive_double(Plain(
             SaidOf("link_net_device_data_rate_megabit_per_s", link)))
        /\ sender.queue = ParseQueueValue(SaidOf("link_net_device_queue", link))
        /\ sender.qdisc = ParseTcQdiscValue(SaidOf("link_interface_traffic_control_qdisc", link))
        /\ receiver.error =
             ParseReceiveErrorModelValue(SaidOf("link_net_device_receive_error_model", link))
        /\ sender.delay = parse_int64(Plain(SaidOf("link_channel_delay_ns", e)))
        /\ sender.delay = receiver.delay
    BY <2>1, <2>2, <2>3
  <2>6. \A s \in SystemsOf(input.distributed) :
          s \in sender.normalAt <=>
            IsMine(assignment, s, link[1]) /\ IsMine(assignment, s, link[2])
    BY <2>1, <2>4
  <2> QED BY <2>5, <2>6 DEF sender, receiver
<1> QED BY <1>1, TopologyInvariant, PTL

LEMMA SameNetwork ==
  ASSUME WellFormed(graph), NEW e \in graph.edges, NEW f \in graph.edges,
         Cardinality(Before(graph.edges, EdgeOrder, e)) =
           Cardinality(Before(graph.edges, EdgeOrder, f))
  PROVE  e = f
<1>1. IsFiniteSet(graph.edges) /\ IsStrictOrder(graph.edges, EdgeOrder)
  BY EdgesAreOrdered
<1> DEFINE count(g) == Cardinality(Before(graph.edges, EdgeOrder, g))
<1>2. ASSUME NEW g \in graph.edges PROVE count(g) \in Nat
  <2>1. Before(graph.edges, EdgeOrder, g) \in SUBSET graph.edges
    BY DEF Before
  <2> QED BY <1>1, <2>1, FS_Subset, FS_CardinalityType
<1>3. ASSUME NEW g \in graph.edges, NEW h \in graph.edges, <<g, h>> \in EdgeOrder
      PROVE  count(g) < count(h)
  BY <1>1, <1>3, MoreBefore
<1>4. count(e) = count(f) /\ count(e) \in Nat
  BY <1>2
<1> HIDE DEF count
<1>5. <<e, f>> \notin EdgeOrder /\ <<f, e>> \notin EdgeOrder
  BY <1>3, <1>4
<1> QED BY <1>1, <1>5 DEF IsStrictOrder

\* Whatever the order of the edges in the file: the interfaces of a node are in
\* the order of its neighbours, the two indices kept for an edge are those of
\* its net-devices, and no two net-devices have one address.
THEOREM InterfacesAgree == Spec => []InterfacesAgreeWithRouting
<1>1. TopologyInv => InterfacesAgreeWithRouting
  <2> SUFFICES ASSUME TopologyInv PROVE InterfacesAgreeWithRouting
    OBVIOUS
  <2>1. CASE tpc \notin {"SetupLinks", "done"}
    <3>1. devices = Empty /\ interfaces = Empty /\ DOMAIN Empty = {}
      BY <2>1 DEF TopologyInv, Empty
    <3> QED BY <3>1 DEF InterfacesAgreeWithRouting
  <2>2. CASE tpc \in {"SetupLinks", "done"}
    <3>1. WellFormed(graph) /\ AtTheirEnds /\ WithTheirIndices
      BY <2>2 DEF TopologyInv
    <3>2. /\ DOMAIN devices = 0 .. graph.nodes - 1
          /\ \A n \in DOMAIN devices : \A i, j \in DOMAIN devices[n] :
               i < j => devices[n][i].link[2] < devices[n][j].link[2]
      BY <3>1 DEF AtTheirEnds
    <3>3. \A e \in DOMAIN interfaces :
            /\ devices[e[1]][interfaces[e][1]].link = e
            /\ devices[e[2]][interfaces[e][2]].link = Reversed(e)
      <4>1. \A l : Made(l).link = l
        BY DEF Made
      <4>2. \A e \in DOMAIN interfaces :
              /\ devices[e[1]][interfaces[e][1]] = Made(e)
              /\ devices[e[2]][interfaces[e][2]] = Made(Reversed(e))
        BY <3>1 DEF WithTheirIndices
      <4> QED BY <4>1, <4>2
    <3> DEFINE all == UNION {Elements(devices[n]) : n \in DOMAIN devices}
               Net(l) == Cardinality(Before(graph.edges, EdgeOrder, EdgeOf(l)))
    <3>4. ASSUME NEW d \in all PROVE \E l \in Links(Installed) : d = Made(l)
      <4>1. PICK n \in DOMAIN devices : d \in Elements(devices[n])
        OBVIOUS
      <4>2. PICK i \in DOMAIN devices[n] : d = devices[n][i]
        BY <4>1 DEF Elements
      <4>3. devices[n] \in Seq({Made(l) : l \in Links(Installed)})
        BY <3>1, <3>2 DEF AtTheirEnds
      <4>4. devices[n][i] \in {Made(l) : l \in Links(Installed)}
        BY <4>3
      <4> QED BY <4>2, <4>4
    <3>5. Installed \in SUBSET graph.edges
      BY DEF Installed
    <3>6. ASSUME NEW d \in all, NEW f \in all
          PROVE  /\ d.network = f.network <=> d.link \in {f.link, Reversed(f.link)}
                 /\ d.network = f.network /\ d.host = f.host => d = f
      <4>1. PICK k \in Links(Installed) : d = Made(k)
        BY <3>4
      <4>2. PICK l \in Links(Installed) : f = Made(l)
        BY <3>4
      <4>3. /\ d.link = k /\ f.link = l /\ d.network = Net(k) /\ f.network = Net(l)
            /\ d.host = IF k[1] < k[2] THEN 1 ELSE 2
            /\ f.host = IF l[1] < l[2] THEN 1 ELSE 2
        BY <4>1, <4>2 DEF Made
      <4>4. /\ EdgeOf(k) \in graph.edges
            /\ k = EdgeOf(k) \/ k = Reversed(EdgeOf(k))
            /\ k[1] < k[2] => EdgeOf(k) = k
            /\ ~(k[1] < k[2]) => EdgeOf(k) = <<k[2], k[1]>>
            /\ k = <<k[1], k[2]>>
        BY <3>1, <3>5, LinkFacts
      <4>5. /\ EdgeOf(l) \in graph.edges
            /\ l = EdgeOf(l) \/ l = Reversed(EdgeOf(l))
            /\ l[1] < l[2] => EdgeOf(l) = l
            /\ ~(l[1] < l[2]) => EdgeOf(l) = <<l[2], l[1]>>
            /\ l = <<l[1], l[2]>>
        BY <3>1, <3>5, LinkFacts
      <4>6. Net(k) = Net(l) <=> EdgeOf(k) = EdgeOf(l)
        <5>1. ASSUME Net(k) = Net(l) PROVE EdgeOf(k) = EdgeOf(l)
          BY <3>1, <4>4, <4>5, <5>1, SameNetwork
        <5> QED BY <5>1
      <4>7. EdgeOf(k) = EdgeOf(l) <=> k \in {l, Reversed(l)}
        <5>1. EdgeOf(Reversed(l)) = EdgeOf(l) /\ Reversed(Reversed(EdgeOf(l))) = EdgeOf(l)
          <6>1. /\ EdgeOf(EdgeOf(l)) = EdgeOf(l) /\ EdgeOf(Reversed(EdgeOf(l))) = EdgeOf(l)
                /\ Reversed(Reversed(EdgeOf(l))) = EdgeOf(l)
            BY <3>1, <4>5, EdgeFacts
          <6> QED BY <4>5, <6>1
        <5> QED BY <4>4, <4>5, <5>1
      <4>8. ASSUME EdgeOf(k) = EdgeOf(l), d.host = f.host PROVE k = l
        <5>1. k[1] < k[2] <=> l[1] < l[2]
          BY <4>3, <4>8
        <5> QED BY <4>4, <4>5, <4>8, <5>1
      <4> HIDE DEF Net
      <4> QED BY <4>1, <4>2, <4>3, <4>6, <4>7, <4>8
    <3> HIDE DEF all, Net
    <3>7. \A d, f \in all :
            /\ d.network = f.network <=> d.link \in {f.link, Reversed(f.link)}
            /\ d.network = f.network /\ d.host = f.host => d = f
      BY <3>6
    <3> QED BY <3>2, <3>3, <3>7 DEF InterfacesAgreeWithRouting, all
  <2> QED BY <2>1, <2>2
<1> QED BY <1>1, TopologyInvariant, PTL

----------------------------------------------------------------------------
(* The schedule of flows *)

Schedule == read_tcp_flow_schedule(input.flows)

\* The flows that start at nodes of a system, in the order of the schedule.
OwnFlows(s) == {i \in DOMAIN Schedule : IsMine(assignment, s, Schedule[i].from)}
OwnOrder(s) == InOrder(OwnFlows(s), Ascending(OwnFlows(s)))

LEMMA ScheduleType ==
  ASSUME input \in Inputs, Schedule # Error
  PROVE  /\ Len(input.flows) \in Nat /\ DOMAIN input.flows = 1 .. Len(input.flows)
         /\ DOMAIN Schedule = 1 .. Len(input.flows)
         /\ \A i \in DOMAIN Schedule :
              /\ Schedule[i] = Entry(input.flows[i])
              /\ Schedule[i].id = i - 1
              /\ Schedule[i].from \in Nat /\ Schedule[i].to \in Nat
              /\ Schedule[i].size \in Nat /\ Schedule[i].start \in Nat
              /\ Schedule[i].start < EndTime
              /\ IsValidEndpoint(Schedule[i].to)
              /\ i > 1 => Schedule[i - 1].start <= Schedule[i].start
<1>1. input.flows \in Seq(Elements(input.flows))
  BY FlowsAssumption
<1>2. Len(input.flows) \in Nat /\ DOMAIN input.flows = 1 .. Len(input.flows)
  BY <1>1
<1> DEFINE lines == input.flows
           entry == [i \in DOMAIN lines |-> Entry(lines[i])]
<1>3. /\ Schedule = entry
      /\ \A i \in DOMAIN lines :
           /\ \A field \in DOMAIN entry[i] : entry[i][field] # Error
           /\ entry[i].id = i - 1
           /\ i > 1 => entry[i - 1].start <= entry[i].start
           /\ IsValidEndpoint(entry[i].to)
           /\ entry[i].start < EndTime
  BY DEF Schedule, read_tcp_flow_schedule
<1>4. ASSUME NEW i \in DOMAIN lines
      PROVE  /\ Schedule[i] = Entry(lines[i])
             /\ entry[i].from \in Nat /\ entry[i].to \in Nat
             /\ entry[i].size \in Nat /\ entry[i].start \in Nat
  <2>1. entry[i] = Entry(lines[i])
    OBVIOUS
  <2>2. /\ entry[i].from = parse_positive_int64(lines[i][2])
        /\ entry[i].to = parse_positive_int64(lines[i][3])
        /\ entry[i].size = parse_positive_int64(lines[i][4])
        /\ entry[i].start = parse_positive_int64(lines[i][5])
        /\ {"from", "to", "size", "start"} \subseteq DOMAIN entry[i]
    BY <2>1 DEF Entry
  <2>3. /\ entry[i].from # Error /\ entry[i].to # Error
        /\ entry[i].size # Error /\ entry[i].start # Error
    BY <1>3, <2>2
  <2> QED BY <1>3, <2>1, <2>2, <2>3, NumberType
<1>5. DOMAIN Schedule = DOMAIN lines /\ \A i \in DOMAIN lines : Schedule[i] = entry[i]
  BY <1>3
<1> HIDE DEF entry
<1> QED BY <1>2, <1>3, <1>4, <1>5

\* What holds of neighbouring entries holds of all: a later one starts no earlier.
LEMMA LaterStartsLater ==
  ASSUME input \in Inputs, Schedule # Error,
         NEW i \in DOMAIN Schedule, NEW j \in DOMAIN Schedule, i < j
  PROVE  Schedule[i].start <= Schedule[j].start
<1>1. /\ Len(input.flows) \in Nat /\ DOMAIN Schedule = 1 .. Len(input.flows)
      /\ \A k \in DOMAIN Schedule :
           /\ Schedule[k].start \in Nat
           /\ k > 1 => Schedule[k - 1].start <= Schedule[k].start
  BY ScheduleType
<1> DEFINE bad == {k \in DOMAIN Schedule : i < k /\ ~(Schedule[i].start <= Schedule[k].start)}
<1>2. ASSUME NEW k \in bad PROVE k - 1 \in bad
  <2>1. k \in 1 .. Len(input.flows) /\ i < k /\ i \in 1 .. Len(input.flows)
    BY <1>1
  <2>2. k - 1 \in DOMAIN Schedule /\ i <= k - 1 /\ k > 1
    BY <1>1, <2>1
  <2>3. /\ Schedule[k - 1].start <= Schedule[k].start
        /\ Schedule[k].start \in Nat /\ Schedule[k - 1].start \in Nat
        /\ Schedule[i].start \in Nat
    BY <1>1, <2>2
  <2>4. ~(Schedule[i].start <= Schedule[k - 1].start)
    BY <2>3
  <2>5. i # k - 1
    BY <2>3, <2>4
  <2> QED BY <2>1, <2>2, <2>4, <2>5
<1>3. bad \in SUBSET Nat
  BY <1>1
<1>4. \A m \in bad : \E l \in bad : l < m
  <2>1. ASSUME NEW m \in bad PROVE \E l \in bad : l < m
    <3>1. m - 1 \in bad /\ m \in Nat
      BY <1>2, <1>3
    <3> QED BY <3>1
  <2> QED BY <2>1
<1>5. bad = {}
  BY <1>3, <1>4, LeastNumber
<1> QED BY <1>5

\* A system starts each of its own flows once, in the order of the schedule.
LEMMA OwnFlowsInOrder ==
  ASSUME input \in Inputs, Schedule # Error, NEW s
  PROVE  LET own == OwnFlows(s)
             order == OwnOrder(s)
             n == Cardinality(own)
         IN /\ n \in Nat /\ n <= Len(input.flows)
            /\ order \in [1 .. n -> own]
            /\ \A i \in own : \E k \in 1 .. n : order[k] = i
            /\ \A k, l \in 1 .. n : k < l => order[k] < order[l]
            /\ StartingIn(s, Schedule) = [k \in 1 .. n |-> Schedule[order[k]]]
<1> DEFINE own == OwnFlows(s)
           order == OwnOrder(s)
           n == Cardinality(own)
           R == Ascending(own)
<1>1. Len(input.flows) \in Nat /\ DOMAIN Schedule = 1 .. Len(input.flows)
  BY ScheduleType
<1>2. own \subseteq 1 .. Len(input.flows)
  BY <1>1 DEF OwnFlows
<1>3. /\ IsFiniteSet(1 .. Len(input.flows))
      /\ Cardinality(1 .. Len(input.flows)) = Len(input.flows)
  BY <1>1, FS_Interval
<1>4. IsFiniteSet(own) /\ n <= Len(input.flows)
  BY <1>2, <1>3, FS_Subset
<1>5. n \in Nat
  BY <1>4, FS_CardinalityType
<1>6. own \subseteq Int
  BY <1>2
<1> HIDE DEF own
<1>7. IsStrictOrder(own, R)
  <2>1. \A x, y \in own : <<x, y>> \in R <=> x < y
    BY DEF Ascending
  <2> QED BY <1>6, <2>1 DEF IsStrictOrder
<1>8. order = InOrder(own, R)
  BY DEF OwnOrder, own
<1> HIDE DEF order
<1>9. /\ order \in [1 .. n -> own]
      /\ \A i \in own : \E k \in 1 .. n : order[k] = i
      /\ \A k, l \in 1 .. n : k < l => <<order[k], order[l]>> \in R
  BY <1>4, <1>7, <1>8, InOrderSorts
<1>10. \A k, l \in 1 .. n : k < l => order[k] < order[l]
  BY <1>9 DEF Ascending
<1>11. StartingIn(s, Schedule) = [k \in DOMAIN order |-> Schedule[order[k]]]
  BY DEF StartingIn, order, own, OwnOrder, OwnFlows
<1>12. DOMAIN order = 1 .. n
  BY <1>9
<1> QED BY <1>4, <1>5, <1>9, <1>10, <1>11, <1>12 DEF own, order

----------------------------------------------------------------------------
(* What the scheduler of each system has started, and has still to start *)

Clients == [id : Nat, from : Nat, to : Nat, size : Nat, port : ServerPorts,
            startedAt : Nat, logged : BOOLEAN]

\* The client of an entry of the schedule, which was started at its time.
IsClientOf(app, entry) ==
  /\ app.id = entry.id /\ app.size = entry.size /\ app.startedAt = entry.start
  /\ app.from = entry.from /\ app.to = entry.to
  /\ app.from \in NodesWithAddress /\ app.to \in NodesWithAddress

AfterRun == {"write_flows", "write_net_device", "write_qdisc", "over"}
AfterFlows == {"write_net_device", "write_qdisc", "over"}

\* What the constructor has left in system s.
Constructed(s) ==
  IF input.scheduler
  THEN /\ Schedule # Error
       /\ assignment # NotDistributed =>
            \A i \in DOMAIN Schedule : HasSystem(assignment, Schedule[i].from)
       /\ m_schedule[s] = StartingIn(s, Schedule)
       /\ servers[s] = ServersOf(s)
  ELSE m_schedule[s] = <<>>

\* The flows that have been started are the first ones; the next one is an event.
StartedInOrder(s) ==
  LET k == Len(m_apps[s])
  IN /\ k <= Len(m_schedule[s])
     /\ \A j \in 1 .. k : IsClientOf(m_apps[s][j], m_schedule[s][j])
     /\ pending[s] = IF k < Len(m_schedule[s])
                     THEN {<<m_schedule[s][k + 1].start, k + 1>>} ELSE {}

\* No event is late.
NextIsAhead(s) == \A event \in pending[s] : now[s] <= event[1]

FlowsOf(s) ==
  /\ now[s] \in 0 .. EndTime
  /\ stage[s] \in BeforeFlows \cup {"running"} \cup AfterRun \cup {"refused", "aborted"}
  /\ tpc # "done" => stage[s] = "track_net_device"
  /\ m_apps[s] \in Seq(Clients)
  /\ stage[s] \in BeforeFlows =>
       now[s] = 0 /\ m_schedule[s] = <<>> /\ m_apps[s] = <<>> /\ pending[s] = {}
  /\ stage[s] \in {"running"} \cup AfterRun => Constructed(s) /\ StartedInOrder(s)
  /\ stage[s] = "running" => NextIsAhead(s)
  /\ stage[s] \in AfterRun => Len(m_apps[s]) = Len(m_schedule[s])
  /\ stage[s] \in AfterFlows =>
       rows[s] = [i \in DOMAIN m_schedule[s] |->
                   [entry |-> m_schedule[s][i], app |-> m_apps[s][i]]]

FlowDomains ==
  /\ DOMAIN now = Processes /\ DOMAIN stage = Processes
  /\ DOMAIN m_schedule = Processes /\ DOMAIN servers = Processes
  /\ DOMAIN pending = Processes /\ DOMAIN m_apps = Processes /\ DOMAIN rows = Processes

FlowsInv == FlowDomains /\ \A s \in Processes : FlowsOf(s)

LEMMA ScheduleStays ==
  ASSUME UNCHANGED tpVars
  PROVE  /\ Schedule' = Schedule
         /\ NodesWithAddress' = NodesWithAddress
         /\ \A s : StartingIn(s, Schedule)' = StartingIn(s, Schedule)
         /\ \A s : ServersOf(s)' = ServersOf(s)
<1>1. Schedule' = Schedule
  <2>1. \A node : IsValidEndpoint(node)' <=> IsValidEndpoint(node)
    BY DEF IsValidEndpoint, tpVars
  <2>2. input' = input
    BY DEF tpVars
  <2> QED BY <2>1, <2>2 DEF Schedule, read_tcp_flow_schedule
<1>2. NodesWithAddress' = NodesWithAddress
  BY DEF NodesWithAddress, tpVars
<1>3. \A s : StartingIn(s, Schedule)' = StartingIn(s, Schedule)
  BY <1>1 DEF StartingIn, tpVars
<1>4. \A s : ServersOf(s)' = ServersOf(s)
  BY DEF ServersOf, GetEndpoints, tpVars
<1> QED BY <1>1, <1>2, <1>3, <1>4

LEMMA ConstructedStays ==
  ASSUME UNCHANGED tpVars, NEW s, Constructed(s),
         m_schedule'[s] = m_schedule[s], servers'[s] = servers[s]
  PROVE  Constructed(s)'
<1>1. input' = input /\ assignment' = assignment
  BY DEF tpVars
<1> QED BY <1>1, ScheduleStays DEF Constructed

LEMMA StartedStays ==
  ASSUME UNCHANGED tpVars, NEW s, StartedInOrder(s), m_schedule'[s] = m_schedule[s],
         m_apps'[s] = m_apps[s], pending'[s] = pending[s]
  PROVE  StartedInOrder(s)'
<1>1. NodesWithAddress' = NodesWithAddress
  BY ScheduleStays
<1>2. \A app, entry : IsClientOf(app, entry)' <=> IsClientOf(app, entry)
  BY <1>1 DEF IsClientOf
<1> QED BY <1>2 DEF StartedInOrder

\* Steps of main that are not about flows.
OtherSteps ==
  {<<"track_net_device", "track_qdisc">>, <<"track_qdisc", "schedule_flows">>,
   <<"write_net_device", "write_qdisc">>, <<"write_qdisc", "over">>}

LEMMA FlowsStay ==
  ASSUME NEW s, FlowsOf(s), UNCHANGED tpVars,
         now'[s] = now[s], m_schedule'[s] = m_schedule[s], servers'[s] = servers[s],
         pending'[s] = pending[s], m_apps'[s] = m_apps[s], rows'[s] = rows[s],
         \/ stage'[s] = stage[s]
         \/ tpc = "done" /\ stage'[s] \in {"refused", "aborted"}
         \/ tpc = "done" /\ <<stage[s], stage'[s]>> \in OtherSteps
  PROVE  FlowsOf(s)'
<1>1. tpc' = tpc
  BY DEF tpVars
<1>2. Constructed(s) => Constructed(s)'
  BY ConstructedStays
<1>3. StartedInOrder(s) => StartedInOrder(s)'
  BY StartedStays
<1>4. NextIsAhead(s)' <=> NextIsAhead(s)
  BY DEF NextIsAhead
<1>5. /\ stage'[s] \in BeforeFlows \cup {"running"} \cup AfterRun \cup {"refused", "aborted"}
      /\ tpc' # "done" => stage'[s] = "track_net_device"
      /\ stage'[s] \in BeforeFlows => stage[s] \in BeforeFlows
      /\ stage'[s] = "running" => stage[s] = "running"
      /\ stage'[s] \in AfterRun => stage[s] \in AfterRun
      /\ stage'[s] \in AfterFlows => stage[s] \in AfterFlows
  BY <1>1 DEF FlowsOf, OtherSteps, BeforeFlows, AfterRun, AfterFlows
<1>6. Clients' = Clients
  BY DEF Clients
<1>7. /\ now'[s] \in 0 .. EndTime /\ m_apps'[s] \in Seq(Clients)'
      /\ stage'[s] \in BeforeFlows =>
           now'[s] = 0 /\ m_schedule'[s] = <<>> /\ m_apps'[s] = <<>> /\ pending'[s] = {}
      /\ stage'[s] \in {"running"} \cup AfterRun => Constructed(s)' /\ StartedInOrder(s)'
  BY <1>2, <1>3, <1>5, <1>6 DEF FlowsOf
<1>8. /\ stage'[s] = "running" => NextIsAhead(s)'
      /\ stage'[s] \in AfterRun => Len(m_apps'[s]) = Len(m_schedule'[s])
      /\ stage'[s] \in AfterFlows =>
           rows'[s] = [i \in DOMAIN m_schedule'[s] |->
                         [entry |-> m_schedule'[s][i], app |-> m_apps'[s][i]]]
  BY <1>4, <1>5 DEF FlowsOf
<1> QED BY <1>5, <1>7, <1>8 DEF FlowsOf

\* While the topology is built, no system has come to its flows.
LEMMA TopologyStepKeepsFlows ==
  ASSUME TopologyInv, FlowsInv, BuildTopology
  PROVE  FlowsInv'
<1>1. tpc # "done"
  BY DEF BuildTopology, TpNext, Configure, ReadTopologyConfig, ParseTopologyGraph,
         ParseTopologyLinkProperties, SetupNodes, SetupLinks
<1>2. /\ now' = now /\ stage' = stage /\ m_schedule' = m_schedule /\ servers' = servers
      /\ pending' = pending /\ m_apps' = m_apps /\ rows' = rows
  BY DEF BuildTopology, simVars, fsVars
<1>3. ASSUME NEW s \in Processes PROVE FlowsOf(s)'
  <2>1. FlowsOf(s) /\ stage[s] = "track_net_device"
    BY <1>1 DEF FlowsInv, FlowsOf
  <2>2. "track_net_device" \notin {"running"} \cup AfterRun \cup AfterFlows
    BY DEF AfterRun, AfterFlows
  <2>3. "track_net_device" \in BeforeFlows
    BY DEF BeforeFlows
  <2>4. Clients' = Clients
    BY DEF Clients
  <2> QED BY <1>2, <2>1, <2>2, <2>3, <2>4 DEF FlowsOf
<1>4. FlowDomains'
  BY <1>2 DEF FlowsInv, FlowDomains, Processes
<1> QED BY <1>3, <1>4 DEF FlowsInv, Processes

\* A step of one system leaves the flows of the others alone.
LEMMA OneSystem ==
  ASSUME FlowsInv, NEW s \in Processes, FlowsOf(s)', FlowDomains', UNCHANGED tpVars,
         \A t \in Processes \ {s} :
           /\ now'[t] = now[t] /\ stage'[t] = stage[t]
           /\ m_schedule'[t] = m_schedule[t] /\ servers'[t] = servers[t]
           /\ pending'[t] = pending[t] /\ m_apps'[t] = m_apps[t] /\ rows'[t] = rows[t]
  PROVE  FlowsInv'
<1>1. ASSUME NEW t \in Processes PROVE FlowsOf(t)'
  <2>1. CASE t = s
    BY <2>1
  <2>2. CASE t # s
    <3>1. FlowsOf(t)
      BY DEF FlowsInv
    <3> QED BY <2>2, <3>1, FlowsStay
  <2> QED BY <2>1, <2>2
<1> QED BY <1>1 DEF FlowsInv, Processes

\* The system goes on, or stops, and flows are not concerned.
LEMMA MainGoesOn ==
  ASSUME FlowsInv, NEW s \in Processes, NEW to, tpc = "done",
         to \in {"refused", "aborted"} \/ <<stage[s], to>> \in OtherSteps,
         MainContinues(s, to), UNCHANGED <<tpVars, now, fsVars>>
  PROVE  FlowsInv'
<1>1. UNCHANGED tpVars
  OBVIOUS
<1>2. /\ now' = now /\ m_schedule' = m_schedule /\ servers' = servers
      /\ pending' = pending /\ m_apps' = m_apps /\ rows' = rows
  BY DEF fsVars
<1>3. DOMAIN stage = Processes /\ FlowsOf(s)
  BY DEF FlowsInv, FlowDomains
<1>4. stage' = [stage EXCEPT ![s] = to]
  BY DEF MainContinues
<1>5. /\ stage'[s] = to /\ DOMAIN stage' = Processes
      /\ \A t \in Processes \ {s} : stage'[t] = stage[t]
  BY <1>3, <1>4
<1>6. FlowDomains'
  BY <1>2, <1>5 DEF FlowsInv, FlowDomains, Processes
<1>7. FlowsOf(s)'
  BY <1>1, <1>2, <1>3, <1>5, FlowsStay
<1> QED BY <1>1, <1>2, <1>5, <1>6, <1>7, OneSystem

LEMMA TrackerStepKeepsFlows ==
  ASSUME FlowsInv, NEW s \in Processes, tpc = "done", TrackerStep(s), UNCHANGED tpVars
  PROVE  FlowsInv'
<1>1. ASSUME NEW kind \in Kinds, ConstructTracking(kind, s) PROVE FlowsInv'
  <2>1. PICK to : /\ to \in {StageAfter[kind], "refused"}
                  /\ MainContinues(s, to) /\ UNCHANGED now
                  /\ stage[s] = IF kind = "qdisc" THEN "track_qdisc" ELSE "track_net_device"
    BY <1>1 DEF ConstructTracking
  <2>2. to = "refused" \/ <<stage[s], to>> \in OtherSteps
    BY <2>1 DEF Kinds, StageAfter, OtherSteps
  <2>3. UNCHANGED <<tpVars, now, fsVars>>
    BY <2>1 DEF TrackerStep
  <2> QED BY <2>1, <2>2, <2>3, MainGoesOn
<1>2. ASSUME NEW kind \in Kinds, WriteQueueResults(kind, s) PROVE FlowsInv'
  <2>1. PICK to : /\ to = IF kind = "qdisc" THEN "over" ELSE "write_qdisc"
                  /\ MainContinues(s, to) /\ UNCHANGED now
                  /\ stage[s] = IF kind = "qdisc" THEN "write_qdisc" ELSE "write_net_device"
    BY <1>2 DEF WriteQueueResults
  <2>2. <<stage[s], to>> \in OtherSteps
    BY <2>1 DEF Kinds, OtherSteps
  <2>3. UNCHANGED <<tpVars, now, fsVars>>
    BY <2>1 DEF TrackerStep
  <2> QED BY <2>1, <2>2, <2>3, MainGoesOn
<1>3. ASSUME Traffic(s) PROVE FlowsInv'
  <2>1. UNCHANGED <<now, stage>>
    BY <1>3 DEF Traffic, QueueBecomes
  <2>2. /\ now' = now /\ stage' = stage /\ m_schedule' = m_schedule /\ servers' = servers
        /\ pending' = pending /\ m_apps' = m_apps /\ rows' = rows
    BY <2>1 DEF TrackerStep, fsVars
  <2>3. FlowsOf(s)'
    BY <2>2, FlowsStay DEF FlowsInv
  <2>4. FlowDomains'
    BY <2>2 DEF FlowsInv, FlowDomains, Processes
  <2> QED BY <2>2, <2>3, <2>4, OneSystem
<1> QED BY <1>1, <1>2, <1>3 DEF TrackerStep

\* What is in the schedule of a system is in that of all.
LEMMA OwnSchedule ==
  ASSUME TopologyInv, NEW s, Constructed(s)
  PROVE  /\ Len(m_schedule[s]) \in Nat
         /\ m_schedule[s] = [k \in 1 .. Len(m_schedule[s]) |-> m_schedule[s][k]]
         /\ m_schedule[s] # <<>> => input.scheduler /\ Schedule # Error
         /\ \A k \in 1 .. Len(m_schedule[s]) : \E i \in OwnFlows(s) : m_schedule[s][k] = Schedule[i]
         /\ \A k, l \in 1 .. Len(m_schedule[s]) :
              k < l => m_schedule[s][k].start <= m_schedule[s][l].start
<1>1. CASE ~input.scheduler
  BY <1>1 DEF Constructed
<1>2. CASE input.scheduler
  <2>1. Schedule # Error /\ m_schedule[s] = StartingIn(s, Schedule) /\ input \in Inputs
    BY <1>2 DEF Constructed, TopologyInv
  <2> DEFINE own == Cardinality(OwnFlows(s))
             order == OwnOrder(s)
  <2>2. /\ own \in Nat /\ order \in [1 .. own -> OwnFlows(s)]
        /\ \A k, l \in 1 .. own : k < l => order[k] < order[l]
        /\ m_schedule[s] = [k \in 1 .. own |-> Schedule[order[k]]]
    BY <2>1, OwnFlowsInOrder
  <2> HIDE DEF own, order
  <2>3. Len(m_schedule[s]) = own
    BY <2>2
  <2>4. \A k \in 1 .. own : order[k] \in OwnFlows(s) /\ m_schedule[s][k] = Schedule[order[k]]
    BY <2>2
  <2>5. ASSUME NEW k \in 1 .. own, NEW l \in 1 .. own, k < l
        PROVE  m_schedule[s][k].start <= m_schedule[s][l].start
    <3>1. order[k] \in DOMAIN Schedule /\ order[l] \in DOMAIN Schedule /\ order[k] < order[l]
      BY <2>2, <2>4, <2>5 DEF OwnFlows
    <3>2. Schedule[order[k]].start <= Schedule[order[l]].start
      BY <2>1, <3>1, LaterStartsLater
    <3> QED BY <2>4, <3>2
  <2> QED BY <1>2, <2>1, <2>2, <2>3, <2>4, <2>5
<1> QED BY <1>1, <1>2

\* At the end no event is left: a flow starts before it.
LEMMA TickKeepsFlows ==
  ASSUME TopologyInv, FlowsInv, NEW s \in Processes, tpc = "done", Tick(s), UNCHANGED tpVars
  PROVE  FlowsInv'
<1>1. /\ stage[s] = "running" /\ ~FlowIsDue(s)
      /\ m_schedule' = m_schedule /\ servers' = servers
      /\ pending' = pending /\ m_apps' = m_apps /\ rows' = rows
  BY DEF Tick, TimePasses, fsVars
<1>2. /\ FlowsOf(s) /\ Constructed(s) /\ StartedInOrder(s) /\ NextIsAhead(s)
      /\ now[s] \in 0 .. EndTime /\ m_apps[s] \in Seq(Clients)
  BY <1>1 DEF FlowsInv, FlowsOf
<1>3. Constructed(s)' /\ StartedInOrder(s)' /\ Clients' = Clients /\ tpc' = tpc
  BY <1>1, <1>2, ConstructedStays, StartedStays DEF Clients, tpVars
<1>4. DOMAIN now = Processes /\ DOMAIN stage = Processes
  BY DEF FlowsInv, FlowDomains
<1> DEFINE k == Len(m_apps[s])
           n == Len(m_schedule[s])
\* An event is at the start of a flow, which is later than now, and before the end.
<1>5. ASSUME NEW event \in pending[s]
      PROVE  /\ event[1] \in Nat /\ now[s] < event[1] /\ event[1] < EndTime
  <2>1. k < n /\ event = <<m_schedule[s][k + 1].start, k + 1>>
    BY <1>2 DEF StartedInOrder
  <2>2. k + 1 \in 1 .. n /\ k \in Nat
    BY <1>2, <2>1, OwnSchedule
  <2>3. m_schedule[s] # <<>>
    BY <2>1, <2>2
  <2>4. Schedule # Error /\ input \in Inputs
    BY <1>2, <2>3, OwnSchedule DEF TopologyInv
  <2>5. PICK i \in OwnFlows(s) : m_schedule[s][k + 1] = Schedule[i]
    BY <1>2, <2>2, OwnSchedule
  <2>6. i \in DOMAIN Schedule
    BY DEF OwnFlows
  <2>7. Schedule[i].start \in Nat /\ Schedule[i].start < EndTime
    BY <2>4, <2>6, ScheduleType
  <2>8. /\ m_schedule[s][k + 1].start \in Nat
        /\ m_schedule[s][k + 1].start < EndTime
    BY <2>5, <2>7
  <2>9. event[1] = m_schedule[s][k + 1].start /\ now[s] <= event[1] /\ event[1] # now[s]
    BY <1>1, <1>2, <2>1 DEF NextIsAhead, FlowIsDue
  <2> QED BY <1>2, <2>8, <2>9, EndAssumption
<1>6. CASE now[s] < EndTime /\ now' = [now EXCEPT ![s] = @ + 1] /\ UNCHANGED stage
  <2>1. /\ now'[s] = now[s] + 1 /\ DOMAIN now' = Processes
        /\ \A t \in Processes \ {s} : now'[t] = now[t]
    BY <1>4, <1>6
  <2>2. NextIsAhead(s)'
    <3>1. \A event \in pending[s] : now[s] + 1 <= event[1]
      BY <1>2, <1>5
    <3> QED BY <1>1, <2>1, <3>1 DEF NextIsAhead
  <2>3. now'[s] \in 0 .. EndTime
    BY <1>2, <1>6, <2>1, EndAssumption
  <2>4. stage'[s] = "running" /\ "running" \notin BeforeFlows \cup AfterRun \cup AfterFlows
    BY <1>1, <1>6 DEF BeforeFlows, AfterRun, AfterFlows
  <2>5. FlowsOf(s)'
    BY <1>1, <1>2, <1>3, <2>2, <2>3, <2>4 DEF FlowsOf
  <2>6. FlowDomains'
    BY <1>1, <1>6, <2>1 DEF FlowsInv, FlowDomains, Processes
  <2> QED BY <1>1, <1>6, <2>1, <2>5, <2>6, OneSystem
<1>7. CASE now[s] = EndTime /\ MainContinues(s, "write_flows") /\ UNCHANGED now
  <2>1. stage' = [stage EXCEPT ![s] = "write_flows"]
    BY <1>7 DEF MainContinues
  <2>2. /\ stage'[s] = "write_flows" /\ DOMAIN stage' = Processes
        /\ \A t \in Processes \ {s} : stage'[t] = stage[t]
    BY <1>4, <2>1
  <2>3. pending[s] = {}
    <3>1. \A event \in pending[s] : event[1] \in Nat /\ EndTime < event[1] /\ event[1] < EndTime
      BY <1>5, <1>7
    <3> QED BY <3>1, EndAssumption
  <2>4. k = n
    <3>1. k <= n /\ ~(k < n)
      BY <1>2, <2>3 DEF StartedInOrder
    <3>2. k \in Nat /\ n \in Nat
      BY <1>2, OwnSchedule
    <3> QED BY <3>1, <3>2
  <2>5. /\ "write_flows" \in AfterRun
        /\ "write_flows" \notin BeforeFlows \cup {"running"} \cup AfterFlows
    BY DEF BeforeFlows, AfterRun, AfterFlows
  <2>6. FlowsOf(s)'
    BY <1>1, <1>2, <1>3, <1>7, <2>2, <2>4, <2>5 DEF FlowsOf
  <2>7. FlowDomains'
    BY <1>1, <1>7, <2>2 DEF FlowsInv, FlowDomains, Processes
  <2> QED BY <1>1, <1>7, <2>2, <2>6, <2>7, OneSystem
<1> QED BY <1>6, <1>7 DEF Tick, TimePasses

LEMMA EmptyLength == Len(<<>>) = 0
OBVIOUS

LEMMA ConstructFlowSchedulerKeepsFlows ==
  ASSUME TopologyInv, FlowsInv, NEW s \in Processes, tpc = "done",
         ConstructFlowScheduler(s), UNCHANGED tpVars
  PROVE  FlowsInv'
<1>1. /\ stage[s] = "schedule_flows" /\ "schedule_flows" \in BeforeFlows
      /\ now' = now
  BY DEF ConstructFlowScheduler, BeforeFlows
<1>2. /\ FlowsOf(s) /\ FlowDomains
      /\ m_schedule[s] = <<>> /\ m_apps[s] = <<>> /\ pending[s] = {} /\ now[s] = 0
      /\ now[s] \in 0 .. EndTime /\ m_apps[s] \in Seq(Clients)
  BY <1>1 DEF FlowsInv, FlowsOf
<1>3. /\ "running" \notin BeforeFlows \cup AfterRun \cup AfterFlows
      /\ Clients' = Clients /\ tpc' = tpc /\ input' = input /\ assignment' = assignment
  BY DEF BeforeFlows, AfterRun, AfterFlows, Clients, tpVars
<1>4. ASSUME ~input.scheduler, MainContinues(s, "running"), UNCHANGED fsVars
      PROVE  FlowsInv'
  <2>1. /\ m_schedule' = m_schedule /\ servers' = servers
        /\ pending' = pending /\ m_apps' = m_apps /\ rows' = rows
    BY <1>4 DEF fsVars
  <2>2. /\ stage'[s] = "running" /\ DOMAIN stage' = Processes
        /\ \A t \in Processes \ {s} : stage'[t] = stage[t]
    BY <1>2, <1>4 DEF FlowDomains, MainContinues
  <2>3. Constructed(s)' /\ StartedInOrder(s)' /\ NextIsAhead(s)'
    <3>1. Constructed(s)'
      BY <1>2, <1>3, <1>4, <2>1 DEF Constructed
    <3>2. StartedInOrder(s)'
      <4>1. m_apps'[s] = <<>> /\ m_schedule'[s] = <<>> /\ pending'[s] = {}
        BY <1>2, <1>4, <2>1, <3>1 DEF Constructed
      <4>2. Len(m_apps'[s]) = 0 /\ Len(m_schedule'[s]) = 0
        BY <4>1, EmptyLength
      <4> QED BY <4>1, <4>2 DEF StartedInOrder
    <3>3. NextIsAhead(s)'
      BY <1>2, <2>1 DEF NextIsAhead
    <3> QED BY <3>1, <3>2, <3>3
  <2>4. FlowsOf(s)'
    BY <1>1, <1>2, <1>3, <2>1, <2>2, <2>3 DEF FlowsOf
  <2>5. FlowDomains'
    BY <1>1, <1>2, <2>1, <2>2 DEF FlowDomains, Processes
  <2> QED BY <1>1, <2>1, <2>2, <2>4, <2>5, OneSystem
<1>5. ASSUME MainContinues(s, "refused"), UNCHANGED fsVars
      PROVE  FlowsInv'
  BY <1>1, <1>5, MainGoesOn
<1>6. ASSUME input.scheduler,
             Schedule # Error,
             assignment # NotDistributed =>
               \A i \in DOMAIN Schedule : HasSystem(assignment, Schedule[i].from),
             NEW own, own = StartingIn(s, Schedule),
             m_schedule' = [m_schedule EXCEPT ![s] = own],
             pending' = [pending EXCEPT ![s] = IF own = <<>> THEN {} ELSE {<<own[1].start, 1>>}],
             servers' = [servers EXCEPT ![s] = ServersOf(s)],
             MainContinues(s, "running"),
             UNCHANGED <<m_apps, rows>>
      PROVE  FlowsInv'
  <2>1. /\ stage'[s] = "running" /\ DOMAIN stage' = Processes
        /\ \A t \in Processes \ {s} : stage'[t] = stage[t]
    BY <1>2, <1>6 DEF FlowDomains, MainContinues
  <2>2. /\ m_schedule'[s] = own /\ servers'[s] = ServersOf(s)
        /\ pending'[s] = IF own = <<>> THEN {} ELSE {<<own[1].start, 1>>}
        /\ DOMAIN m_schedule' = Processes /\ DOMAIN servers' = Processes
        /\ DOMAIN pending' = Processes
        /\ \A t \in Processes \ {s} :
             /\ m_schedule'[t] = m_schedule[t] /\ servers'[t] = servers[t]
             /\ pending'[t] = pending[t]
    BY <1>2, <1>6 DEF FlowDomains
  <2>3. m_apps' = m_apps /\ rows' = rows
    BY <1>6
  <2>4. Constructed(s)'
    <3>1. /\ Schedule' = Schedule /\ StartingIn(s, Schedule)' = StartingIn(s, Schedule)
          /\ ServersOf(s)' = ServersOf(s)
      BY ScheduleStays
    <3> QED BY <1>3, <1>6, <2>2, <3>1 DEF Constructed
  <2>5. own = <<>> \/ (Len(own) \in Nat /\ 0 < Len(own) /\ own # <<>> /\ own[1].start \in Nat)
    <3>1. input \in Inputs
      BY DEF TopologyInv
    <3> DEFINE n == Cardinality(OwnFlows(s))
               order == OwnOrder(s)
    <3>2. /\ n \in Nat /\ order \in [1 .. n -> OwnFlows(s)]
          /\ own = [k \in 1 .. n |-> Schedule[order[k]]]
      BY <1>6, <3>1, OwnFlowsInOrder
    <3> HIDE DEF n, order
    <3>3. CASE n = 0
      BY <3>2, <3>3
    <3>4. CASE n # 0
      <4>1. order[1] \in DOMAIN Schedule /\ own[1] = Schedule[order[1]] /\ Len(own) = n
        BY <3>2, <3>4 DEF OwnFlows
      <4>2. own[1].start \in Nat
        BY <1>6, <3>1, <4>1, ScheduleType
      <4> QED BY <3>2, <3>4, <4>1, <4>2
    <3> QED BY <3>3, <3>4
  <2>6. StartedInOrder(s)'
    <3>1. Len(m_apps'[s]) = 0
      BY <1>2, <2>3, EmptyLength
    <3>2. pending'[s] = IF 0 < Len(own) THEN {<<own[1].start, 1>>} ELSE {}
      BY <2>2, <2>5, EmptyLength
    <3>3. 0 <= Len(own)
      BY <2>5, EmptyLength
    <3> QED BY <2>2, <3>1, <3>2, <3>3 DEF StartedInOrder
  <2>7. NextIsAhead(s)'
    <3>1. now'[s] = 0
      BY <1>1, <1>2
    <3> QED BY <2>2, <2>5, <3>1 DEF NextIsAhead
  <2>8. FlowsOf(s)'
    BY <1>1, <1>2, <1>3, <2>1, <2>3, <2>4, <2>6, <2>7 DEF FlowsOf
  <2>9. FlowDomains'
    BY <1>1, <1>2, <2>1, <2>2, <2>3 DEF FlowDomains, Processes
  <2> QED BY <1>1, <2>1, <2>2, <2>3, <2>8, <2>9, OneSystem
<1> QED BY <1>4, <1>5, <1>6 DEF ConstructFlowScheduler, Schedule

LEMMA WriteFlowResultsKeepsFlows ==
  ASSUME TopologyInv, FlowsInv, NEW s \in Processes, tpc = "done",
         WriteFlowResults(s), UNCHANGED tpVars
  PROVE  FlowsInv'
<1>1. /\ stage[s] = "write_flows" /\ "write_flows" \in AfterRun
      /\ now' = now /\ m_schedule' = m_schedule /\ servers' = servers
      /\ pending' = pending /\ m_apps' = m_apps
  BY DEF WriteFlowResults, AfterRun
<1>2. /\ FlowsOf(s) /\ FlowDomains /\ Constructed(s) /\ StartedInOrder(s)
      /\ Len(m_apps[s]) = Len(m_schedule[s])
      /\ now[s] \in 0 .. EndTime /\ m_apps[s] \in Seq(Clients)
  BY <1>1 DEF FlowsInv, FlowsOf
<1>3. Len(m_apps[s]) >= Len(m_schedule[s])
  BY <1>2, OwnSchedule
<1>4. /\ stage' = [stage EXCEPT ![s] = "write_net_device"]
      /\ rows' = [rows EXCEPT ![s] = [i \in DOMAIN m_schedule[s] |->
                                       [entry |-> m_schedule[s][i], app |-> m_apps[s][i]]]]
  BY <1>3 DEF WriteFlowResults, MainContinues
<1>5. /\ stage'[s] = "write_net_device"
      /\ rows'[s] = [i \in DOMAIN m_schedule[s] |->
                       [entry |-> m_schedule[s][i], app |-> m_apps[s][i]]]
      /\ DOMAIN stage' = Processes /\ DOMAIN rows' = Processes
      /\ \A t \in Processes \ {s} : stage'[t] = stage[t] /\ rows'[t] = rows[t]
  BY <1>2, <1>4 DEF FlowDomains
<1>6. Constructed(s)' /\ StartedInOrder(s)' /\ Clients' = Clients /\ tpc' = tpc
  BY <1>1, <1>2, ConstructedStays, StartedStays DEF Clients, tpVars
<1>7. "write_net_device" \in AfterRun /\ "write_net_device" \notin BeforeFlows \cup {"running"}
  BY DEF AfterRun, BeforeFlows
<1>8. FlowsOf(s)'
  BY <1>1, <1>2, <1>5, <1>6, <1>7 DEF FlowsOf
<1>9. FlowDomains'
  BY <1>1, <1>2, <1>5 DEF FlowDomains, Processes
<1> QED BY <1>1, <1>5, <1>8, <1>9, OneSystem

LEMMA StartNextFlowKeepsFlows ==
  ASSUME TopologyInv, FlowsInv, NEW s \in Processes, tpc = "done",
         StartNextFlow(s), UNCHANGED tpVars
  PROVE  FlowsInv'
<1> DEFINE k == Len(m_apps[s])
           n == Len(m_schedule[s])
<1>1. PICK event \in pending[s], port \in RemotePorts :
        LET entry == m_schedule[s][event[2]]
            possible == {entry.from, entry.to} \subseteq NodesWithAddress /\ port \in ServerPorts
            client == [id |-> entry.id, from |-> entry.from, to |-> entry.to,
                       size |-> entry.size, port |-> port, startedAt |-> now[s],
                       logged |-> entry.id \in
                         LoggedIds(input.logged, read_tcp_flow_schedule(input.flows))]
        IN /\ stage[s] = "running" /\ event[1] = now[s]
           /\ \/ ~possible /\ MainContinues(s, "aborted") /\ UNCHANGED fsVars
              \/ /\ possible
                 /\ m_apps' = [m_apps EXCEPT ![s] = Append(@, client)]
                 /\ pending' = [pending EXCEPT ![s] = (@ \ {event}) \cup NextEvent(s, event[2])]
                 /\ UNCHANGED <<stage, m_schedule, servers, rows>>
           /\ UNCHANGED now
  BY DEF StartNextFlow
<1>2. stage[s] = "running" /\ event[1] = now[s] /\ now' = now
  BY <1>1
<1>3. /\ FlowsOf(s) /\ FlowDomains /\ Constructed(s) /\ StartedInOrder(s)
      /\ now[s] \in 0 .. EndTime /\ m_apps[s] \in Seq(Clients)
  BY <1>2 DEF FlowsInv, FlowsOf
<1>4. /\ k \in Nat /\ n \in Nat /\ k < n
      /\ event = <<m_schedule[s][k + 1].start, k + 1>>
      /\ pending[s] = {event} /\ k + 1 \in 1 .. n
  BY <1>3, OwnSchedule DEF StartedInOrder
<1>5. ASSUME MainContinues(s, "aborted"), UNCHANGED fsVars PROVE FlowsInv'
  BY <1>2, <1>5, MainGoesOn
<1> DEFINE entry == m_schedule[s][k + 1]
           logged == entry.id \in LoggedIds(input.logged, read_tcp_flow_schedule(input.flows))
<1>6. ASSUME {entry.from, entry.to} \subseteq NodesWithAddress, port \in ServerPorts,
             NEW client,
             client = [id |-> entry.id, from |-> entry.from, to |-> entry.to,
                       size |-> entry.size, port |-> port, startedAt |-> now[s],
                       logged |-> logged],
             m_apps' = [m_apps EXCEPT ![s] = Append(@, client)],
             pending' = [pending EXCEPT ![s] = (@ \ {event}) \cup NextEvent(s, k + 1)],
             UNCHANGED <<stage, m_schedule, servers, rows>>
      PROVE  FlowsInv'
  <2>1. /\ m_apps'[s] = Append(m_apps[s], client) /\ pending'[s] = NextEvent(s, k + 1)
        /\ DOMAIN m_apps' = Processes /\ DOMAIN pending' = Processes
        /\ \A t \in Processes \ {s} : m_apps'[t] = m_apps[t] /\ pending'[t] = pending[t]
    BY <1>3, <1>4, <1>6 DEF FlowDomains
  <2>2. stage' = stage /\ m_schedule' = m_schedule /\ servers' = servers /\ rows' = rows
    BY <1>6
  <2>3. PICK i \in OwnFlows(s) : entry = Schedule[i]
    BY <1>3, <1>4, OwnSchedule
  <2>4. m_schedule[s] # <<>>
    BY <1>4
  <2>5. Schedule # Error /\ input \in Inputs /\ i \in DOMAIN Schedule
    BY <1>3, <2>4, OwnSchedule DEF TopologyInv, OwnFlows
  <2>6. /\ entry.id = i - 1 /\ i \in Nat \ {0}
        /\ entry.from \in Nat /\ entry.to \in Nat /\ entry.size \in Nat /\ entry.start \in Nat
    BY <2>3, <2>5, ScheduleType
  <2>7. entry.id \in Nat /\ now[s] \in Nat /\ logged \in BOOLEAN
    BY <1>3, <2>6
  <2>8. client \in Clients
    BY <1>6, <2>6, <2>7 DEF Clients
  <2>9. /\ m_apps'[s] \in Seq(Clients) /\ Len(m_apps'[s]) = k + 1
        /\ m_apps'[s][k + 1] = client
        /\ \A j \in 1 .. k : m_apps'[s][j] = m_apps[s][j]
    BY <1>3, <2>1, <2>8
  <2>10. now[s] = entry.start
    BY <1>2, <1>4
  <2>11. IsClientOf(client, entry)
    BY <1>6, <2>10 DEF IsClientOf
  <2>12. \A j \in 1 .. k + 1 : IsClientOf(m_apps'[s][j], m_schedule[s][j])
    <3>1. ASSUME NEW j \in 1 .. k + 1 PROVE IsClientOf(m_apps'[s][j], m_schedule[s][j])
      <4>1. CASE j = k + 1
        BY <2>9, <2>11, <4>1
      <4>2. CASE j \in 1 .. k
        BY <1>3, <2>9, <4>2 DEF StartedInOrder
      <4> QED BY <1>4, <4>1, <4>2
    <3> QED BY <3>1
  <2>13. pending'[s] = IF k + 1 < n THEN {<<m_schedule[s][k + 2].start, k + 2>>} ELSE {}
    <3>1. CASE k + 1 < n
      <4>1. k + 2 \in 1 .. n /\ (k + 1) + 1 = k + 2
        BY <1>4, <3>1
      <4>2. PICK m \in OwnFlows(s) : m_schedule[s][k + 2] = Schedule[m]
        BY <1>3, <4>1, OwnSchedule
      <4>3. m_schedule[s][k + 2].start \in Nat
        BY <2>5, <4>2, ScheduleType DEF OwnFlows
      <4>4. now[s] + (m_schedule[s][k + 2].start - now[s]) = m_schedule[s][k + 2].start
        BY <2>7, <4>3
      <4> QED BY <2>1, <3>1, <4>1, <4>4 DEF NextEvent
    <3>2. CASE ~(k + 1 < n)
      BY <2>1, <3>2 DEF NextEvent
    <3> QED BY <3>1, <3>2
  <2>14. \A app, e : IsClientOf(app, e)' <=> IsClientOf(app, e)
    BY ScheduleStays DEF IsClientOf
  <2>15. StartedInOrder(s)'
    BY <1>4, <2>2, <2>9, <2>12, <2>13, <2>14 DEF StartedInOrder
  <2>16. NextIsAhead(s)'
    <3>1. ASSUME k + 1 < n PROVE now[s] <= m_schedule[s][k + 2].start
      <4>1. k + 2 \in 1 .. n /\ k + 1 < k + 2
        BY <1>4, <3>1
      <4> QED BY <1>3, <1>4, <2>10, <4>1, OwnSchedule
    <3> QED BY <1>2, <2>13, <3>1 DEF NextIsAhead
  <2>17. Constructed(s)' /\ Clients' = Clients /\ tpc' = tpc
    BY <1>3, <2>2, ConstructedStays DEF Clients, tpVars
  <2>18. "running" \notin BeforeFlows \cup AfterRun \cup AfterFlows
    BY DEF BeforeFlows, AfterRun, AfterFlows
  <2>19. FlowsOf(s)'
    BY <1>2, <1>3, <2>2, <2>9, <2>15, <2>16, <2>17, <2>18 DEF FlowsOf
  <2>20. FlowDomains'
    BY <1>2, <1>3, <2>1, <2>2 DEF FlowDomains, Processes
  <2> QED BY <1>2, <2>1, <2>2, <2>19, <2>20, OneSystem
<1>7. event[2] = k + 1
  BY <1>4
<1> QED BY <1>1, <1>5, <1>6, <1>7

LEMMA SystemsAreProcesses ==
  /\ Systems \subseteq Processes /\ 0 \in Processes
  /\ ~input.distributed.enabled => Systems = {0}
  /\ input.distributed.enabled => Systems = 0 .. MpiSize - 1
BY MpiAssumption DEF Systems, SystemsOf, Processes

LEMMA FlowsInit == Init => FlowsInv
<1> SUFFICES ASSUME Init PROVE FlowsInv
  OBVIOUS
<1>1. /\ now = [s \in Processes |-> 0]
      /\ stage = [s \in Processes |-> "track_net_device"]
      /\ m_schedule = [s \in Processes |-> <<>>] /\ servers = [s \in Processes |-> {}]
      /\ pending = [s \in Processes |-> {}] /\ m_apps = [s \in Processes |-> <<>>]
      /\ rows = [s \in Processes |-> <<>>]
  BY DEF Init, SimInit, FsInit
<1>2. FlowDomains
  BY <1>1 DEF FlowDomains
<1>3. ASSUME NEW s \in Processes PROVE FlowsOf(s)
  <2>1. /\ now[s] = 0 /\ stage[s] = "track_net_device" /\ m_schedule[s] = <<>>
        /\ pending[s] = {} /\ m_apps[s] = <<>>
    BY <1>1
  <2>2. now[s] \in 0 .. EndTime /\ m_apps[s] \in Seq(Clients)
    BY <2>1, EndAssumption
  <2>3. /\ "track_net_device" \in BeforeFlows
        /\ "track_net_device" \notin {"running"} \cup AfterRun \cup AfterFlows
    BY DEF BeforeFlows, AfterRun, AfterFlows
  <2> QED BY <2>1, <2>2, <2>3 DEF FlowsOf
<1> QED BY <1>2, <1>3 DEF FlowsInv

LEMMA FlowsUnchanged ==
  ASSUME FlowsInv, UNCHANGED vars
  PROVE  FlowsInv'
<1>1. /\ UNCHANGED tpVars
      /\ now' = now /\ stage' = stage /\ m_schedule' = m_schedule /\ servers' = servers
      /\ pending' = pending /\ m_apps' = m_apps /\ rows' = rows
  BY DEF vars, simVars, fsVars
<1>2. FlowDomains'
  BY <1>1 DEF FlowsInv, FlowDomains, Processes
<1>3. ASSUME NEW s \in Processes PROVE FlowsOf(s)'
  BY <1>1, FlowsStay DEF FlowsInv
<1> QED BY <1>2, <1>3 DEF FlowsInv, Processes

LEMMA FlowsStep == TopologyInv /\ FlowsInv /\ [Next]_vars => FlowsInv'
<1>1. ASSUME TopologyInv, FlowsInv, NEW s \in Systems, SystemStep(s) PROVE FlowsInv'
  <2>1. s \in Processes /\ tpc = "done" /\ UNCHANGED tpVars
    BY <1>1, SystemsAreProcesses DEF SystemStep
  <2>2. CASE TrackerStep(s)
    BY <1>1, <2>1, <2>2, TrackerStepKeepsFlows
  <2>3. CASE FlowStep(s)
    BY <1>1, <2>1, <2>3, ConstructFlowSchedulerKeepsFlows, StartNextFlowKeepsFlows,
       WriteFlowResultsKeepsFlows DEF FlowStep
  <2>4. CASE Tick(s)
    BY <1>1, <2>1, <2>4, TickKeepsFlows
  <2> QED BY <1>1, <2>2, <2>3, <2>4 DEF SystemStep
<1> QED BY <1>1, TopologyStepKeepsFlows, FlowsUnchanged DEF Next

\* The inductive invariant of the flow schedulers: the flows started are the
\* first ones of the own schedule, the next one is the only event, it is not
\* late, and none is left when the results are written.
THEOREM FlowsInvariant == Spec => []FlowsInv
<1>1. Init => TopologyInv /\ FlowsInv
  BY TopologyInit, FlowsInit
<1>2. TopologyInv /\ FlowsInv /\ [Next]_vars => TopologyInv' /\ FlowsInv'
  BY TopologyStep, FlowsStep
<1> QED BY <1>1, <1>2, PTL DEF Spec

\* What is in the rows of a system that is done.
LEMMA RowsOfSystem ==
  ASSUME TopologyInv, FlowsInv, input.scheduler, NEW s \in Processes, stage[s] = "over"
  PROVE  LET order == OwnOrder(s)
             n == Cardinality(OwnFlows(s))
         IN /\ Schedule # Error /\ tpc = "done" /\ n \in Nat /\ n <= Len(input.flows)
            /\ assignment # NotDistributed =>
                 \A i \in DOMAIN Schedule : HasSystem(assignment, Schedule[i].from)
            /\ servers[s] = ServersOf(s)
            /\ order \in [1 .. n -> OwnFlows(s)]
            /\ \A i \in OwnFlows(s) : \E k \in 1 .. n : order[k] = i
            /\ \A k, l \in 1 .. n : k < l => order[k] < order[l]
            /\ DOMAIN rows[s] = 1 .. n
            /\ \A k \in 1 .. n :
                 /\ rows[s][k].entry = Schedule[order[k]]
                 /\ IsClientOf(rows[s][k].app, rows[s][k].entry)
                 /\ rows[s][k].app.port \in ServerPorts
<1> DEFINE order == OwnOrder(s)
           n == Cardinality(OwnFlows(s))
<1>1. FlowsOf(s) /\ "over" \in AfterRun /\ "over" \in AfterFlows /\ "over" # "track_net_device"
  BY DEF FlowsInv, AfterRun, AfterFlows
<1>2. /\ Constructed(s) /\ StartedInOrder(s) /\ tpc = "done" /\ m_apps[s] \in Seq(Clients)
      /\ Len(m_apps[s]) = Len(m_schedule[s])
      /\ rows[s] = [i \in DOMAIN m_schedule[s] |->
                      [entry |-> m_schedule[s][i], app |-> m_apps[s][i]]]
  BY <1>1 DEF FlowsOf
<1>3. /\ Schedule # Error /\ input \in Inputs
      /\ assignment # NotDistributed =>
           \A i \in DOMAIN Schedule : HasSystem(assignment, Schedule[i].from)
      /\ m_schedule[s] = StartingIn(s, Schedule) /\ servers[s] = ServersOf(s)
  BY <1>2 DEF Constructed, TopologyInv
<1>4. /\ n \in Nat /\ n <= Len(input.flows)
      /\ order \in [1 .. n -> OwnFlows(s)]
      /\ \A i \in OwnFlows(s) : \E k \in 1 .. n : order[k] = i
      /\ \A k, l \in 1 .. n : k < l => order[k] < order[l]
      /\ m_schedule[s] = [k \in 1 .. n |-> Schedule[order[k]]]
  BY <1>3, OwnFlowsInOrder
<1> HIDE DEF n, order
<1>5. DOMAIN m_schedule[s] = 1 .. n /\ Len(m_schedule[s]) = n
  BY <1>4
<1>6. ASSUME NEW k \in 1 .. n
      PROVE  /\ rows[s][k].entry = Schedule[order[k]]
             /\ IsClientOf(rows[s][k].app, rows[s][k].entry)
             /\ rows[s][k].app.port \in ServerPorts
  <2>1. /\ rows[s][k].entry = m_schedule[s][k] /\ rows[s][k].app = m_apps[s][k]
        /\ m_schedule[s][k] = Schedule[order[k]]
    BY <1>2, <1>4, <1>5
  <2>2. IsClientOf(m_apps[s][k], m_schedule[s][k])
    BY <1>2, <1>5 DEF StartedInOrder
  <2>3. m_apps[s][k] \in Clients
    BY <1>2, <1>5, ElementOfSeq
  <2>4. m_apps[s][k].port \in ServerPorts
    BY <2>3 DEF Clients
  <2> QED BY <2>1, <2>2, <2>4
<1>7. DOMAIN rows[s] = 1 .. n
  BY <1>2, <1>5
<1> QED BY <1>2, <1>3, <1>4, <1>6, <1>7 DEF n, order

LEMMA SomeSystem ==
  ASSUME TopologyInv, tpc = "done", NEW n,
         assignment # NotDistributed => HasSystem(assignment, n)
  PROVE  \E s \in Systems : IsMine(assignment, s, n)
<1>1. CASE assignment = NotDistributed
  <2>1. 0 \in Systems
    BY SystemsAreProcesses, MpiAssumption
  <2> QED BY <1>1, <2>1 DEF IsMine
<1>2. CASE assignment # NotDistributed
  <2>1. input \in Inputs /\ assignment = ConfigureSimulation(input.distributed)
        /\ assignment # Error
    BY DEF TopologyInv
  <2>2. /\ assignment \in Seq(0 .. MpiSize - 1)
        /\ ~input.distributed.enabled => assignment = NotDistributed
    BY <2>1, AssignmentType
  <2>3. n + 1 \in 1 .. Len(assignment)
    BY <1>2, <2>2 DEF HasSystem
  <2> DEFINE k == n + 1
  <2> HIDE DEF k
  <2>4. assignment[k] \in 0 .. MpiSize - 1
    BY <2>2, <2>3, ElementOfSeq DEF k
  <2>5. assignment[k] \in Systems
    BY <1>2, <2>2, <2>4, SystemsAreProcesses
  <2> QED BY <2>5 DEF IsMine, IsNodeAssignedToThisSystem, k
<1> QED BY <1>1, <1>2

LEMMA OnlySystem ==
  ASSUME TopologyInv, tpc = "done", NEW n \in 0 .. graph.nodes - 1,
         NEW s \in Systems, NEW t \in Systems,
         IsMine(assignment, s, n), IsMine(assignment, t, n)
  PROVE  s = t
<1>1. CASE ~input.distributed.enabled
  BY <1>1, SystemsAreProcesses
<1>2. CASE input.distributed.enabled
  <2>1. WellFormed(graph)
    BY DEF TopologyInv
  <2>2. n + 1 \in DOMAIN assignment
    BY <1>2, <2>1, NodesHaveSystems DEF HasSystem
  <2>3. assignment # NotDistributed
    BY <2>2 DEF NotDistributed
  <2> QED BY <2>3 DEF IsMine, IsNodeAssignedToThisSystem
<1> QED BY <1>1, <1>2

\* Whatever the schedule and wherever its nodes are: no system fails to write,
\* and if all are done, each flow was run by one client, which one row is about.
THEOREM FlowsRunOnce == Spec => []EveryFlowRunsOnce
<1>1. TopologyInv /\ FlowsInv => EveryFlowRunsOnce
  <2> SUFFICES ASSUME TopologyInv, FlowsInv PROVE EveryFlowRunsOnce
    OBVIOUS
  <2>1. ASSUME NEW s \in Systems PROVE stage[s] # "threw"
    <3>1. FlowsOf(s)
      BY SystemsAreProcesses DEF FlowsInv
    <3> QED BY <3>1 DEF FlowsOf, BeforeFlows, AfterRun
  <2>2. ASSUME input.scheduler, \A s \in Systems : stage[s] = "over",
               NEW i \in DOMAIN input.flows
        PROVE  LET flow == Entry(input.flows[i])
                   RowsOfFlow == {r \in Systems \X DOMAIN input.flows :
                                    /\ r[2] \in DOMAIN rows[r[1]]
                                    /\ rows[r[1]][r[2]].entry.id = flow.id}
               IN /\ Cardinality(RowsOfFlow) = 1
                  /\ \A r \in RowsOfFlow :
                       LET app == rows[r[1]][r[2]].app
                       IN /\ app.id = flow.id /\ app.size = flow.size
                          /\ <<app.from, app.to>> = <<flow.from, flow.to>>
                          /\ app.startedAt = flow.start
                          /\ \E t \in Systems : <<flow.to, app.port>> \in servers[t]
                          /\ IsMine(assignment, r[1], flow.from)
    <3> DEFINE flow == Entry(input.flows[i])
               n(s) == Cardinality(OwnFlows(s))
    <3>1. 0 \in Systems /\ Systems \subseteq Processes
      BY SystemsAreProcesses, MpiAssumption
    <3>2. /\ Schedule # Error /\ tpc = "done" /\ input \in Inputs /\ WellFormed(graph)
          /\ assignment # NotDistributed =>
               \A j \in DOMAIN Schedule : HasSystem(assignment, Schedule[j].from)
      BY <2>2, <3>1, RowsOfSystem DEF TopologyInv
    <3>3. /\ DOMAIN input.flows = 1 .. Len(input.flows) /\ Len(input.flows) \in Nat
          /\ DOMAIN Schedule = 1 .. Len(input.flows)
          /\ \A j \in DOMAIN Schedule : Schedule[j].id = j - 1
          /\ flow = Schedule[i] /\ IsValidEndpoint(flow.to)
      BY <3>2, ScheduleType
    <3> HIDE DEF flow
    <3>4. ASSUME NEW s \in Systems, NEW k \in 1 .. n(s)
          PROVE  /\ OwnOrder(s)[k] \in DOMAIN Schedule /\ k \in DOMAIN rows[s]
                 /\ IsMine(assignment, s, Schedule[OwnOrder(s)[k]].from)
                 /\ rows[s][k].entry = Schedule[OwnOrder(s)[k]]
                 /\ rows[s][k].entry.id = flow.id <=> OwnOrder(s)[k] = i
      <4>1. /\ OwnOrder(s) \in [1 .. n(s) -> OwnFlows(s)]
            /\ DOMAIN rows[s] = 1 .. n(s)
            /\ rows[s][k].entry = Schedule[OwnOrder(s)[k]]
        BY <2>2, <3>1, RowsOfSystem
      <4>2. OwnOrder(s)[k] \in OwnFlows(s)
        BY <4>1
      <4> DEFINE j == OwnOrder(s)[k]
      <4>3. j \in DOMAIN Schedule /\ IsMine(assignment, s, Schedule[j].from)
        BY <4>2 DEF OwnFlows
      <4> HIDE DEF j
      <4>4. Schedule[j].id = flow.id <=> j = i
        BY <3>3, <4>3
      <4> QED BY <4>1, <4>3, <4>4 DEF j
    <3>5. PICK s \in Systems : IsMine(assignment, s, flow.from)
      BY <3>2, <3>3, SomeSystem
    <3>6. i \in OwnFlows(s)
      BY <3>3, <3>5 DEF OwnFlows
    <3>7. /\ n(s) \in Nat /\ n(s) <= Len(input.flows)
          /\ \A j \in OwnFlows(s) : \E k \in 1 .. n(s) : OwnOrder(s)[k] = j
          /\ \A k, l \in 1 .. n(s) : k < l => OwnOrder(s)[k] < OwnOrder(s)[l]
      BY <2>2, <3>1, RowsOfSystem
    <3>8. PICK k \in 1 .. n(s) : OwnOrder(s)[k] = i
      BY <3>6, <3>7
    <3> DEFINE app == rows[s][k].app
    <3>9. /\ rows[s][k].entry = flow /\ IsClientOf(app, flow) /\ app.port \in ServerPorts
      BY <2>2, <3>1, <3>3, <3>8, RowsOfSystem
    <3>10. /\ flow.from \in NodesWithAddress /\ flow.to \in NodesWithAddress
           /\ flow.from \in 0 .. graph.nodes - 1 /\ flow.to \in 0 .. graph.nodes - 1
      BY <3>9 DEF IsClientOf, NodesWithAddress
    <3> DEFINE RowsOfFlow == {r \in Systems \X DOMAIN input.flows :
                                /\ r[2] \in DOMAIN rows[r[1]]
                                /\ rows[r[1]][r[2]].entry.id = flow.id}
    <3>11. <<s, k>> \in RowsOfFlow
      <4>1. k \in DOMAIN input.flows
        BY <3>3, <3>7
      <4>2. k \in DOMAIN rows[s] /\ rows[s][k].entry.id = flow.id
        BY <3>4, <3>8
      <4> QED BY <4>1, <4>2
    <3>12. ASSUME NEW r \in RowsOfFlow PROVE r = <<s, k>>
      <4>1. PICK t \in Systems, l \in DOMAIN input.flows :
              r = <<t, l>> /\ l \in DOMAIN rows[t] /\ rows[t][l].entry.id = flow.id
        BY <3>12
      <4>2. DOMAIN rows[t] = 1 .. n(t)
        BY <2>2, <3>1, RowsOfSystem
      <4>3. OwnOrder(t)[l] = i /\ IsMine(assignment, t, flow.from)
        BY <3>3, <3>4, <4>1, <4>2
      <4>4. t = s
        BY <3>2, <3>5, <3>10, <4>3, OnlySystem
      <4>5. l \in 1 .. n(s) /\ OwnOrder(s)[l] = i
        BY <4>1, <4>2, <4>3, <4>4
      <4>6. ~(OwnOrder(s)[k] < OwnOrder(s)[l]) /\ ~(OwnOrder(s)[l] < OwnOrder(s)[k])
        BY <3>3, <3>8, <4>5
      <4>7. l = k
        BY <3>7, <4>5, <4>6
      <4> QED BY <4>1, <4>4, <4>7
    <3>13. RowsOfFlow = {<<s, k>>}
      BY <3>11, <3>12
    <3>14. Cardinality(RowsOfFlow) = 1
      BY <3>13, FS_Singleton
    <3>15. \E t \in Systems : <<flow.to, app.port>> \in servers[t]
      <4>1. assignment # NotDistributed => HasSystem(assignment, flow.to)
        <5>1. ~input.distributed.enabled => assignment = NotDistributed
          BY <3>2, NodesHaveSystems
        <5>2. input.distributed.enabled => HasSystem(assignment, flow.to)
          BY <3>2, <3>10, NodesHaveSystems
        <5> QED BY <5>1, <5>2
      <4>2. PICK t \in Systems : IsMine(assignment, t, flow.to)
        BY <3>2, <4>1, SomeSystem
      <4>3. flow.to \in GetEndpoints
        BY <3>3, <3>10 DEF IsValidEndpoint, GetEndpoints
      <4>4. servers[t] = ServersOf(t)
        BY <2>2, <3>1, RowsOfSystem
      <4> QED BY <3>9, <4>2, <4>3, <4>4 DEF ServersOf
    <3>16. /\ app.id = flow.id /\ app.size = flow.size
           /\ <<app.from, app.to>> = <<flow.from, flow.to>>
           /\ app.startedAt = flow.start
      BY <3>9 DEF IsClientOf
    <3> HIDE DEF RowsOfFlow
    <3>17. ASSUME NEW r \in RowsOfFlow
           PROVE  r[1] = s /\ r[2] = k
      BY <3>13
    <3> QED BY <3>5, <3>14, <3>15, <3>16, <3>17 DEF RowsOfFlow, flow
  <2> QED BY <2>1, <2>2 DEF EveryFlowRunsOnce
<1> QED BY <1>1, TopologyInvariant, FlowsInvariant, PTL

----------------------------------------------------------------------------
(* What a system is refused for, and what it dies of *)

\* The installation has given a device to the ends of the edges, and to no
\* other node.
LEMMA AddressesAreOfLinks ==
  ASSUME TopologyInv, tpc = "done", NEW n
  PROVE  n \in NodesWithAddress <=> HasLink(n)
<1>1. WellFormed(graph) /\ AtTheirEnds /\ WithTheirIndices /\ Installed = graph.edges
  BY DEF TopologyInv, Installed
<1>2. ASSUME n \in NodesWithAddress PROVE HasLink(n)
  <2>1. n \in 0 .. graph.nodes - 1 /\ devices[n] # <<>>
    BY <1>2 DEF NodesWithAddress
  <2>2. devices[n] \in Seq({Made(link) : link \in Links(graph.edges)})
    BY <1>1, <2>1 DEF AtTheirEnds
  <2>3. 1 \in DOMAIN devices[n] /\ devices[n][1] \in {Made(link) : link \in Links(graph.edges)}
    BY <2>1, <2>2
  <2>4. PICK link \in Links(graph.edges) : devices[n][1] = Made(link)
    BY <2>3
  <2>5. link[1] = n
    <3>1. devices[n][1].link = link
      BY <2>4 DEF Made
    <3> QED BY <1>1, <2>1, <2>3, <3>1 DEF AtTheirEnds
  <2>6. PICK e \in graph.edges : link = e \/ link = Reversed(e)
    BY DEF Links
  <2>7. n \in {e[1], e[2]}
    BY <2>5, <2>6 DEF Reversed
  <2> QED BY <2>7 DEF HasLink
<1>3. ASSUME HasLink(n) PROVE n \in NodesWithAddress
  <2>1. PICK e \in graph.edges : n \in {e[1], e[2]}
    BY <1>3 DEF HasLink
  <2>2. e[1] \in 0 .. graph.nodes - 1 /\ e[2] \in 0 .. graph.nodes - 1
    BY <1>1, EdgeFacts
  <2>3. \E i : i \in DOMAIN devices[n]
    BY <1>1, <2>1 DEF WithTheirIndices
  <2>4. DOMAIN << >> = {}
    OBVIOUS
  <2> QED BY <2>1, <2>2, <2>3, <2>4 DEF NodesWithAddress
<1> QED BY <1>2, <1>3

\* In a distributed run exactly the nodes there are have a system.
LEMMA SystemsAreOfNodes ==
  ASSUME TopologyInv, tpc = "done", assignment # NotDistributed, NEW n \in Nat
  PROVE  HasSystem(assignment, n) <=> n \in 0 .. graph.nodes - 1
<1>1. /\ WellFormed(graph) /\ input \in Inputs
      /\ assignment = ConfigureSimulation(input.distributed) /\ assignment # Error
  BY DEF TopologyInv
<1>2. assignment \in Seq(0 .. MpiSize - 1) /\ input.distributed.enabled
  BY <1>1, AssignmentType, InputsAssumption
<1>3. Len(assignment) = graph.nodes /\ graph.nodes \in Nat
  BY <1>1, <1>2 DEF WellFormed
<1>4. DOMAIN assignment = 1 .. graph.nodes
  BY <1>2, <1>3
<1> QED BY <1>3, <1>4 DEF HasSystem

\* What is found behind a link is what the file says of it.
LEMMA QueueBehindLink ==
  ASSUME TopologyInv, tpc = "done", NEW kind, NEW link
  PROVE  HasQueue(kind, link) <=>
           /\ link \in Links(graph.edges)
           /\ kind = "qdisc" =>
                ParseTcQdiscValue(SaidOf("link_interface_traffic_control_qdisc", link)) # NoQdisc
<1>1. CASE link \in Links(graph.edges)
  <2> DEFINE e == EdgeOf(link)
             d == sending[link]
  <2>1. /\ WellFormed(graph) /\ WithTheirIndices /\ Installed = graph.edges
    BY DEF TopologyInv, Installed
  <2>2. e \in DOMAIN interfaces /\ link \in {e, Reversed(e)}
    BY <1>1, <2>1, LinkFacts DEF WithTheirIndices
  <2> HIDE DEF e
  <2>3. devices[d[1]][d[2]] = Made(link) /\ AsSaid(mapping)
    BY <2>2, InstalledLink
  <2>4. Made(link).qdisc = mapping.qdisc[link]
    BY DEF Made, Qdisc, InstallQdisc, AssignAddress, UninstallQdisc
  <2>5. mapping.qdisc[link] =
          ParseTcQdiscValue(SaidOf("link_interface_traffic_control_qdisc", link))
    BY <1>1, <2>3 DEF AsSaid
  <2>6. devices[d[1]][d[2]].qdisc =
          ParseTcQdiscValue(SaidOf("link_interface_traffic_control_qdisc", link))
    BY <2>3, <2>4, <2>5
  <2> QED BY <1>1, <2>6 DEF HasQueue, GetLinksSet, GetSendingNetDeviceForLink
<1>2. CASE link \notin Links(graph.edges)
  BY <1>2 DEF HasQueue, GetLinksSet
<1> QED BY <1>1, <1>2

LEMMA TrackingIsRefused ==
  ASSUME TopologyInv, tpc = "done", NEW kind, NEW s
  PROVE  CannotTrack(kind, s) <=>
           LET links == EnabledFor(kind)
           IN /\ input.tracking[kind].enabled
              /\ ~(/\ links # Error
                   /\ assignment # NotDistributed =>
                        \A link \in links : HasSystem(assignment, link[1])
                   /\ \A link \in LinksFrom(s, links) : HasQueue(kind, link))
<1> DEFINE links == EnabledFor(kind)
           nodes == 0 .. graph.nodes - 1
           Said_(link) == ParseTcQdiscValue(SaidOf("link_interface_traffic_control_qdisc", link))
           Lacks(link) == link \notin Links(graph.edges) \/ (kind = "qdisc" /\ Said_(link) = NoQdisc)
           Bad(link) == (link[1] \in nodes => IsMine(assignment, s, link[1])) /\ Lacks(link)
           Fits == /\ assignment # NotDistributed =>
                        \A link \in links : HasSystem(assignment, link[1])
                   /\ \A link \in LinksFrom(s, links) : HasQueue(kind, link)
<1>1. WellFormed(graph)
  BY DEF TopologyInv
<1>2. ASSUME NEW link \in Links(graph.edges) PROVE link[1] \in nodes /\ link[1] \in Nat
  <2>1. link[1] \in 0 .. graph.nodes - 1
    BY <1>1, LinkFacts
  <2> QED BY <1>1, <2>1 DEF WellFormed
<1>3. ASSUME links # Error, NEW link \in links PROVE link[1] \in Nat
  <2>1. CASE Plain(input.tracking[kind].links) = "all"
    BY <1>2, <1>3, <2>1 DEF EnabledFor, GetLinksSet
  <2>2. CASE Plain(input.tracking[kind].links) # "all"
    <3>1. PICK t : link = Pair(t) /\ Pair(t) # Error
      BY <1>3, <2>2 DEF EnabledFor, parse_set_directed_pair_positive_int64
    <3> QED BY <3>1, PairType
  <2> QED BY <2>1, <2>2
<1>4. \A link : HasQueue(kind, link) <=> ~Lacks(link)
  BY QueueBehindLink
<1> HIDE DEF Lacks, nodes, links
<1>5. ASSUME links # Error, NEW link \in links, Bad(link) PROVE ~Fits
  <2>1. CASE link[1] \in nodes \/ assignment = NotDistributed
    <3>1. IsMine(assignment, s, link[1]) /\ Lacks(link)
      BY <1>5, <2>1 DEF IsMine
    <3>2. link \in LinksFrom(s, links) /\ ~HasQueue(kind, link)
      BY <1>4, <1>5, <3>1 DEF LinksFrom
    <3> QED BY <3>2
  <2>2. CASE link[1] \notin nodes /\ assignment # NotDistributed
    <3>1. ~HasSystem(assignment, link[1])
      BY <1>3, <1>5, <2>2, SystemsAreOfNodes DEF nodes
    <3> QED BY <1>5, <2>2, <3>1
  <2> QED BY <2>1, <2>2
<1>6. ASSUME links # Error, ~Fits PROVE \E link \in links : Bad(link)
  <2>1. CASE \E link \in LinksFrom(s, links) : ~HasQueue(kind, link)
    BY <1>4, <2>1 DEF LinksFrom
  <2>2. CASE assignment # NotDistributed /\ \E link \in links : ~HasSystem(assignment, link[1])
    <3>1. PICK link \in links : ~HasSystem(assignment, link[1])
      BY <2>2
    <3>2. link[1] \notin nodes
      BY <1>3, <1>6, <2>2, <3>1, SystemsAreOfNodes DEF nodes
    <3>3. Lacks(link)
      BY <1>2, <3>2 DEF Lacks
    <3> QED BY <3>2, <3>3
  <2> QED BY <1>6, <2>1, <2>2
<1>7. CannotTrack(kind, s) <=>
        input.tracking[kind].enabled /\ (links = Error \/ \E link \in links : Bad(link))
  BY DEF CannotTrack, links, Lacks, nodes
<1> HIDE DEF Bad
<1>8. CannotTrack(kind, s) <=> input.tracking[kind].enabled /\ ~(links # Error /\ Fits)
  BY <1>5, <1>6, <1>7
<1> QED BY <1>8 DEF links

LEMMA SchedulingIsRefused ==
  ASSUME TopologyInv, tpc = "done", NEW s
  PROVE  CannotSchedule(s) <=>
           /\ input.scheduler
           /\ ~(/\ Schedule # Error
                /\ LoggedIds(input.logged, Schedule) # Error
                /\ assignment # NotDistributed =>
                     \A i \in DOMAIN Schedule : HasSystem(assignment, Schedule[i].from)
                /\ \A server \in ServersOf(s) : server[1] \in NodesWithAddress)
<1>1. (\E server \in ServersOf(s) : server[1] \notin NodesWithAddress) <=>
        ServerPorts # {} /\ \E n \in GetEndpoints : IsMine(assignment, s, n) /\ ~HasLink(n)
  <2>1. ASSUME NEW server \in ServersOf(s), server[1] \notin NodesWithAddress
        PROVE  /\ ServerPorts # {}
               /\ \E n \in GetEndpoints : IsMine(assignment, s, n) /\ ~HasLink(n)
    BY <2>1, AddressesAreOfLinks DEF ServersOf
  <2>2. ASSUME ServerPorts # {}, NEW n \in GetEndpoints, IsMine(assignment, s, n), ~HasLink(n)
        PROVE  \E server \in ServersOf(s) : server[1] \notin NodesWithAddress
    <3>1. PICK port \in ServerPorts : TRUE
      BY <2>2
    <3>2. <<n, port>> \in ServersOf(s)
      BY <2>2 DEF ServersOf
    <3>3. <<n, port>>[1] \notin NodesWithAddress
      BY <2>2, AddressesAreOfLinks
    <3> QED BY <3>2, <3>3
  <2> QED BY <2>1, <2>2
<1>2. ASSUME Schedule # Error, assignment # NotDistributed, NEW i \in DOMAIN Schedule
      PROVE  HasSystem(assignment, Schedule[i].from) <=>
               Schedule[i].from \in 0 .. graph.nodes - 1
  <2>1. Schedule[i].from \in Nat
    BY <1>2, ScheduleType DEF TopologyInv
  <2> QED BY <1>2, <2>1, SystemsAreOfNodes
<1> QED BY <1>1, <1>2 DEF CannotSchedule, Schedule

CannotConstruct(s) == (\E kind \in Kinds : CannotTrack(kind, s)) \/ CannotSchedule(s)

OwnEntries(s) == {flow \in {Entry(input.flows[i]) : i \in DOMAIN input.flows} :
                    IsMine(assignment, s, flow.from)}

\* A flow that is due cannot be started.
Stuck(s) == \/ ~(RemotePorts \subseteq ServerPorts)
            \/ \E flow \in OwnEntries(s) : flow.start = now[s] /\ ~HasPath(flow)

\* The constructors that a system has passed had nothing to object to; the one
\* it has not passed had.
ReasonsOf(s) ==
  /\ stage[s] = "refused" => CannotConstruct(s)
  /\ stage[s] \notin {"track_net_device", "refused"} => ~CannotTrack("net_device", s)
  /\ stage[s] \notin {"track_net_device", "track_qdisc", "refused"} => ~CannotTrack("qdisc", s)
  /\ stage[s] \notin BeforeFlows \cup {"refused"} => ~CannotSchedule(s)
  /\ stage[s] = "aborted" => Stuck(s)

ReasonsInv == \A s \in Processes : ReasonsOf(s)

LEMMA CannotsStay ==
  ASSUME UNCHANGED tpVars, NEW s
  PROVE  /\ \A kind : CannotTrack(kind, s)' <=> CannotTrack(kind, s)
         /\ CannotSchedule(s)' <=> CannotSchedule(s)
         /\ OwnEntries(s)' = OwnEntries(s)
         /\ \A flow : HasPath(flow)' <=> HasPath(flow)
<1>1. /\ input' = input /\ assignment' = assignment /\ graph' = graph
      /\ m_topology_config' = m_topology_config
  BY DEF tpVars
<1>2. \A key, link : SaidOf(key, link)' = SaidOf(key, link)
  BY <1>1 DEF SaidOf
<1>3. \A kind : EnabledFor(kind)' = EnabledFor(kind)
  BY <1>1 DEF EnabledFor, GetLinksSet
<1>4. \A n : HasLink(n)' <=> HasLink(n)
  BY <1>1 DEF HasLink
<1>5. \A kind : CannotTrack(kind, s)' <=> CannotTrack(kind, s)
  BY <1>1, <1>2, <1>3 DEF CannotTrack
<1>6. GetEndpoints' = GetEndpoints
  BY <1>1 DEF GetEndpoints
<1>7. CannotSchedule(s)' <=> CannotSchedule(s)
  BY <1>1, <1>4, <1>6, ScheduleStays DEF CannotSchedule, Schedule
<1>8. OwnEntries(s)' = OwnEntries(s)
  BY <1>1 DEF OwnEntries
<1> QED BY <1>4, <1>5, <1>7, <1>8 DEF HasPath

\* Nothing more is found against a system than what its next step has found.
LEMMA ReasonsStay ==
  ASSUME UNCHANGED tpVars, NEW s, ReasonsOf(s), now'[s] = now[s] \/ stage'[s] # "aborted",
         \/ stage'[s] = stage[s]
         \/ stage'[s] = "refused" /\ CannotConstruct(s)
         \/ stage'[s] = "aborted" /\ Stuck(s) /\ stage[s] = "running"
         \/ /\ stage'[s] = "track_qdisc" /\ stage[s] = "track_net_device"
            /\ ~CannotTrack("net_device", s)
         \/ /\ stage'[s] = "schedule_flows" /\ stage[s] = "track_qdisc"
            /\ ~CannotTrack("qdisc", s)
         \/ stage'[s] = "running" /\ stage[s] = "schedule_flows" /\ ~CannotSchedule(s)
         \/ /\ stage[s] \notin BeforeFlows \cup {"refused", "aborted"}
            /\ stage'[s] \notin BeforeFlows \cup {"refused", "aborted"}
  PROVE  ReasonsOf(s)'
<1>1. /\ \A kind : CannotTrack(kind, s)' <=> CannotTrack(kind, s)
      /\ CannotSchedule(s)' <=> CannotSchedule(s)
      /\ OwnEntries(s)' = OwnEntries(s)
      /\ \A flow : HasPath(flow)' <=> HasPath(flow)
  BY CannotsStay
<1>2. CannotConstruct(s)' <=> CannotConstruct(s)
  BY <1>1 DEF CannotConstruct, Kinds
<1>3. now'[s] = now[s] => (Stuck(s)' <=> Stuck(s))
  BY <1>1 DEF Stuck
<1>4. /\ stage'[s] = "refused" => CannotConstruct(s)
      /\ stage'[s] \notin {"track_net_device", "refused"} => ~CannotTrack("net_device", s)
      /\ stage'[s] \notin {"track_net_device", "track_qdisc", "refused"} =>
           ~CannotTrack("qdisc", s)
      /\ stage'[s] \notin BeforeFlows \cup {"refused"} => ~CannotSchedule(s)
      /\ stage'[s] = "aborted" => Stuck(s)
  BY DEF ReasonsOf, BeforeFlows
<1> QED BY <1>1, <1>2, <1>3, <1>4 DEF ReasonsOf

\* A step of main in system s.
LEMMA ReasonsOfSystem ==
  ASSUME FlowsInv, ReasonsInv, NEW s \in Processes, NEW to, UNCHANGED tpVars,
         MainContinues(s, to), now' = now, ReasonsOf(s)'
  PROVE  ReasonsInv'
<1>1. ASSUME NEW t \in Processes PROVE ReasonsOf(t)'
  <2>1. CASE t = s
    BY <2>1
  <2>2. CASE t # s
    <3>1. stage'[t] = stage[t] /\ now'[t] = now[t] /\ ReasonsOf(t)
      BY <2>2 DEF MainContinues, FlowsInv, FlowDomains, ReasonsInv
    <3> QED BY <3>1, ReasonsStay
  <2> QED BY <2>1, <2>2
<1> QED BY <1>1 DEF ReasonsInv, Processes

LEMMA TrackerStepReasons ==
  ASSUME TopologyInv, FlowsInv, ReasonsInv, NEW s \in Processes, tpc = "done",
         TrackerStep(s), UNCHANGED tpVars
  PROVE  ReasonsInv'
<1>1. ReasonsOf(s) /\ DOMAIN stage = Processes
  BY DEF ReasonsInv, FlowsInv, FlowDomains
<1>2. ASSUME NEW kind \in Kinds, ConstructTracking(kind, s) PROVE ReasonsInv'
  <2>1. PICK to : /\ MainContinues(s, to) /\ now' = now
                  /\ \/ to = "refused" /\ CannotTrack(kind, s)
                     \/ to = StageAfter[kind] /\ ~CannotTrack(kind, s)
                  /\ stage[s] = IF kind = "qdisc" THEN "track_qdisc" ELSE "track_net_device"
    BY <1>2, TrackingIsRefused DEF ConstructTracking
  <2>2. stage'[s] = to /\ now'[s] = now[s]
    BY <1>1, <2>1 DEF MainContinues
  <2>3. CASE to = "refused" /\ CannotTrack(kind, s)
    <3>1. CannotConstruct(s)
      BY <2>3 DEF CannotConstruct
    <3>2. ReasonsOf(s)'
      BY <1>1, <2>2, <2>3, <3>1, ReasonsStay
    <3> QED BY <2>1, <3>2, ReasonsOfSystem
  <2>4. CASE to = StageAfter[kind] /\ ~CannotTrack(kind, s)
    <3>1. \/ to = "track_qdisc" /\ stage[s] = "track_net_device" /\ kind = "net_device"
          \/ to = "schedule_flows" /\ stage[s] = "track_qdisc" /\ kind = "qdisc"
      BY <2>1, <2>4 DEF Kinds, StageAfter
    <3>2. ReasonsOf(s)'
      BY <1>1, <2>2, <2>4, <3>1, ReasonsStay
    <3> QED BY <2>1, <3>2, ReasonsOfSystem
  <2> QED BY <2>1, <2>3, <2>4
<1>3. ASSUME NEW kind \in Kinds, WriteQueueResults(kind, s) PROVE ReasonsInv'
  <2>1. PICK to \in {"over", "write_qdisc"} :
          /\ MainContinues(s, to) /\ now' = now
          /\ stage[s] \in {"write_qdisc", "write_net_device"}
    BY <1>3 DEF WriteQueueResults
  <2>2. stage'[s] = to
    BY <1>1, <2>1 DEF MainContinues
  <2>3. ReasonsOf(s)'
    BY <1>1, <2>1, <2>2, ReasonsStay DEF BeforeFlows
  <2> QED BY <2>1, <2>3, ReasonsOfSystem
<1>4. ASSUME Traffic(s) PROVE ReasonsInv'
  <2>1. now' = now /\ stage' = stage
    BY <1>4 DEF Traffic, QueueBecomes
  <2> QED BY <2>1, ReasonsStay DEF ReasonsInv, Processes
<1> QED BY <1>2, <1>3, <1>4 DEF TrackerStep

LEMMA FlowStepReasons ==
  ASSUME TopologyInv, FlowsInv, ReasonsInv, NEW s \in Processes, tpc = "done",
         FlowStep(s), UNCHANGED tpVars
  PROVE  ReasonsInv'
<1>1. ReasonsOf(s) /\ DOMAIN stage = Processes
  BY DEF ReasonsInv, FlowsInv, FlowDomains
<1>2. ASSUME ConstructFlowScheduler(s) PROVE ReasonsInv'
  <2>1. PICK to : /\ MainContinues(s, to) /\ now' = now /\ stage[s] = "schedule_flows"
                  /\ \/ to = "refused" /\ CannotSchedule(s)
                     \/ to = "running" /\ ~CannotSchedule(s)
    BY <1>2, SchedulingIsRefused DEF ConstructFlowScheduler, Schedule
  <2>2. stage'[s] = to /\ now'[s] = now[s]
    BY <1>1, <2>1 DEF MainContinues
  <2>3. CannotSchedule(s) => CannotConstruct(s)
    BY DEF CannotConstruct
  <2>4. ReasonsOf(s)'
    BY <1>1, <2>1, <2>2, <2>3, ReasonsStay
  <2> QED BY <2>1, <2>4, ReasonsOfSystem
<1>3. ASSUME StartNextFlow(s) PROVE ReasonsInv'
  <2>1. PICK event \in pending[s], port \in RemotePorts :
          LET entry == m_schedule[s][event[2]]
              possible == {entry.from, entry.to} \subseteq NodesWithAddress /\ port \in ServerPorts
          IN /\ stage[s] = "running" /\ event[1] = now[s] /\ now' = now
             /\ (~possible /\ MainContinues(s, "aborted")) \/ stage' = stage
    BY <1>3 DEF StartNextFlow
  <2> DEFINE entry == m_schedule[s][event[2]]
  <2>2. CASE stage' = stage
    BY <2>1, <2>2, ReasonsStay DEF ReasonsInv, Processes
  <2>3. CASE MainContinues(s, "aborted")
              /\ ~({entry.from, entry.to} \subseteq NodesWithAddress /\ port \in ServerPorts)
    <3>1. Constructed(s) /\ StartedInOrder(s)
      BY <2>1 DEF FlowsInv, FlowsOf
    <3> DEFINE k == Len(m_apps[s]) + 1
    <3>2. Len(m_apps[s]) \in Nat
      BY DEF FlowsInv, FlowsOf
    <3>3. /\ k \in 1 .. Len(m_schedule[s]) /\ event = <<m_schedule[s][k].start, k>>
      BY <3>1, <3>2, OwnSchedule DEF StartedInOrder
    <3>4. entry = m_schedule[s][k] /\ entry.start = now[s]
      BY <2>1, <3>3
    <3>5. PICK i \in OwnFlows(s) : entry = Schedule[i]
      BY <3>1, <3>3, <3>4, OwnSchedule
    <3>6. m_schedule[s] # <<>>
      BY <3>3
    <3>7. Schedule # Error /\ input \in Inputs /\ i \in DOMAIN Schedule
      BY <3>1, <3>5, <3>6, OwnSchedule DEF TopologyInv, OwnFlows
    <3>8. entry = Entry(input.flows[i]) /\ i \in DOMAIN input.flows
      BY <3>5, <3>7, ScheduleType
    <3>9. entry \in OwnEntries(s)
      BY <3>5, <3>8 DEF OwnEntries, OwnFlows
    <3> HIDE DEF entry
    <3>10. ~(port \in ServerPorts) \/ ~HasPath(entry)
      BY <2>3, AddressesAreOfLinks DEF HasPath
    <3>11. Stuck(s)
      BY <3>4, <3>9, <3>10 DEF Stuck
    <3>12. stage'[s] = "aborted" /\ now'[s] = now[s]
      BY <1>1, <2>1, <2>3 DEF MainContinues
    <3>13. ReasonsOf(s)'
      BY <1>1, <2>1, <3>11, <3>12, ReasonsStay
    <3> QED BY <2>1, <2>3, <3>13, ReasonsOfSystem
  <2> QED BY <2>1, <2>2, <2>3
<1>4. ASSUME WriteFlowResults(s) PROVE ReasonsInv'
  <2>1. PICK to \in {"write_net_device", "threw"} :
          MainContinues(s, to) /\ now' = now /\ stage[s] = "write_flows"
    BY <1>4 DEF WriteFlowResults
  <2>2. stage'[s] = to
    BY <1>1, <2>1 DEF MainContinues
  <2>3. ReasonsOf(s)'
    BY <1>1, <2>1, <2>2, ReasonsStay DEF BeforeFlows
  <2> QED BY <2>1, <2>3, ReasonsOfSystem
<1> QED BY <1>2, <1>3, <1>4 DEF FlowStep

LEMMA TickReasons ==
  ASSUME FlowsInv, ReasonsInv, NEW s \in Processes, Tick(s), UNCHANGED tpVars
  PROVE  ReasonsInv'
<1>1. ReasonsOf(s) /\ DOMAIN stage = Processes /\ DOMAIN now = Processes
  BY DEF ReasonsInv, FlowsInv, FlowDomains
<1>2. CASE now' = [now EXCEPT ![s] = @ + 1] /\ stage' = stage /\ stage[s] = "running"
  <2>1. ASSUME NEW t \in Processes PROVE ReasonsOf(t)'
    <3>1. /\ stage'[t] = stage[t] /\ ReasonsOf(t)
          /\ now'[t] = now[t] \/ stage'[t] # "aborted"
      BY <1>1, <1>2 DEF ReasonsInv
    <3> QED BY <3>1, ReasonsStay
  <2> QED BY <2>1 DEF ReasonsInv, Processes
<1>3. CASE MainContinues(s, "write_flows") /\ now' = now /\ stage[s] = "running"
  <2>1. stage'[s] = "write_flows"
    BY <1>1, <1>3 DEF MainContinues
  <2>2. ReasonsOf(s)'
    BY <1>1, <1>3, <2>1, ReasonsStay DEF BeforeFlows
  <2> QED BY <1>3, <2>2, ReasonsOfSystem
<1> QED BY <1>2, <1>3 DEF Tick, TimePasses

LEMMA ReasonsStep == TopologyInv /\ FlowsInv /\ ReasonsInv /\ [Next]_vars => ReasonsInv'
<1> SUFFICES ASSUME TopologyInv, FlowsInv, ReasonsInv, [Next]_vars PROVE ReasonsInv'
  OBVIOUS
<1>1. CASE BuildTopology
  <2>1. tpc # "done"
    BY <1>1 DEF BuildTopology, TpNext, Configure, ReadTopologyConfig, ParseTopologyGraph,
                ParseTopologyLinkProperties, SetupNodes, SetupLinks
  <2>2. \A s \in Processes : stage'[s] = "track_net_device"
    BY <1>1, <2>1 DEF BuildTopology, simVars, FlowsInv, FlowsOf
  <2> QED BY <2>2 DEF ReasonsInv, ReasonsOf, BeforeFlows, Processes
<1>2. ASSUME NEW s \in Systems, SystemStep(s) PROVE ReasonsInv'
  <2>1. s \in Processes /\ tpc = "done" /\ UNCHANGED tpVars
    BY <1>2, SystemsAreProcesses DEF SystemStep
  <2> QED BY <1>2, <2>1, TrackerStepReasons, FlowStepReasons, TickReasons DEF SystemStep
<1>3. CASE UNCHANGED vars
  <2>1. UNCHANGED tpVars /\ now' = now /\ stage' = stage
    BY <1>3 DEF vars, simVars
  <2> QED BY <2>1, ReasonsStay DEF ReasonsInv, Processes
<1> QED BY <1>1, <1>2, <1>3 DEF Next

LEMMA ReasonsInit == Init => ReasonsInv
BY DEF Init, SimInit, ReasonsInv, ReasonsOf, BeforeFlows

\* For any topology file, schedule and tracking, over any number of systems: a
\* topology that is accepted is what was announced, and a system is refused, or
\* dies at the start of a flow, exactly for a reason that is in the files.
THEOREM TopologiesAreUsable == Spec => []AcceptedIsUsable
<1>1. Init => TopologyInv /\ FlowsInv /\ ReasonsInv
  BY TopologyInit, FlowsInit, ReasonsInit
<1>2. TopologyInv /\ FlowsInv /\ ReasonsInv /\ [Next]_vars
        => TopologyInv' /\ FlowsInv' /\ ReasonsInv'
  BY TopologyStep, FlowsStep, ReasonsStep
<1>3. TopologyInv /\ FlowsInv /\ ReasonsInv => AcceptedIsUsable
  <2> SUFFICES ASSUME TopologyInv, FlowsInv, ReasonsInv, tpc = "done" PROVE AcceptedIsUsable
    BY DEF AcceptedIsUsable
  <2>1. /\ graph.nodes = Announced("num_nodes")
        /\ Cardinality(graph.edges) = Announced("num_undirected_edges")
    BY DEF TopologyInv, WellFormed
  <2>2. ASSUME NEW s \in Systems
        PROVE  /\ stage[s] \notin BeforeFlows => (stage[s] = "refused" <=> CannotConstruct(s))
               /\ stage[s] = "aborted" => Stuck(s)
               /\ stage[s] = "over" /\ input.scheduler =>
                    \A flow \in OwnEntries(s) : HasPath(flow)
    <3>1. s \in Processes /\ ReasonsOf(s)
      BY SystemsAreProcesses DEF ReasonsInv
    <3>2. stage[s] \notin BeforeFlows /\ stage[s] # "refused" => ~CannotConstruct(s)
      BY <3>1 DEF ReasonsOf, CannotConstruct, Kinds, BeforeFlows
    <3>3. ASSUME stage[s] = "over", input.scheduler, NEW flow \in OwnEntries(s)
          PROVE  HasPath(flow)
      <4> DEFINE n == Cardinality(OwnFlows(s))
                 order == OwnOrder(s)
      <4>1. /\ Schedule # Error /\ DOMAIN rows[s] = 1 .. n
            /\ \A i \in OwnFlows(s) : \E k \in 1 .. n : order[k] = i
            /\ \A k \in 1 .. n : /\ rows[s][k].entry = Schedule[order[k]]
                                 /\ IsClientOf(rows[s][k].app, rows[s][k].entry)
        BY <3>1, <3>3, RowsOfSystem
      <4> HIDE DEF n, order
      <4>2. PICK i \in DOMAIN input.flows :
              flow = Entry(input.flows[i]) /\ IsMine(assignment, s, flow.from)
        BY DEF OwnEntries
      <4>3. i \in DOMAIN Schedule /\ flow = Schedule[i]
        BY <4>1, <4>2, ScheduleType DEF TopologyInv
      <4>4. i \in OwnFlows(s)
        BY <4>2, <4>3 DEF OwnFlows
      <4>5. PICK k \in 1 .. n : order[k] = i
        BY <4>1, <4>4
      <4>6. IsClientOf(rows[s][k].app, flow)
        BY <4>1, <4>3, <4>5
      <4>7. flow.from \in NodesWithAddress /\ flow.to \in NodesWithAddress
        BY <4>6 DEF IsClientOf
      <4> QED BY <4>7, AddressesAreOfLinks DEF HasPath
    <3> QED BY <3>1, <3>2, <3>3 DEF ReasonsOf
  <2> QED BY <2>1, <2>2 DEF AcceptedIsUsable, CannotConstruct, Stuck, OwnEntries
<1> QED BY <1>1, <1>2, <1>3, PTL DEF Spec

----------------------------------------------------------------------------
(* What the trackers know of the queues *)

Units == {"pkt", "byte"}

\* Main has constructed the trackers of a kind, or has written what they saw.
HasTrackers(kind, s) ==
  stage[s] \in (IF kind = "qdisc" THEN {} ELSE {"track_qdisc"})
                 \cup {"schedule_flows", "running"} \cup AfterRun
HasWritten(kind, s) ==
  stage[s] \in (IF kind = "qdisc" THEN {} ELSE {"write_qdisc"}) \cup {"over"}

\* What the queue behind a link has held, in a unit: nothing, if it is not used.
Held(kind, link, t, unit) ==
  LET q == <<kind, sending[link]>>
  IN IF q \in DOMAIN history THEN history[q][t][unit] ELSE 0

\* Each link that is to be tracked from system s has a tracker, on its own
\* device, with logs that are what its queue has held.
LogsAreExact(kind, s) ==
  /\ EnabledFor(kind) # Error
  /\ assignment # NotDistributed =>
       \A link \in EnabledFor(kind) : HasSystem(assignment, link[1])
  /\ DOMAIN trackers[kind][s] = LinksFrom(s, EnabledFor(kind))
  /\ \A link \in DOMAIN trackers[kind][s] :
       LET tracker == trackers[kind][s][link]
       IN /\ link \in Links(graph.edges)
          /\ DOMAIN tracker = {"device"} \cup Units
          /\ tracker.device = sending[link]
          /\ \A unit \in Units : \A t \in Times : tracker[unit][t] = Held(kind, link, t, unit)

FileOf(kind, s, unit) ==
  Rows(DOMAIN trackers[kind][s],
       [l \in DOMAIN trackers[kind][s] |-> trackers[kind][s][l][unit]], EndTime)

QueuesOf(kind, s) ==
  /\ stage[s] \in AfterRun => now[s] = EndTime
  /\ input.tracking[kind].enabled /\ HasTrackers(kind, s) => LogsAreExact(kind, s)
  /\ HasWritten(kind, s) =>
       \A unit \in Units : csv[kind][s][unit] = FileOf(kind, s, unit)
  /\ stage[s] \in BeforeFlows =>
       \A q \in DOMAIN history : IsMine(assignment, s, q[2][1]) =>
         \A unit \in Units : \A t \in Times : history[q][t][unit] = 0

QueuesThereAre ==
  /\ tpc = "done" => DOMAIN queues = BusyQueues /\ DOMAIN history = BusyQueues
  /\ tpc # "done" => DOMAIN history = {}
  /\ DOMAIN trackers = Kinds /\ DOMAIN csv = Kinds
  /\ \A kind \in Kinds : DOMAIN trackers[kind] = Processes /\ DOMAIN csv[kind] = Processes

QueuesInv == QueuesThereAre /\ \A kind \in Kinds : \A s \in Systems : QueuesOf(kind, s)

\* The device found behind a link is the one that was stored for it.
LEMMA DeviceOfLink ==
  ASSUME TopologyInv, tpc = "done", NEW link \in Links(graph.edges)
  PROVE  /\ DeviceOf(link) = sending[link]
         /\ sending[link][1] = link[1]
         /\ link[1] \in 0 .. graph.nodes - 1 /\ link[2] \in Nat
         /\ link = <<link[1], link[2]>>
         /\ link[1] \in Nat
<1> DEFINE e == EdgeOf(link)
<1>1. /\ WellFormed(graph) /\ AtTheirEnds /\ WithTheirIndices /\ todo = {}
  BY DEF TopologyInv
<1>2. Installed = graph.edges
  BY <1>1 DEF Installed
<1>3. /\ e \in graph.edges /\ (link = e \/ link = Reversed(e))
      /\ link = <<link[1], link[2]>>
  BY <1>1, LinkFacts
<1>4. /\ e[1] \in 0 .. graph.nodes - 1 /\ e[2] \in 0 .. graph.nodes - 1
  BY <1>1, <1>3 DEF WellFormed
<1>5. link[1] \in 0 .. graph.nodes - 1 /\ link[2] \in 0 .. graph.nodes - 1
  BY <1>3, <1>4 DEF Reversed
<1>6. e \in DOMAIN interfaces /\ link \in {e, Reversed(e)}
  BY <1>1, <1>2, <1>3 DEF WithTheirIndices
<1> HIDE DEF e
<1>7. /\ sending[link][1] = link[1]
      /\ sending[link][2] \in DOMAIN devices[link[1]]
      /\ devices[sending[link][1]][sending[link][2]] = Made(link)
  BY <1>6, InstalledLink
<1>8. \E f \in Installed : sending[link] = <<sending[link][1], sending[link][2]>>
  BY <1>1, <1>2, <1>3 DEF WithTheirIndices
<1> DEFINE j == sending[link][2]
           D == {<<link[1], i>> : i \in DOMAIN devices[link[1]]}
           P(d) == devices[d[1]][d[2]].link = link
<1>9. sending[link] \in D /\ P(sending[link])
  <2>1. sending[link] = <<link[1], j>>
    BY <1>7, <1>8
  <2>2. Made(link).link = link
    BY DEF Made
  <2> QED BY <1>7, <2>1, <2>2
<1>10. DeviceOf(link) \in D /\ P(DeviceOf(link))
  BY <1>9 DEF DeviceOf
<1>11. PICK i \in DOMAIN devices[link[1]] : DeviceOf(link) = <<link[1], i>>
  BY <1>10
<1>12. devices[link[1]][i].link = link /\ devices[link[1]][j].link = link /\ j \in DOMAIN devices[link[1]]
  BY <1>7, <1>9, <1>10, <1>11
<1> HIDE DEF j
<1>13. \A k, l \in DOMAIN devices[link[1]] :
         k < l => devices[link[1]][k].link[2] < devices[link[1]][l].link[2]
  BY <1>1, <1>5 DEF AtTheirEnds
<1>14. ~(i < j) /\ ~(j < i)
  BY <1>5, <1>12, <1>13
<1>15. i \in Int /\ j \in Int
  <2>1. devices[link[1]] \in Seq({Made(l) : l \in Links(Installed)})
    BY <1>1, <1>5 DEF AtTheirEnds
  <2>2. DOMAIN devices[link[1]] = 1 .. Len(devices[link[1]])
    BY <2>1
  <2> QED BY <1>12, <2>2
<1>16. i = j
  BY <1>14, <1>15
<1> QED BY <1>3, <1>5, <1>7, <1>8, <1>11, <1>16 DEF j

LEMMA BusyQueueFacts ==
  ASSUME TopologyInv, tpc = "done", NEW q \in BusyQueues
  PROVE  /\ q[1] \in Kinds /\ q = <<q[1], q[2]>>
         /\ q[2][1] \in 0 .. graph.nodes - 1
<1>1. PICK b \in input.busy : HasQueue(b[1], b[2]) /\ q = <<b[1], DeviceOf(b[2])>>
  BY DEF BusyQueues
<1>2. b[1] \in Kinds
  BY TrackingAssumption DEF TopologyInv
<1>3. b[2] \in Links(graph.edges)
  BY <1>1 DEF HasQueue, GetLinksSet
<1> QED BY <1>1, <1>2, <1>3, DeviceOfLink

LEMMA TrackingStays ==
  ASSUME UNCHANGED <<input, assignment, graph, devices, sending>>
  PROVE  /\ BusyQueues' = BusyQueues /\ Systems' = Systems
         /\ \A kind : EnabledFor(kind)' = EnabledFor(kind)
         /\ \A s, links : LinksFrom(s, links)' = LinksFrom(s, links)
         /\ Links(graph.edges)' = Links(graph.edges)
<1>1. \A link : DeviceOf(link)' = DeviceOf(link)
  BY DEF DeviceOf
<1>2. \A kind, link : HasQueue(kind, link)' <=> HasQueue(kind, link)
  BY DEF HasQueue, GetLinksSet, GetSendingNetDeviceForLink
<1>3. BusyQueues' = BusyQueues
  BY <1>1, <1>2 DEF BusyQueues
<1>4. \A kind : EnabledFor(kind)' = EnabledFor(kind)
  BY DEF EnabledFor, GetLinksSet
<1> QED BY <1>3, <1>4 DEF Systems, LinksFrom

LEMMA LogsStay ==
  ASSUME UNCHANGED tpVars, NEW kind, NEW s, LogsAreExact(kind, s),
         trackers'[kind][s] = trackers[kind][s],
         \A link \in DOMAIN trackers[kind][s] : \A t \in Times : \A unit \in Units :
           Held(kind, link, t, unit)' = Held(kind, link, t, unit)
  PROVE  LogsAreExact(kind, s)'
<1>1. /\ EnabledFor(kind)' = EnabledFor(kind)
      /\ LinksFrom(s, EnabledFor(kind))' = LinksFrom(s, EnabledFor(kind))
      /\ assignment' = assignment /\ sending' = sending
      /\ Links(graph.edges)' = Links(graph.edges)
  BY TrackingStays DEF tpVars, LinksFrom
<1>2. /\ EnabledFor(kind)' # Error
      /\ assignment' # NotDistributed =>
           \A link \in EnabledFor(kind)' : HasSystem(assignment, link[1])'
      /\ DOMAIN trackers'[kind][s] = LinksFrom(s, EnabledFor(kind))'
  BY <1>1 DEF LogsAreExact, HasSystem
<1>3. ASSUME NEW link \in DOMAIN trackers'[kind][s]
      PROVE  LET tracker == trackers'[kind][s][link]
             IN /\ link \in Links(graph.edges)'
                /\ DOMAIN tracker = {"device"} \cup Units
                /\ tracker.device = sending'[link]
                /\ \A unit \in Units : \A t \in Times :
                     tracker[unit][t] = Held(kind, link, t, unit)'
  BY <1>1, <1>3 DEF LogsAreExact
<1>4. Times' = Times /\ Units' = Units
  BY DEF Times, Units
<1> QED BY <1>2, <1>3, <1>4 DEF LogsAreExact

\* Steps that do not touch the queues, the trackers and the files of a system.
LEMMA QueuesStay ==
  ASSUME NEW kind \in Kinds, NEW s, QueuesOf(kind, s), UNCHANGED tpVars, history' = history,
         trackers'[kind][s] = trackers[kind][s], csv'[kind][s] = csv[kind][s],
         stage'[s] \in AfterRun => now'[s] = EndTime,
         HasTrackers(kind, s)' => HasTrackers(kind, s),
         HasWritten(kind, s)' => HasWritten(kind, s),
         stage'[s] \in BeforeFlows => stage[s] \in BeforeFlows
  PROVE  QueuesOf(kind, s)'
<1>1. input' = input /\ assignment' = assignment /\ sending' = sending
  BY DEF tpVars
<1>2. \A link, t, unit : Held(kind, link, t, unit)' = Held(kind, link, t, unit)
  BY <1>1 DEF Held
<1>3. LogsAreExact(kind, s) => LogsAreExact(kind, s)'
  BY <1>2, LogsStay
<1>4. \A unit : FileOf(kind, s, unit)' = FileOf(kind, s, unit)
  BY DEF FileOf
<1>5. stage'[s] \in BeforeFlows =>
        \A q \in DOMAIN history' : IsMine(assignment, s, q[2][1])' =>
          \A unit \in Units : \A t \in Times : history'[q][t][unit] = 0
  BY <1>1 DEF QueuesOf, IsMine, IsNodeAssignedToThisSystem
<1>6. HasWritten(kind, s)' =>
        \A unit \in Units : csv'[kind][s][unit] = FileOf(kind, s, unit)'
  BY <1>4 DEF QueuesOf
<1>7. input'.tracking[kind].enabled /\ HasTrackers(kind, s)' => LogsAreExact(kind, s)'
  BY <1>1, <1>3 DEF QueuesOf
<1>8. Times' = Times /\ Units' = Units
  BY DEF Times, Units
<1> QED BY <1>5, <1>6, <1>7, <1>8 DEF QueuesOf

\* Before any tracker is attached: the queues are there when the topology is.
LEMMA TopologyStepKeepsQueues ==
  ASSUME TopologyInv, FlowsInv, QueuesInv, BuildTopology
  PROVE  QueuesInv'
<1>1. /\ tpc # "done" /\ input' = input
      /\ tpc' = "done" => UNCHANGED <<input, assignment, graph, devices, sending>>
  BY DEF BuildTopology, TpNext, Configure, ReadTopologyConfig, ParseTopologyGraph,
         ParseTopologyLinkProperties, SetupNodes, SetupLinks, Throw
<1>2. Systems' = Systems
  BY <1>1 DEF Systems
<1>3. stage' = stage /\ now' = now /\ trackers' = trackers /\ csv' = csv
  BY DEF BuildTopology, simVars, qtVars, QueuesAreInstalled
<1>4. ASSUME NEW s \in Systems PROVE stage'[s] = "track_net_device"
  BY <1>1, <1>3, SystemsAreProcesses DEF FlowsInv, FlowsOf
<1>5. /\ QueuesThereAre'
      /\ \A q \in DOMAIN history' : \A unit \in Units : \A t \in Times : history'[q][t][unit] = 0
  <2>1. /\ DOMAIN history = {} /\ DOMAIN trackers = Kinds /\ DOMAIN csv = Kinds
        /\ \A kind \in Kinds : DOMAIN trackers[kind] = Processes /\ DOMAIN csv[kind] = Processes
    BY <1>1 DEF QueuesInv, QueuesThereAre
  <2>2. Kinds' = Kinds /\ Processes' = Processes
    BY DEF Kinds, Processes
  <2>3. CASE tpc' = "done"
    <3>1. QueuesAreInstalled
      BY <2>3 DEF BuildTopology
    <3>2. BusyQueues' = BusyQueues
      BY <1>1, <2>3, TrackingStays
    <3>3. DOMAIN queues' = BusyQueues' /\ DOMAIN history' = BusyQueues'
      BY <3>1, <3>2 DEF QueuesAreInstalled
    <3>4. \A q \in DOMAIN history' : history'[q] = [t \in Times |-> [pkt |-> 0, byte |-> 0]]
      BY <3>1 DEF QueuesAreInstalled
    <3>5. \A unit \in Units : [pkt |-> 0, byte |-> 0][unit] = 0
      BY DEF Units
    <3>6. \A q \in DOMAIN history' : \A t \in Times : history'[q][t] = [pkt |-> 0, byte |-> 0]
      BY <3>4
    <3> QED BY <1>3, <2>1, <2>2, <2>3, <3>3, <3>5, <3>6 DEF QueuesThereAre
  <2>4. CASE tpc' # "done"
    <3>1. history' = history
      BY <2>4 DEF BuildTopology, qtVars
    <3> QED BY <1>3, <2>1, <2>2, <2>4, <3>1 DEF QueuesThereAre
  <2> QED BY <2>3, <2>4
<1>6. ASSUME NEW kind \in Kinds, NEW s \in Systems PROVE QueuesOf(kind, s)'
  <2>1. ~HasTrackers(kind, s)' /\ ~HasWritten(kind, s)' /\ stage'[s] \notin AfterRun
    BY <1>4 DEF HasTrackers, HasWritten, AfterRun
  <2>2. Times' = Times /\ Units' = Units
    BY DEF Times, Units
  <2> QED BY <1>5, <2>1, <2>2 DEF QueuesOf
<1> QED BY <1>2, <1>5, <1>6 DEF QueuesInv, Kinds

\* A step of one system, on the stage and the clock, that leaves queues alone.
LEMMA QuietStep ==
  ASSUME QueuesInv, NEW s \in Systems, UNCHANGED <<tpVars, qtVars>>,
         \A t \in Systems \ {s} : stage'[t] = stage[t] /\ now'[t] = now[t],
         stage'[s] \in AfterRun => now'[s] = EndTime,
         \A kind \in Kinds : HasTrackers(kind, s)' => HasTrackers(kind, s),
         \A kind \in Kinds : HasWritten(kind, s)' => HasWritten(kind, s),
         stage'[s] \in BeforeFlows => stage[s] \in BeforeFlows
  PROVE  QueuesInv'
<1>1. /\ UNCHANGED tpVars /\ queues' = queues /\ history' = history
      /\ trackers' = trackers /\ csv' = csv /\ tpc' = tpc
  BY DEF qtVars, tpVars
<1>2. BusyQueues' = BusyQueues /\ Systems' = Systems
  BY <1>1, TrackingStays DEF tpVars
<1>3. ASSUME NEW kind \in Kinds, NEW t \in Systems PROVE QueuesOf(kind, t)'
  <2>1. QueuesOf(kind, t)
    BY DEF QueuesInv
  <2>2. CASE t = s
    BY <1>1, <2>1, <2>2, QueuesStay
  <2>3. CASE t # s
    <3>1. /\ stage'[t] \in AfterRun => now'[t] = EndTime
          /\ HasTrackers(kind, t)' => HasTrackers(kind, t)
          /\ HasWritten(kind, t)' => HasWritten(kind, t)
      BY <2>1, <2>3 DEF QueuesOf, HasTrackers, HasWritten
    <3> QED BY <1>1, <2>1, <2>3, <3>1, QueuesStay
  <2> QED BY <2>2, <2>3
<1>4. QueuesThereAre'
  BY <1>1, <1>2 DEF QueuesInv, QueuesThereAre, Kinds, Processes
<1> QED BY <1>2, <1>3, <1>4 DEF QueuesInv, Kinds

LEMMA FlowStepKeepsQueues ==
  ASSUME FlowsInv, QueuesInv, NEW s \in Systems, FlowStep(s) \/ Tick(s), UNCHANGED <<tpVars, qtVars>>
  PROVE  QueuesInv'
<1>1. DOMAIN stage = Processes /\ DOMAIN now = Processes /\ s \in Processes
  BY SystemsAreProcesses DEF FlowsInv, FlowDomains
<1>2. ASSUME NEW from, NEW to, stage[s] = from, stage' = [stage EXCEPT ![s] = to],
             <<from, to>> \in {<<"schedule_flows", "running">>, <<"schedule_flows", "refused">>,
                               <<"running", "aborted">>, <<"write_flows", "write_net_device">>,
                               <<"write_flows", "threw">>, <<"running", "write_flows">>},
             UNCHANGED now, <<from, to>> = <<"running", "write_flows">> => now[s] = EndTime
      PROVE  QueuesInv'
  <2>1. stage'[s] = to /\ \A t \in Systems \ {s} : stage'[t] = stage[t] /\ now'[t] = now[t]
    BY <1>1, <1>2, SystemsAreProcesses
  <2>2. /\ to \in AfterRun => now'[s] = EndTime
        /\ to \in BeforeFlows => from \in BeforeFlows
    <3>1. \A kind \in Kinds : from \in AfterRun => now[s] = EndTime
      BY <1>2 DEF QueuesInv, QueuesOf
    <3>2. "qdisc" \in Kinds
      BY DEF Kinds
    <3> QED BY <1>2, <3>1, <3>2 DEF AfterRun, BeforeFlows
  <2>3. ASSUME NEW kind \in Kinds
        PROVE  /\ HasTrackers(kind, s)' => HasTrackers(kind, s)
               /\ HasWritten(kind, s)' => HasWritten(kind, s)
    BY <1>2, <2>1 DEF HasTrackers, HasWritten, AfterRun
  <2> QED BY <1>2, <2>1, <2>2, <2>3, QuietStep
<1>3. ASSUME stage' = stage, stage[s] = "running",
             \A t \in Systems \ {s} : now'[t] = now[t]
      PROVE  QueuesInv'
  <2>1. "running" \notin AfterRun
    BY DEF AfterRun
  <2>2. ASSUME NEW kind \in Kinds
        PROVE  /\ HasTrackers(kind, s)' => HasTrackers(kind, s)
               /\ HasWritten(kind, s)' => HasWritten(kind, s)
    BY <1>3 DEF HasTrackers, HasWritten
  <2> QED BY <1>3, <2>1, <2>2, QuietStep
<1>4. CASE ConstructFlowScheduler(s)
  <2>1. PICK to \in {"running", "refused"} :
          stage[s] = "schedule_flows" /\ stage' = [stage EXCEPT ![s] = to] /\ UNCHANGED now
    BY <1>4 DEF ConstructFlowScheduler, MainContinues
  <2> QED BY <1>2, <2>1
<1>5. CASE StartNextFlow(s)
  <2>1. /\ stage[s] = "running" /\ UNCHANGED now
        /\ stage' = [stage EXCEPT ![s] = "aborted"] \/ stage' = stage
    BY <1>5 DEF StartNextFlow, MainContinues
  <2>2. CASE stage' = stage
    <3>1. now' = now
      BY <2>1
    <3>2. \A t \in Systems \ {s} : now'[t] = now[t]
      BY <3>1
    <3> QED BY <1>3, <2>1, <2>2, <3>2
  <2>3. CASE stage' = [stage EXCEPT ![s] = "aborted"]
    <3>1. <<"running", "aborted">> # <<"running", "write_flows">>
      OBVIOUS
    <3>2. UNCHANGED now /\ stage[s] = "running"
      BY <2>1
    <3> QED BY <1>2, <2>3, <3>1, <3>2
  <2> QED BY <2>1, <2>2, <2>3
<1>6. CASE WriteFlowResults(s)
  <2>1. PICK to \in {"write_net_device", "threw"} :
          stage[s] = "write_flows" /\ stage' = [stage EXCEPT ![s] = to] /\ UNCHANGED now
    BY <1>6 DEF WriteFlowResults, MainContinues
  <2> QED BY <1>2, <2>1
<1>7. CASE Tick(s)
  <2>1. /\ stage[s] = "running"
        /\ \/ now' = [now EXCEPT ![s] = @ + 1] /\ stage' = stage
           \/ now[s] = EndTime /\ stage' = [stage EXCEPT ![s] = "write_flows"] /\ UNCHANGED now
    BY <1>7 DEF Tick, TimePasses, MainContinues
  <2>2. CASE now' = [now EXCEPT ![s] = @ + 1] /\ stage' = stage
    <3>1. \A t \in Systems \ {s} : now'[t] = now[t]
      BY <1>1, <2>2, SystemsAreProcesses
    <3> QED BY <1>3, <2>1, <2>2, <3>1
  <2>3. CASE now[s] = EndTime /\ stage' = [stage EXCEPT ![s] = "write_flows"] /\ UNCHANGED now
    BY <1>2, <2>1, <2>3
  <2> QED BY <2>1, <2>2, <2>3
<1> QED BY <1>4, <1>5, <1>6, <1>7 DEF FlowStep

\* Of the queues behind links, only those of its own nodes change in a system.
LEMMA OwnQueue ==
  ASSUME TopologyInv, tpc = "done", NEW q \in BusyQueues, NEW s \in Systems,
         IsMine(assignment, s, q[2][1]),
         NEW t \in Systems, NEW links, NEW link \in LinksFrom(t, links),
         link \in Links(graph.edges), sending[link] = q[2]
  PROVE  t = s
<1>1. sending[link][1] = link[1] /\ link[1] \in 0 .. graph.nodes - 1
  BY DeviceOfLink
<1>2. IsMine(assignment, t, link[1])
  BY DEF LinksFrom
<1> QED BY <1>1, <1>2, OnlySystem

LEMMA TrafficKeepsQueues ==
  ASSUME TopologyInv, FlowsInv, QueuesInv, NEW s \in Systems, tpc = "done",
         Traffic(s), UNCHANGED tpVars
  PROVE  QueuesInv'
<1>0. PICK q \in DOMAIN queues :
        IsMine(assignment, s, q[2][1]) /\ \E packets : QueueBecomes(s, q, packets)
  BY DEF Traffic
<1>1. PICK packets : IsMine(assignment, s, q[2][1]) /\ QueueBecomes(s, q, packets)
  BY <1>0
<1> DEFINE new == [pkt |-> Len(packets), byte |-> SumBytes(packets)]
<1>2. /\ queues' = [queues EXCEPT ![q] = packets]
      /\ history' = [history EXCEPT ![q] = Reported(@, now[s], new)]
      /\ trackers' = [trackers EXCEPT ![q[1]][s] =
                       [link \in DOMAIN @ |-> Callbacks(@[link], q, now[s], packets)]]
      /\ now' = now /\ stage' = stage /\ csv' = csv
  BY <1>1 DEF QueueBecomes
<1> HIDE DEF new
<1>3. /\ stage[s] = "running" /\ s \in Processes
  BY SystemsAreProcesses DEF Traffic
<1>4. QueuesThereAre /\ DOMAIN queues = BusyQueues /\ DOMAIN history = BusyQueues
      /\ DOMAIN trackers = Kinds /\ DOMAIN csv = Kinds
      /\ \A kind \in Kinds : DOMAIN trackers[kind] = Processes /\ DOMAIN csv[kind] = Processes
  BY DEF QueuesInv, QueuesThereAre
<1>5. q[1] \in Kinds /\ q = <<q[1], q[2]>> /\ q[2][1] \in 0 .. graph.nodes - 1
  BY <1>1, <1>4, BusyQueueFacts
<1>6. /\ BusyQueues' = BusyQueues /\ Systems' = Systems
      /\ input' = input /\ assignment' = assignment /\ sending' = sending /\ tpc' = tpc
      /\ \A kind : EnabledFor(kind)' = EnabledFor(kind)
      /\ \A t, links : LinksFrom(t, links)' = LinksFrom(t, links)
      /\ Links(graph.edges)' = Links(graph.edges)
      /\ Kinds' = Kinds /\ Processes' = Processes /\ Times' = Times /\ Units' = Units
  BY TrackingStays DEF tpVars, Kinds, Processes, Times, Units
<1>7. /\ DOMAIN trackers' = Kinds
      /\ \A kind \in Kinds : DOMAIN trackers'[kind] = Processes
      /\ \A kind \in Kinds, t \in Processes :
           (kind # q[1] \/ t # s) => trackers'[kind][t] = trackers[kind][t]
      /\ trackers'[q[1]][s] = [link \in DOMAIN trackers[q[1]][s] |->
                                 Callbacks(trackers[q[1]][s][link], q, now[s], packets)]
  BY <1>2, <1>3, <1>4, <1>5
<1>8. /\ DOMAIN history' = DOMAIN history
      /\ history'[q] = Reported(history[q], now[s], new)
      /\ \A p \in DOMAIN history \ {q} : history'[p] = history[p]
  BY <1>1, <1>2, <1>4
<1>9. QueuesThereAre'
  BY <1>2, <1>4, <1>6, <1>7, <1>8 DEF QueuesThereAre
\* A queue that is not the one that changes holds what it held.
<1>10. ASSUME NEW kind, NEW link, <<kind, sending[link]>> # q
       PROVE  \A t, unit : Held(kind, link, t, unit)' = Held(kind, link, t, unit)
  BY <1>6, <1>8, <1>10 DEF Held
<1>11. ASSUME NEW kind \in Kinds, NEW t \in Systems, LogsAreExact(kind, t),
              kind # q[1] \/ t # s
       PROVE  LogsAreExact(kind, t)'
  <2>1. trackers'[kind][t] = trackers[kind][t]
    BY <1>7, <1>11, SystemsAreProcesses
  <2>2. ASSUME NEW link \in DOMAIN trackers[kind][t]
        PROVE  <<kind, sending[link]>> # q
    <3>1. CASE kind # q[1]
      BY <1>5, <3>1
    <3>2. CASE t # s
      <4>1. link \in LinksFrom(t, EnabledFor(kind)) /\ link \in Links(graph.edges)
        BY <1>11 DEF LogsAreExact
      <4>2. sending[link] # q[2]
        BY <1>1, <1>4, <3>2, <4>1, OwnQueue
      <4> QED BY <1>5, <4>2
    <3> QED BY <1>11, <3>1, <3>2
  <2>3. \A link \in DOMAIN trackers[kind][t] : \A u \in Times : \A unit \in Units :
          Held(kind, link, u, unit)' = Held(kind, link, u, unit)
    BY <1>10, <2>2
  <2> QED BY <1>11, <2>1, <2>3, LogsStay
<1>12. ASSUME LogsAreExact(q[1], s) PROVE LogsAreExact(q[1], s)'
  <2> DEFINE kind == q[1]
  <2>1. DOMAIN trackers'[kind][s] = DOMAIN trackers[kind][s]
    BY <1>7
  <2>2. ASSUME NEW link \in DOMAIN trackers[kind][s]
        PROVE  LET tracker == trackers'[kind][s][link]
               IN /\ link \in Links(graph.edges)
                  /\ DOMAIN tracker = {"device"} \cup Units
                  /\ tracker.device = sending[link]
                  /\ \A unit \in Units : \A t \in Times :
                       tracker[unit][t] = Held(kind, link, t, unit)'
    <3> DEFINE old == trackers[kind][s][link]
    <3>1. /\ link \in Links(graph.edges)
          /\ DOMAIN old = {"device"} \cup Units /\ old.device = sending[link]
          /\ \A unit \in Units : \A t \in Times : old[unit][t] = Held(kind, link, t, unit)
      BY <1>12 DEF LogsAreExact
    <3>2. trackers'[kind][s][link] = Callbacks(old, q, now[s], packets)
      BY <1>7
    <3> HIDE DEF old
    <3>3. CASE sending[link] # q[2]
      <4>1. trackers'[kind][s][link] = old
        BY <3>1, <3>2, <3>3 DEF Callbacks
      <4>2. <<kind, sending[link]>> # q
        BY <1>5, <3>3
      <4>3. \A t, unit : Held(kind, link, t, unit)' = Held(kind, link, t, unit)
        BY <1>10, <4>2
      <4> QED BY <3>1, <4>1, <4>3
    <3>4. CASE sending[link] = q[2]
      <4> DEFINE tracker == trackers'[kind][s][link]
      <4>1. tracker = [old EXCEPT !.pkt = Reported(@, now[s], Len(packets)),
                                  !.byte = Reported(@, now[s], SumBytes(packets))]
        BY <3>1, <3>2, <3>4 DEF Callbacks
      <4> HIDE DEF tracker
      <4>2. /\ DOMAIN tracker = {"device"} \cup Units /\ tracker.device = sending[link]
            /\ \A unit \in Units : tracker[unit] = Reported(old[unit], now[s], new[unit])
        BY <3>1, <4>1 DEF Units, new
      <4>3. q = <<kind, sending[link]>> /\ q \in DOMAIN history
        BY <1>1, <1>4, <1>5, <3>4
      <4>4. \A unit \in Units : \A t \in Times :
              Held(kind, link, t, unit) = history[q][t][unit]
        BY <4>3 DEF Held
      <4>5. \A unit : \A t \in Times : Held(kind, link, t, unit)' = history'[q][t][unit]
        BY <1>6, <1>8, <4>3 DEF Held
      <4>6. ASSUME NEW unit \in Units, NEW t \in Times
            PROVE  tracker[unit][t] = Held(kind, link, t, unit)'
        <5>1. tracker[unit][t] = IF t >= now[s] THEN new[unit] ELSE old[unit][t]
          BY <4>2 DEF Reported
        <5>2. history'[q][t] = IF t >= now[s] THEN new ELSE history[q][t]
          BY <1>8 DEF Reported
        <5>3. old[unit][t] = history[q][t][unit]
          BY <3>1, <4>4
        <5> QED BY <4>5, <5>1, <5>2, <5>3
      <4> QED BY <3>1, <4>2, <4>6 DEF tracker
    <3> QED BY <3>3, <3>4
  <2>3. /\ EnabledFor(kind)' # Error
        /\ assignment' # NotDistributed =>
             \A link \in EnabledFor(kind)' : HasSystem(assignment, link[1])'
        /\ DOMAIN trackers'[kind][s] = LinksFrom(s, EnabledFor(kind))'
    BY <1>6, <1>12, <2>1 DEF LogsAreExact, HasSystem
  <2>4. q[1] = kind
    OBVIOUS
  <2> HIDE DEF kind
  <2>5. LogsAreExact(kind, s)'
    BY <1>6, <2>1, <2>2, <2>3 DEF LogsAreExact
  <2> QED BY <2>5 DEF kind
<1>13. ASSUME NEW kind \in Kinds, NEW t \in Systems PROVE QueuesOf(kind, t)'
  <2>1. QueuesOf(kind, t)
    BY DEF QueuesInv
  <2>2. HasTrackers(kind, t)' <=> HasTrackers(kind, t)
    BY <1>2 DEF HasTrackers
  <2>3. input'.tracking[kind].enabled /\ HasTrackers(kind, t)' => LogsAreExact(kind, t)'
    BY <1>6, <1>11, <1>12, <2>1, <2>2 DEF QueuesOf
  <2>4. HasWritten(kind, t)' =>
          \A unit \in Units : csv'[kind][t][unit] = FileOf(kind, t, unit)'
    <3>1. SUFFICES ASSUME HasWritten(kind, t)
                   PROVE  \A unit \in Units : csv'[kind][t][unit] = FileOf(kind, t, unit)'
      BY <1>2 DEF HasWritten
    <3>2. t # s
      BY <1>3, <3>1 DEF HasWritten
    <3>3. trackers'[kind][t] = trackers[kind][t]
      BY <1>7, <3>2, SystemsAreProcesses
    <3> QED BY <1>2, <2>1, <3>1, <3>3 DEF QueuesOf, FileOf
  <2>5. ASSUME stage[t] \in BeforeFlows, NEW p \in DOMAIN history, IsMine(assignment, t, p[2][1])
        PROVE  \A unit \in Units : \A u \in Times : history'[p][u][unit] = 0
    <3>1. t # s
      BY <1>3, <2>5 DEF BeforeFlows
    <3>2. p # q
      BY <1>1, <1>5, <2>5, <3>1, OnlySystem
    <3>3. history'[p] = history[p]
      BY <1>8, <3>2
    <3> QED BY <2>1, <2>5, <3>3 DEF QueuesOf
  <2>6. stage'[t] \in BeforeFlows =>
          \A p \in DOMAIN history' : IsMine(assignment, t, p[2][1])' =>
            \A unit \in Units : \A u \in Times : history'[p][u][unit] = 0
    BY <1>2, <1>6, <1>8, <2>5 DEF IsMine, IsNodeAssignedToThisSystem
  <2>7. stage'[t] \in AfterRun => now'[t] = EndTime
    BY <1>2, <2>1 DEF QueuesOf
  <2> QED BY <1>6, <2>3, <2>4, <2>6, <2>7 DEF QueuesOf
<1> QED BY <1>6, <1>9, <1>13 DEF QueuesInv

LEMMA ConstructTrackingKeepsQueues ==
  ASSUME TopologyInv, FlowsInv, QueuesInv, NEW s \in Systems, tpc = "done",
         NEW which \in Kinds, ConstructTracking(which, s), UNCHANGED tpVars
  PROVE  QueuesInv'
<1>1. /\ s \in Processes /\ DOMAIN stage = Processes
      /\ DOMAIN trackers = Kinds /\ DOMAIN trackers[which] = Processes
      /\ \A kind \in Kinds : DOMAIN trackers[kind] = Processes
      /\ DOMAIN history = BusyQueues
  BY SystemsAreProcesses DEF FlowsInv, FlowDomains, QueuesInv, QueuesThereAre
<1>2. /\ now' = now /\ queues' = queues /\ history' = history /\ csv' = csv
      /\ stage[s] = IF which = "qdisc" THEN "track_qdisc" ELSE "track_net_device"
      /\ stage[s] \in BeforeFlows
  BY DEF ConstructTracking, BeforeFlows
<1>3. PICK to \in {StageAfter[which], "refused"} : stage' = [stage EXCEPT ![s] = to]
  BY DEF ConstructTracking, MainContinues
<1>4. stage'[s] = to /\ \A t \in Systems \ {s} : stage'[t] = stage[t]
  BY <1>1, <1>3, SystemsAreProcesses
<1>5. /\ trackers'[which][s] = trackers[which][s] \/ to = StageAfter[which]
      /\ DOMAIN trackers' = Kinds /\ \A kind \in Kinds : DOMAIN trackers'[kind] = Processes
      /\ \A kind \in Kinds, t \in Processes :
           (kind # which \/ t # s) => trackers'[kind][t] = trackers[kind][t]
  <2>1. CASE trackers' = trackers
    BY <1>1, <2>1
  <2>2. CASE trackers' # trackers
    <3>1. /\ trackers' = [trackers EXCEPT ![which][s] =
                            [link \in LinksFrom(s, EnabledFor(which)) |-> NewTracker(link)]]
          /\ stage' = [stage EXCEPT ![s] = StageAfter[which]]
      BY <2>2 DEF ConstructTracking, MainContinues
    <3>2. to = StageAfter[which]
      BY <1>1, <1>4, <3>1
    <3> QED BY <1>1, <3>1, <3>2
  <2> QED BY <2>1, <2>2
<1>6. /\ BusyQueues' = BusyQueues /\ Systems' = Systems
      /\ input' = input /\ assignment' = assignment /\ sending' = sending /\ tpc' = tpc
      /\ EnabledFor(which)' = EnabledFor(which)
      /\ LinksFrom(s, EnabledFor(which))' = LinksFrom(s, EnabledFor(which))
      /\ Links(graph.edges)' = Links(graph.edges)
      /\ Kinds' = Kinds /\ Processes' = Processes /\ Times' = Times /\ Units' = Units
  BY TrackingStays DEF tpVars, Kinds, Processes, Times, Units, LinksFrom
<1>7. QueuesThereAre'
  BY <1>2, <1>5, <1>6 DEF QueuesInv, QueuesThereAre
\* What is true of the other trackers, of both kinds.
<1>8. ASSUME NEW kind \in Kinds, NEW t \in Systems, kind # which \/ t # s
      PROVE  QueuesOf(kind, t)'
  <2>1. QueuesOf(kind, t) /\ trackers'[kind][t] = trackers[kind][t]
    BY <1>5, <1>8, SystemsAreProcesses DEF QueuesInv
  <2>2. CASE t # s
    <3>1. stage'[t] = stage[t]
      BY <1>4, <2>2
    <3>2. /\ HasTrackers(kind, t)' => HasTrackers(kind, t)
          /\ HasWritten(kind, t)' => HasWritten(kind, t)
          /\ stage'[t] \in AfterRun => now'[t] = EndTime
          /\ stage'[t] \in BeforeFlows => stage[t] \in BeforeFlows
      BY <1>2, <2>1, <3>1 DEF HasTrackers, HasWritten, QueuesOf
    <3> QED BY <1>2, <2>1, <3>2, QueuesStay
  <2>3. CASE t = s
    <3>1. /\ stage'[s] \notin AfterRun /\ ~HasWritten(kind, s)'
          /\ HasTrackers(kind, s)' => HasTrackers(kind, s)
      BY <1>2, <1>3, <1>4, <1>8, <2>3
         DEF Kinds, StageAfter, AfterRun, HasTrackers, HasWritten
    <3> QED BY <1>2, <2>1, <2>3, <3>1, QueuesStay
  <2> QED BY <2>2, <2>3
<1>9. QueuesOf(which, s)'
  <2>1. QueuesOf(which, s)
    BY DEF QueuesInv
  <2>2. /\ stage'[s] \notin AfterRun /\ ~HasWritten(which, s)'
    BY <1>3, <1>4 DEF Kinds, StageAfter, AfterRun, HasWritten
  <2>3. HasTrackers(which, s)' => to # "refused"
    BY <1>4 DEF HasTrackers, AfterRun
  <2>4. ASSUME input.tracking[which].enabled, to # "refused"
        PROVE  LogsAreExact(which, s)'
    <3> DEFINE links == EnabledFor(which)
    <3>1. /\ links # Error
          /\ assignment # NotDistributed => \A link \in links : HasSystem(assignment, link[1])
          /\ \A link \in LinksFrom(s, links) : HasQueue(which, link)
          /\ trackers' = [trackers EXCEPT ![which][s] =
                            [link \in LinksFrom(s, links) |-> NewTracker(link)]]
      <4>1. ~MainContinues(s, "refused")
        BY <1>1, <1>4, <2>4 DEF MainContinues
      <4> QED BY <2>4, <4>1 DEF ConstructTracking
    <3>2. trackers'[which][s] = [link \in LinksFrom(s, links) |-> NewTracker(link)]
      BY <1>1, <3>1
    <3> HIDE DEF links
    <3>3. ASSUME NEW link \in LinksFrom(s, links)
          PROVE  LET tracker == trackers'[which][s][link]
                 IN /\ link \in Links(graph.edges)
                    /\ DOMAIN tracker = {"device"} \cup Units
                    /\ tracker.device = sending[link]
                    /\ \A unit \in Units : \A t \in Times :
                         tracker[unit][t] = Held(which, link, t, unit)'
      <4>1. /\ trackers'[which][s][link] = NewTracker(link)
            /\ link \in Links(graph.edges)
        BY <3>1, <3>2 DEF HasQueue, GetLinksSet
      <4>2. /\ DOMAIN NewTracker(link) = {"device"} \cup Units
            /\ NewTracker(link).device = sending[link]
            /\ \A unit \in Units : NewTracker(link)[unit] = [t \in Times |-> 0]
        BY DEF NewTracker, Units, GetSendingNetDeviceForLink
      <4>3. IsMine(assignment, s, sending[link][1])
        BY <4>1, DeviceOfLink DEF LinksFrom
      <4> DEFINE q == <<which, sending[link]>>
      <4>4. q \in DOMAIN history =>
              \A unit \in Units : \A t \in Times : history[q][t][unit] = 0
        BY <1>2, <2>1, <4>3 DEF QueuesOf
      <4>5. \A unit \in Units : \A t \in Times : Held(which, link, t, unit)' = 0
        BY <1>2, <1>6, <4>4 DEF Held
      <4> QED BY <4>1, <4>2, <4>5
    <3>4. DOMAIN trackers'[which][s] = LinksFrom(s, links)
      BY <3>2
    <3>5. /\ EnabledFor(which)' # Error
          /\ assignment' # NotDistributed =>
               \A link \in EnabledFor(which)' : HasSystem(assignment, link[1])'
          /\ DOMAIN trackers'[which][s] = LinksFrom(s, EnabledFor(which))'
      BY <1>6, <3>1, <3>4 DEF HasSystem, links
    <3> QED BY <1>6, <3>3, <3>4, <3>5 DEF LogsAreExact
  <2>5. stage'[s] \in BeforeFlows =>
          \A p \in DOMAIN history' : IsMine(assignment, s, p[2][1])' =>
            \A unit \in Units : \A u \in Times : history'[p][u][unit] = 0
    BY <1>2, <1>6, <2>1 DEF QueuesOf, IsMine, IsNodeAssignedToThisSystem
  <2> QED BY <1>6, <2>2, <2>3, <2>4, <2>5 DEF QueuesOf
<1>10. \A kind \in Kinds, t \in Systems : QueuesOf(kind, t)'
  BY <1>8, <1>9
<1> QED BY <1>6, <1>7, <1>10 DEF QueuesInv

LEMMA WriteQueueResultsKeepsQueues ==
  ASSUME TopologyInv, FlowsInv, QueuesInv, NEW s \in Systems, tpc = "done",
         NEW which \in Kinds, WriteQueueResults(which, s), UNCHANGED tpVars
  PROVE  QueuesInv'
<1>1. /\ s \in Processes /\ DOMAIN stage = Processes
      /\ DOMAIN csv = Kinds /\ \A kind \in Kinds : DOMAIN csv[kind] = Processes
  BY SystemsAreProcesses DEF FlowsInv, FlowDomains, QueuesInv, QueuesThereAre
<1> DEFINE to == IF which = "qdisc" THEN "over" ELSE "write_qdisc"
           t == trackers[which][s]
           files == [pkt |-> Rows(DOMAIN t, [l \in DOMAIN t |-> t[l].pkt], now[s]),
                     byte |-> Rows(DOMAIN t, [l \in DOMAIN t |-> t[l].byte], now[s])]
<1>2. /\ now' = now /\ queues' = queues /\ history' = history /\ trackers' = trackers
      /\ stage[s] = IF which = "qdisc" THEN "write_qdisc" ELSE "write_net_device"
      /\ stage' = [stage EXCEPT ![s] = to]
      /\ csv' = [csv EXCEPT ![which][s] = files]
  BY DEF WriteQueueResults, MainContinues
<1>3. stage'[s] = to /\ \A u \in Systems \ {s} : stage'[u] = stage[u]
  BY <1>1, <1>2, SystemsAreProcesses
<1>4. /\ DOMAIN csv' = Kinds /\ \A kind \in Kinds : DOMAIN csv'[kind] = Processes
      /\ \A kind \in Kinds, u \in Processes :
           (kind # which \/ u # s) => csv'[kind][u] = csv[kind][u]
      /\ csv'[which][s] = files
  BY <1>1, <1>2
<1>5. now[s] = EndTime /\ stage[s] \in AfterRun
  <2>1. QueuesOf(which, s) /\ stage[s] \in AfterRun
    BY <1>2 DEF QueuesInv, AfterRun
  <2> QED BY <2>1 DEF QueuesOf
<1>6. /\ BusyQueues' = BusyQueues /\ Systems' = Systems /\ tpc' = tpc
      /\ Kinds' = Kinds /\ Processes' = Processes /\ Units' = Units
  BY TrackingStays DEF tpVars, Kinds, Processes, Units
<1>7. QueuesThereAre'
  BY <1>2, <1>4, <1>6 DEF QueuesInv, QueuesThereAre
<1>8. ASSUME NEW kind \in Kinds, NEW u \in Systems, kind # which \/ u # s
      PROVE  QueuesOf(kind, u)'
  <2>1. QueuesOf(kind, u) /\ csv'[kind][u] = csv[kind][u]
    BY <1>4, <1>8, SystemsAreProcesses DEF QueuesInv
  <2>2. CASE u # s
    <3>1. stage'[u] = stage[u]
      BY <1>3, <2>2
    <3>2. /\ HasTrackers(kind, u)' => HasTrackers(kind, u)
          /\ HasWritten(kind, u)' => HasWritten(kind, u)
          /\ stage'[u] \in AfterRun => now'[u] = EndTime
          /\ stage'[u] \in BeforeFlows => stage[u] \in BeforeFlows
      BY <1>2, <2>1, <3>1 DEF HasTrackers, HasWritten, QueuesOf
    <3> QED BY <1>2, <2>1, <3>2, QueuesStay
  <2>3. CASE u = s
    <3>1. HasTrackers(kind, s)
      BY <1>5 DEF HasTrackers
    <3>2. HasWritten(kind, s)' => HasWritten(kind, s)
      BY <1>2, <1>3, <1>8, <2>3 DEF Kinds, HasWritten
    <3>3. stage'[s] \notin BeforeFlows /\ now'[s] = EndTime
      BY <1>2, <1>3, <1>5 DEF BeforeFlows
    <3> QED BY <1>2, <2>1, <2>3, <3>1, <3>2, <3>3, QueuesStay
  <2> QED BY <2>2, <2>3
<1>9. QueuesOf(which, s)'
  <2>1. QueuesOf(which, s) /\ HasTrackers(which, s)
    BY <1>5 DEF QueuesInv, HasTrackers
  <2>2. input'.tracking[which].enabled /\ HasTrackers(which, s)' => LogsAreExact(which, s)'
    <3>1. input' = input /\ sending' = sending
      BY DEF tpVars
    <3>2. \A link, v, unit : Held(which, link, v, unit)' = Held(which, link, v, unit)
      BY <1>2, <3>1 DEF Held
    <3>3. LogsAreExact(which, s) => LogsAreExact(which, s)'
      BY <1>2, <3>2, LogsStay
    <3> QED BY <2>1, <3>1, <3>3 DEF QueuesOf
  <2>3. ASSUME NEW unit \in Units PROVE csv'[which][s][unit] = FileOf(which, s, unit)'
    <3>1. FileOf(which, s, unit)' = FileOf(which, s, unit)
      BY <1>2 DEF FileOf
    <3>2. CASE unit = "pkt"
      BY <1>4, <1>5, <3>1, <3>2 DEF FileOf
    <3>3. CASE unit = "byte"
      BY <1>4, <1>5, <3>1, <3>3 DEF FileOf
    <3> QED BY <3>2, <3>3 DEF Units
  <2>4. stage'[s] \notin BeforeFlows /\ now'[s] = EndTime
    BY <1>2, <1>3, <1>5 DEF BeforeFlows
  <2> QED BY <1>6, <2>2, <2>3, <2>4 DEF QueuesOf
<1>10. \A kind \in Kinds, u \in Systems : QueuesOf(kind, u)'
  BY <1>8, <1>9
<1> QED BY <1>6, <1>7, <1>10 DEF QueuesInv

LEMMA QueuesInit == Init => QueuesInv
<1> SUFFICES ASSUME Init PROVE QueuesInv
  OBVIOUS
<1>1. /\ stage = [s \in Processes |-> "track_net_device"]
      /\ history = Empty /\ tpc = "ConfigureSimulation"
      /\ trackers = [kind \in Kinds |-> [s \in Processes |-> Empty]]
      /\ csv = [kind \in Kinds |-> [s \in Processes |-> [pkt |-> <<>>, byte |-> <<>>]]]
  BY DEF Init, SimInit, TpInit, QtInit
<1>2. QueuesThereAre
  BY <1>1 DEF QueuesThereAre, Empty
<1>3. ASSUME NEW kind \in Kinds, NEW s \in Systems PROVE QueuesOf(kind, s)
  <2>1. stage[s] = "track_net_device" /\ DOMAIN history = {}
    BY <1>1, SystemsAreProcesses DEF Empty
  <2> QED BY <2>1 DEF QueuesOf, HasTrackers, HasWritten, AfterRun
<1> QED BY <1>2, <1>3 DEF QueuesInv

LEMMA QueuesStep == TopologyInv /\ FlowsInv /\ QueuesInv /\ [Next]_vars => QueuesInv'
<1>1. ASSUME TopologyInv, FlowsInv, QueuesInv, NEW s \in Systems, SystemStep(s)
      PROVE  QueuesInv'
  <2>1. tpc = "done" /\ UNCHANGED tpVars
    BY <1>1 DEF SystemStep
  <2>2. CASE TrackerStep(s)
    BY <1>1, <2>1, <2>2, ConstructTrackingKeepsQueues, WriteQueueResultsKeepsQueues,
       TrafficKeepsQueues DEF TrackerStep
  <2>3. CASE FlowStep(s) \/ Tick(s)
    <3>1. UNCHANGED <<tpVars, qtVars>>
      BY <2>1, <2>3 DEF FlowStep, Tick
    <3> QED BY <1>1, <2>3, <3>1, FlowStepKeepsQueues
  <2> QED BY <1>1, <2>2, <2>3 DEF SystemStep
<1>2. ASSUME QueuesInv, UNCHANGED vars PROVE QueuesInv'
  <2>1. /\ UNCHANGED <<tpVars, qtVars>> /\ stage' = stage /\ now' = now
        /\ UNCHANGED tpVars /\ history' = history /\ trackers' = trackers /\ csv' = csv
        /\ queues' = queues /\ tpc' = tpc
    BY <1>2 DEF vars, simVars, qtVars, tpVars
  <2>2. BusyQueues' = BusyQueues /\ Systems' = Systems
    BY <2>1, TrackingStays DEF tpVars
  <2>3. QueuesThereAre'
    BY <1>2, <2>1, <2>2 DEF QueuesInv, QueuesThereAre, Kinds, Processes
  <2>4. ASSUME NEW kind \in Kinds, NEW s \in Systems PROVE QueuesOf(kind, s)'
    <3>1. QueuesOf(kind, s)
      BY <1>2 DEF QueuesInv
    <3>2. /\ HasTrackers(kind, s)' => HasTrackers(kind, s)
          /\ HasWritten(kind, s)' => HasWritten(kind, s)
          /\ stage'[s] \in AfterRun => now'[s] = EndTime
          /\ stage'[s] \in BeforeFlows => stage[s] \in BeforeFlows
      BY <2>1, <3>1 DEF HasTrackers, HasWritten, QueuesOf
    <3> QED BY <2>1, <3>1, <3>2, QueuesStay
  <2> QED BY <2>2, <2>3, <2>4 DEF QueuesInv, Kinds
<1> QED BY <1>1, <1>2, TopologyStepKeepsQueues DEF Next

\* The inductive invariant of queue tracking: the logs of a tracker are what
\* its queue has held, queues change in the system of their node only and not
\* before it has trackers, and what is written is made of logs that are final.
THEOREM QueuesInvariant == Spec => []QueuesInv
<1>1. Init => TopologyInv /\ FlowsInv /\ QueuesInv
  BY TopologyInit, FlowsInit, QueuesInit
<1>2. TopologyInv /\ FlowsInv /\ QueuesInv /\ [Next]_vars => TopologyInv' /\ FlowsInv' /\ QueuesInv'
  BY TopologyStep, FlowsStep, QueuesStep
<1> QED BY <1>1, <1>2, PTL DEF Spec

----------------------------------------------------------------------------
(* The rows of a file: the intervals of some logs, up to an end *)

StartsOf(log, end) == {t \in 0 .. end - 1 : t = 0 \/ log[t] # log[t - 1]}
NextOf(log, end, t) ==
  CHOOSE u \in StartsOf(log, end) \cup {end} :
    u > t /\ \A v \in StartsOf(log, end) : v > t => u <= v
RowAt(link, log, end, t) == <<link, t, NextOf(log, end, t), log[t]>>

LEMMA NextStart ==
  ASSUME NEW log, NEW end \in Nat, NEW t \in 0 .. end - 1
  PROVE  /\ NextOf(log, end, t) \in StartsOf(log, end) \cup {end}
         /\ NextOf(log, end, t) \in Nat /\ t < NextOf(log, end, t) /\ NextOf(log, end, t) <= end
         /\ \A v \in StartsOf(log, end) : t < v => NextOf(log, end, t) <= v
<1> DEFINE starts == StartsOf(log, end)
           U == {u \in starts \cup {end} : u > t}
<1>1. starts \subseteq 0 .. end - 1
  BY DEF StartsOf
<1>2. U \in SUBSET Nat /\ end \in U
  BY <1>1
<1>3. \E m \in U : \A l \in U : ~(l < m)
  BY <1>2, LeastNumber
<1> HIDE DEF starts
<1>4. \E u \in starts \cup {end} : u > t /\ \A v \in starts : v > t => u <= v
  <2>1. PICK m \in U : \A l \in U : ~(l < m)
    BY <1>3
  <2>2. ASSUME NEW v \in starts, v > t PROVE m <= v
    <3>1. v \in U /\ v \in Nat /\ m \in Nat
      BY <1>2, <2>2
    <3> QED BY <2>1, <3>1
  <2> QED BY <2>1, <2>2
<1> DEFINE next == NextOf(log, end, t)
<1>5. next \in starts \cup {end} /\ next > t /\ \A v \in starts : v > t => next <= v
  BY <1>4 DEF NextOf, starts
<1> HIDE DEF next
<1>6. next \in Nat /\ next <= end
  BY <1>1, <1>5
<1>7. \A v \in starts : t < v => next <= v
  BY <1>1, <1>5
<1> QED BY <1>5, <1>6, <1>7 DEF next, starts

\* Until the next start, the log stays what it is.
LEMMA SameUntilNext ==
  ASSUME NEW log, NEW end \in Nat, NEW t \in 0 .. end - 1,
         NEW u \in Nat, t <= u, u < NextOf(log, end, t)
  PROVE  log[u] = log[t]
<1> DEFINE next == NextOf(log, end, t)
           bad == {v \in Nat : t <= v /\ v < next /\ log[v] # log[t]}
<1>1. /\ next \in Nat /\ next <= end
      /\ \A v \in StartsOf(log, end) : t < v => next <= v
  BY NextStart
<1> HIDE DEF next
<1>2. ASSUME NEW v \in bad PROVE \E w \in bad : w < v
  <2>1. t < v /\ v \in Nat /\ v < next
    <3>1. v # t
      BY <1>2
    <3> QED BY <1>2, <3>1
  <2>2. v \notin StartsOf(log, end)
    BY <1>1, <2>1
  <2>3. v \in 0 .. end - 1 /\ v # 0
    BY <1>1, <2>1
  <2>4. log[v] = log[v - 1]
    BY <2>2, <2>3 DEF StartsOf
  <2>5. v - 1 \in bad /\ v - 1 < v
    BY <1>1, <1>2, <2>1, <2>4
  <2> QED BY <2>5
<1>3. bad = {}
  BY <1>2, LeastNumber
<1> QED BY <1>3 DEF next

\* Each instant before the end is in the interval of a start.
LEMMA CoveredByStart ==
  ASSUME NEW log, NEW end \in Nat, NEW t \in 0 .. end - 1
  PROVE  \E v \in StartsOf(log, end) : v <= t /\ t < NextOf(log, end, v)
<1> DEFINE back == {d \in Nat : d <= t /\ t - d \in StartsOf(log, end)}
<1>1. t \in back
  BY DEF StartsOf
<1>2. PICK d \in back : \A l \in back : ~(l < d)
  BY <1>1, LeastNumber
<1> DEFINE v == t - d
           next == NextOf(log, end, v)
<1>3. v \in StartsOf(log, end) /\ v \in 0 .. end - 1 /\ v <= t
  <2>1. d \in Nat /\ d <= t /\ v \in StartsOf(log, end)
    BY <1>2
  <2> QED BY <2>1 DEF StartsOf
<1>4. next \in Nat /\ v < next /\ next \in StartsOf(log, end) \cup {end}
  BY <1>3, NextStart
<1>5. t < next
  <2>1. SUFFICES ASSUME next <= t PROVE FALSE
    BY <1>4
  <2>2. next \in StartsOf(log, end)
    BY <1>4, <2>1
  <2> HIDE DEF next
  <2>3. t - next \in Nat /\ t - (t - next) = next /\ t - next <= t
    BY <1>4, <2>1
  <2>4. t - next \in back
    BY <2>2, <2>3
  <2>5. t - next < d
    BY <1>2, <1>3, <1>4
  <2> QED BY <1>2, <2>4, <2>5
<1> QED BY <1>3, <1>5

\* A file has a row for each interval of each log, link after link, and one
\* interval of a link after the other.
LEMMA RowsInOrder ==
  ASSUME NEW links, IsFiniteSet(links),
         \A l \in links : l = <<l[1], l[2]>> /\ l[1] \in Int /\ l[2] \in Int,
         NEW log, NEW end \in Nat
  PROVE  LET file == Rows(links, log, end)
         IN \E n \in Nat :
              /\ DOMAIN file = 1 .. n
              /\ \A i \in 1 .. n : \E l \in links : \E t \in StartsOf(log[l], end) :
                   file[i] = RowAt(l, log[l], end, t)
              /\ \A l \in links : \A t \in StartsOf(log[l], end) : \E i \in 1 .. n :
                   file[i] = RowAt(l, log[l], end, t)
              /\ \A i, j \in 1 .. n : i < j => Earlier(file[i], file[j])
<1> DEFINE all == UNION {Intervals(link, log[link], end) : link \in links}
           R == {p \in all \X all : Earlier(p[1], p[2])}
           file == Rows(links, log, end)
           P == {p \in links \X (0 .. end - 1) : p[2] \in StartsOf(log[p[1]], end)}
           f == [p \in P |-> RowAt(p[1], log[p[1]], end, p[2])]
<1>1. \A l \in links :
        Intervals(l, log[l], end) = {RowAt(l, log[l], end, t) : t \in StartsOf(log[l], end)}
  BY DEF Intervals, RowAt, NextOf, StartsOf
<1>2. \A l : StartsOf(log[l], end) \subseteq 0 .. end - 1
  BY DEF StartsOf
<1>3. \A r : r \in all <=> \E l \in links : \E t \in StartsOf(log[l], end) :
                             r = RowAt(l, log[l], end, t)
  BY <1>1
<1>4. IsFiniteSet(all)
  <2>1. IsFiniteSet(0 .. end - 1)
    <3>1. 0 \in Int /\ end - 1 \in Int
      OBVIOUS
    <3> QED BY <3>1, FS_Interval
  <2>2. IsFiniteSet(links \X (0 .. end - 1))
    BY <2>1, FS_Product
  <2>3. IsFiniteSet(P)
    BY <2>2, FS_Subset
  <2>4. \A l \in links : \A t \in StartsOf(log[l], end) :
          <<l, t>> \in P /\ f[<<l, t>>] = RowAt(l, log[l], end, t)
    BY <1>2
  <2>5. \A p \in P : f[p] \in all
    <3>1. ASSUME NEW p \in P PROVE f[p] \in all
      <4>1. /\ p[1] \in links /\ p[2] \in StartsOf(log[p[1]], end)
            /\ f[p] = RowAt(p[1], log[p[1]], end, p[2])
        OBVIOUS
      <4> HIDE DEF all, f
      <4> QED BY <1>3, <4>1
    <3> QED BY <3>1
  <2>6. \A r \in all : \E p \in P : f[p] = r
    <3>1. ASSUME NEW r \in all PROVE \E p \in P : f[p] = r
      <4>1. PICK l \in links : \E t \in StartsOf(log[l], end) : r = RowAt(l, log[l], end, t)
        BY <1>3
      <4>2. PICK t \in StartsOf(log[l], end) : r = RowAt(l, log[l], end, t)
        BY <4>1
      <4> HIDE DEF all, f, P
      <4> QED BY <2>4, <4>2
    <3> QED BY <3>1
  <2>7. DOMAIN f = P
    OBVIOUS
  <2> HIDE DEF all, P
  <2>8. f \in Surjection(P, all)
    <3>1. f \in [P -> all]
      BY <2>5, <2>7
    <3> QED BY <2>6, <3>1 DEF Surjection
  <2> QED BY <2>3, <2>8, FS_Surjection
<1>5. ASSUME NEW r \in all
      PROVE  /\ r[1] \in links /\ r[1] = <<r[1][1], r[1][2]>>
             /\ r[1][1] \in Int /\ r[1][2] \in Int /\ r[2] \in Int
             /\ r = RowAt(r[1], log[r[1]], end, r[2])
  <2>1. PICK l \in links : \E t \in StartsOf(log[l], end) : r = RowAt(l, log[l], end, t)
    BY <1>3
  <2>2. PICK t \in StartsOf(log[l], end) : r = RowAt(l, log[l], end, t)
    BY <2>1
  <2>3. r[1] = l /\ r[2] = t
    BY <2>2 DEF RowAt
  <2>4. t \in Int
    BY <1>2
  <2> QED BY <2>2, <2>3, <2>4
<1> HIDE DEF all
<1>6. \A r, q \in all :
        <<r, q>> \in R <=>
          \/ r[1][1] < q[1][1] \/ (r[1][1] = q[1][1] /\ r[1][2] < q[1][2])
          \/ r[1] = q[1] /\ r[2] < q[2]
  BY DEF Earlier, ascending_by_directed_link
<1>7. IsStrictOrder(all, R)
  <2>1. ASSUME NEW r \in all PROVE <<r, r>> \notin R
    BY <1>5, <1>6
  <2>2. ASSUME NEW r \in all, NEW q \in all, NEW p \in all, <<r, q>> \in R, <<q, p>> \in R
        PROVE  <<r, p>> \in R
    BY <1>5, <1>6, <2>2
  <2>3. ASSUME NEW r \in all, NEW q \in all, <<r, q>> \notin R, <<q, r>> \notin R
        PROVE  r = q
    <3>1. r[1][1] = q[1][1] /\ r[1][2] = q[1][2]
      BY <1>5, <1>6, <2>3
    <3>2. r[1] = q[1]
      BY <1>5, <3>1
    <3>3. r[2] = q[2]
      BY <1>5, <1>6, <2>3, <3>2
    <3> QED BY <1>5, <3>2, <3>3
  <2> HIDE DEF R
  <2> QED BY <2>1, <2>2, <2>3 DEF IsStrictOrder
<1> DEFINE n == Cardinality(all)
<1>8. n \in Nat
  BY <1>4, FS_CardinalityType
<1>9. file = InOrder(all, R)
  BY DEF Rows, all
<1> HIDE DEF file, R
<1>10. /\ file \in [1 .. n -> all]
       /\ \A x \in all : \E k \in 1 .. n : file[k] = x
       /\ \A k, l \in 1 .. n : k < l => <<file[k], file[l]>> \in R
  BY <1>4, <1>7, <1>9, InOrderSorts
<1> HIDE DEF n
<1>11. DOMAIN file = 1 .. n /\ \A i \in 1 .. n : file[i] \in all
  BY <1>10
<1>12. \A i \in 1 .. n : \E l \in links : \E t \in StartsOf(log[l], end) :
         file[i] = RowAt(l, log[l], end, t)
  BY <1>3, <1>11
<1>13. \A l \in links : \A t \in StartsOf(log[l], end) : \E i \in 1 .. n :
         file[i] = RowAt(l, log[l], end, t)
  <2>1. \A l \in links : \A t \in StartsOf(log[l], end) : RowAt(l, log[l], end, t) \in all
    BY <1>3
  <2> QED BY <1>10, <2>1
<1>14. \A i, j \in 1 .. n : i < j => Earlier(file[i], file[j])
  BY <1>10, <1>11 DEF R
<1> QED BY <1>8, <1>11, <1>12, <1>13, <1>14 DEF file

\* What a file has of a link and an instant: one row, with what the log says;
\* and a row begins where the one before it, of the same link, ends.
LEMMA RowsSayOnce ==
  ASSUME NEW links, IsFiniteSet(links),
         \A l \in links : l = <<l[1], l[2]>> /\ l[1] \in Int /\ l[2] \in Int,
         NEW log, NEW end \in Nat
  PROVE  LET file == Rows(links, log, end)
             Hit(i, l, t) == file[i][1] = l /\ file[i][2] <= t /\ t < file[i][3]
         IN /\ \A i \in DOMAIN file : file[i][1] \in links
            /\ \A l \in links : \A t \in 0 .. end - 1 :
                 /\ \E i \in DOMAIN file : Hit(i, l, t)
                 /\ \A i, j \in DOMAIN file : Hit(i, l, t) /\ Hit(j, l, t) => i = j
                 /\ \A i \in DOMAIN file : Hit(i, l, t) => file[i][4] = log[l][t]
            /\ \A i \in DOMAIN file :
                 i > 1 => \/ ascending_by_directed_link(file[i - 1][1], file[i][1])
                          \/ /\ file[i - 1][1] = file[i][1]
                             /\ file[i - 1][3] = file[i][2]
                             /\ file[i - 1][4] # file[i][4]
<1> DEFINE file == Rows(links, log, end)
           Hit(i, l, t) == file[i][1] = l /\ file[i][2] <= t /\ t < file[i][3]
<1>1. PICK n \in Nat :
        /\ DOMAIN file = 1 .. n
        /\ \A i \in 1 .. n : \E l \in links : \E t \in StartsOf(log[l], end) :
             file[i] = RowAt(l, log[l], end, t)
        /\ \A l \in links : \A t \in StartsOf(log[l], end) : \E i \in 1 .. n :
             file[i] = RowAt(l, log[l], end, t)
        /\ \A i, j \in 1 .. n : i < j => Earlier(file[i], file[j])
  BY RowsInOrder
<1> HIDE DEF file
<1>2. ASSUME NEW i \in 1 .. n
      PROVE  LET l == file[i][1]
                 t == file[i][2]
             IN /\ l \in links /\ l[1] \in Int /\ l[2] \in Int
                /\ t \in StartsOf(log[l], end) /\ t \in 0 .. end - 1
                /\ file[i][3] = NextOf(log[l], end, t) /\ file[i][4] = log[l][t]
                /\ file[i][3] \in Nat /\ t < file[i][3]
  <2>1. PICK l \in links : \E t \in StartsOf(log[l], end) : file[i] = RowAt(l, log[l], end, t)
    BY <1>1
  <2>2. PICK t \in StartsOf(log[l], end) : file[i] = RowAt(l, log[l], end, t)
    BY <2>1
  <2>3. /\ file[i][1] = l /\ file[i][2] = t /\ file[i][3] = NextOf(log[l], end, t)
        /\ file[i][4] = log[l][t]
    BY <2>2 DEF RowAt
  <2>4. t \in 0 .. end - 1
    BY <2>2 DEF StartsOf
  <2>5. NextOf(log[l], end, t) \in Nat /\ t < NextOf(log[l], end, t)
    BY <2>4, NextStart
  <2> QED BY <2>2, <2>3, <2>4, <2>5
<1>3. ASSUME NEW i \in 1 .. n, NEW j \in 1 .. n, i < j, file[i][1] = file[j][1]
      PROVE  file[i][2] < file[j][2] /\ file[i][3] <= file[j][2]
  <2>1. Earlier(file[i], file[j])
    BY <1>1, <1>3
  <2>2. ~ascending_by_directed_link(file[i][1], file[j][1])
    BY <1>2, <1>3 DEF ascending_by_directed_link
  <2>3. file[i][2] < file[j][2]
    BY <2>1, <2>2 DEF Earlier
  <2>4. /\ file[i][2] \in 0 .. end - 1 /\ file[j][2] \in StartsOf(log[file[i][1]], end)
        /\ file[i][3] = NextOf(log[file[i][1]], end, file[i][2])
    BY <1>2, <1>3
  <2> QED BY <2>3, <2>4, NextStart
<1>4. ASSUME NEW l \in links, NEW t \in 0 .. end - 1
      PROVE  \E i \in 1 .. n : Hit(i, l, t)
  <2>1. PICK v \in StartsOf(log[l], end) : v <= t /\ t < NextOf(log[l], end, v)
    BY CoveredByStart
  <2>2. PICK i \in 1 .. n : file[i] = RowAt(l, log[l], end, v)
    BY <1>1
  <2>3. file[i][1] = l /\ file[i][2] = v /\ file[i][3] = NextOf(log[l], end, v)
    BY <2>2 DEF RowAt
  <2> QED BY <2>1, <2>3
<1>5. ASSUME NEW l, NEW t \in 0 .. end - 1,
             NEW i \in 1 .. n, NEW j \in 1 .. n, Hit(i, l, t), Hit(j, l, t)
      PROVE  i = j
  <2>1. /\ file[i][2] \in Int /\ file[j][2] \in Int /\ file[i][3] \in Int /\ file[j][3] \in Int
        /\ file[i][1] = file[j][1]
    BY <1>2, <1>5
  <2>2. ~(i < j)
    <3>1. SUFFICES ASSUME i < j PROVE FALSE
      OBVIOUS
    <3>2. file[i][3] <= file[j][2]
      BY <1>3, <2>1, <3>1
    <3> QED BY <1>5, <2>1, <3>2
  <2>3. ~(j < i)
    <3>1. SUFFICES ASSUME j < i PROVE FALSE
      OBVIOUS
    <3>2. file[j][3] <= file[i][2]
      BY <1>3, <2>1, <3>1
    <3> QED BY <1>5, <2>1, <3>2
  <2> QED BY <2>2, <2>3
<1>6. ASSUME NEW l, NEW t \in 0 .. end - 1, NEW i \in 1 .. n, Hit(i, l, t)
      PROVE  file[i][4] = log[l][t]
  <2> DEFINE v == file[i][2]
  <2>1. /\ v \in 0 .. end - 1 /\ v <= t /\ t < NextOf(log[l], end, v)
        /\ file[i][4] = log[l][v]
    BY <1>2, <1>6
  <2> HIDE DEF v
  <2>2. log[l][t] = log[l][v]
    <3>1. t \in Nat
      OBVIOUS
    <3> QED BY <2>1, <3>1, SameUntilNext
  <2> QED BY <2>1, <2>2
<1>7. ASSUME NEW i \in 1 .. n, i > 1,
             ~ascending_by_directed_link(file[i - 1][1], file[i][1])
      PROVE  /\ file[i - 1][1] = file[i][1] /\ file[i - 1][3] = file[i][2]
             /\ file[i - 1][4] # file[i][4]
  <2> DEFINE k == i - 1
             l == file[i][1]
             u == file[k][2]
             v == file[i][2]
             next == file[k][3]
  <2>1. k \in 1 .. n /\ k < i /\ i = k + 1
    BY <1>7
  <2>2. Earlier(file[k], file[i])
    BY <1>1, <2>1
  <2>3. file[k][1] = l
    BY <1>7, <2>2 DEF Earlier
  <2>4. /\ u \in 0 .. end - 1 /\ next = NextOf(log[l], end, u) /\ file[k][4] = log[l][u]
        /\ next \in Nat /\ u < next
    BY <1>2, <2>1, <2>3
  <2>5. /\ v \in StartsOf(log[l], end) /\ v \in 0 .. end - 1 /\ file[i][4] = log[l][v]
        /\ l \in links
    BY <1>2
  <2>6. u < v /\ next <= v
    BY <1>3, <2>1, <2>3
  <2> HIDE DEF k, l, u, v, next
  <2>7. next \in StartsOf(log[l], end) \cup {end}
    BY <2>4, NextStart
  <2>8. next = v
    <3>1. SUFFICES ASSUME next < v PROVE FALSE
      BY <2>4, <2>5, <2>6
    <3>2. next \in StartsOf(log[l], end)
      BY <2>5, <2>7, <3>1
    <3>3. PICK j \in 1 .. n : file[j] = RowAt(l, log[l], end, next)
      BY <1>1, <2>5, <3>2
    <3>4. file[j][1] = l /\ file[j][2] = next
      BY <3>3 DEF RowAt
    <3>5. ~(j < k)
      <4>1. SUFFICES ASSUME j < k PROVE FALSE
        OBVIOUS
      <4>2. file[j][2] < file[k][2]
        BY <1>3, <2>1, <2>3, <3>4, <4>1
      <4> QED BY <2>4, <3>4, <4>2 DEF u
    <3>6. j # k
      BY <2>4, <3>4 DEF u
    <3>7. ~(i < j)
      <4>1. SUFFICES ASSUME i < j PROVE FALSE
        OBVIOUS
      <4>2. file[i][2] < file[j][2]
        BY <1>3, <3>4, <4>1 DEF l
      <4> QED BY <2>4, <2>5, <3>1, <3>4, <4>2 DEF v
    <3>8. j # i
      BY <2>4, <2>5, <3>1, <3>4 DEF v
    <3> QED BY <2>1, <3>5, <3>6, <3>7, <3>8
  <2>9. log[l][v] # log[l][v - 1]
    BY <2>4, <2>5, <2>6 DEF StartsOf
  <2>10. log[l][v - 1] = log[l][u]
    <3>1. v - 1 \in Nat /\ u <= v - 1 /\ v - 1 < NextOf(log[l], end, u)
      BY <2>4, <2>5, <2>6, <2>8
    <3> QED BY <2>4, <3>1, SameUntilNext
  <2> QED BY <2>3, <2>4, <2>5, <2>8, <2>9, <2>10 DEF k, l, u, v, next
<1>8. \A i \in DOMAIN file : file[i][1] \in links
  BY <1>1, <1>2
<1>9. \A l \in links : \A t \in 0 .. end - 1 :
        /\ \E i \in DOMAIN file : Hit(i, l, t)
        /\ \A i, j \in DOMAIN file : Hit(i, l, t) /\ Hit(j, l, t) => i = j
        /\ \A i \in DOMAIN file : Hit(i, l, t) => file[i][4] = log[l][t]
  <2> HIDE DEF Hit
  <2> QED BY <1>1, <1>4, <1>5, <1>6
<1>10. \A i \in DOMAIN file :
         i > 1 => \/ ascending_by_directed_link(file[i - 1][1], file[i][1])
                  \/ /\ file[i - 1][1] = file[i][1]
                     /\ file[i - 1][3] = file[i][2]
                     /\ file[i - 1][4] # file[i][4]
  BY <1>1, <1>7
<1> QED BY <1>8, <1>9, <1>10 DEF file

LEMMA LinksAreFinite ==
  ASSUME WellFormed(graph), NEW links, links \subseteq Links(graph.edges)
  PROVE  /\ IsFiniteSet(links)
         /\ \A l \in links : l = <<l[1], l[2]>> /\ l[1] \in Int /\ l[2] \in Int
<1> DEFINE nodes == 0 .. graph.nodes - 1
<1>1. graph.nodes \in Nat
      /\ \A e \in graph.edges : e \in nodes \X nodes /\ e = <<e[1], e[2]>>
  BY DEF WellFormed
<1>2. IsFiniteSet(nodes)
  <2>1. 0 \in Int /\ graph.nodes - 1 \in Int
    BY <1>1
  <2> QED BY <2>1, FS_Interval
<1>3. IsFiniteSet(nodes \X nodes)
  BY <1>2, FS_Product
<1>4. Links(graph.edges) \subseteq nodes \X nodes
  <2>1. \A e \in graph.edges : e \in nodes \X nodes /\ Reversed(e) \in nodes \X nodes
    BY <1>1 DEF Reversed
  <2> HIDE DEF nodes
  <2> QED BY <2>1 DEF Links
<1>5. IsFiniteSet(links)
  <2>1. links \subseteq nodes \X nodes
    BY <1>4
  <2> QED BY <1>3, <2>1, FS_Subset
<1>6. \A l \in nodes \X nodes : l = <<l[1], l[2]>> /\ l[1] \in Int /\ l[2] \in Int
  BY <1>1
<1> QED BY <1>4, <1>5, <1>6

\* What is in the file of a system that is done.
LEMMA FileOfSystem ==
  ASSUME TopologyInv, FlowsInv, QueuesInv, NEW kind \in Kinds, input.tracking[kind].enabled,
         NEW s \in Systems, stage[s] = "over", NEW unit \in Units
  PROVE  LET file == csv[kind][s][unit]
             links == LinksFrom(s, EnabledFor(kind))
             Hit(i, l, t) == file[i][1] = l /\ file[i][2] <= t /\ t < file[i][3]
         IN /\ tpc = "done"
            /\ assignment # NotDistributed =>
                 \A link \in EnabledFor(kind) : HasSystem(assignment, link[1])
            /\ links \subseteq Links(graph.edges)
            /\ \A i \in DOMAIN file : file[i][1] \in links
            /\ \A l \in links : \A t \in 0 .. EndTime - 1 :
                 /\ \E i \in DOMAIN file : Hit(i, l, t)
                 /\ \A i, j \in DOMAIN file : Hit(i, l, t) /\ Hit(j, l, t) => i = j
                 /\ \A i \in DOMAIN file : Hit(i, l, t) => file[i][4] = Held(kind, l, t, unit)
            /\ \A i \in DOMAIN file :
                 i > 1 => \/ ascending_by_directed_link(file[i - 1][1], file[i][1])
                          \/ /\ file[i - 1][1] = file[i][1]
                             /\ file[i - 1][3] = file[i][2]
                             /\ file[i - 1][4] # file[i][4]
<1> DEFINE links == LinksFrom(s, EnabledFor(kind))
           log == [l \in links |-> trackers[kind][s][l][unit]]
<1>1. tpc = "done" /\ WellFormed(graph)
  <2>1. FlowsOf(s)
    BY SystemsAreProcesses DEF FlowsInv
  <2>2. tpc = "done"
    BY <2>1 DEF FlowsOf
  <2> QED BY <2>2 DEF TopologyInv
<1>2. LogsAreExact(kind, s) /\ csv[kind][s][unit] = FileOf(kind, s, unit)
  <2>1. QueuesOf(kind, s) /\ HasTrackers(kind, s) /\ HasWritten(kind, s)
    BY DEF QueuesInv, HasTrackers, HasWritten, AfterRun
  <2> QED BY <2>1 DEF QueuesOf
<1>3. /\ DOMAIN trackers[kind][s] = links /\ links \subseteq Links(graph.edges)
      /\ assignment # NotDistributed =>
           \A link \in EnabledFor(kind) : HasSystem(assignment, link[1])
      /\ \A l \in links : \A t \in Times : trackers[kind][s][l][unit][t] = Held(kind, l, t, unit)
  BY <1>2 DEF LogsAreExact
<1>4. csv[kind][s][unit] = Rows(links, log, EndTime)
  BY <1>2, <1>3 DEF FileOf
<1>5. \A l \in links : \A t \in 0 .. EndTime - 1 : log[l][t] = Held(kind, l, t, unit)
  BY <1>3, EndAssumption DEF Times
<1>6. /\ IsFiniteSet(links)
      /\ \A l \in links : l = <<l[1], l[2]>> /\ l[1] \in Int /\ l[2] \in Int
  BY <1>1, <1>3, LinksAreFinite
<1>7. EndTime \in Nat
  BY EndAssumption
<1> DEFINE file == csv[kind][s][unit]
           Hit(i, l, t) == file[i][1] = l /\ file[i][2] <= t /\ t < file[i][3]
<1> HIDE DEF log, links
<1>8. /\ \A i \in DOMAIN file : file[i][1] \in links
      /\ \A l \in links : \A t \in 0 .. EndTime - 1 :
           /\ \E i \in DOMAIN file : Hit(i, l, t)
           /\ \A i, j \in DOMAIN file : Hit(i, l, t) /\ Hit(j, l, t) => i = j
           /\ \A i \in DOMAIN file : Hit(i, l, t) => file[i][4] = log[l][t]
      /\ \A i \in DOMAIN file :
           i > 1 => \/ ascending_by_directed_link(file[i - 1][1], file[i][1])
                    \/ /\ file[i - 1][1] = file[i][1]
                       /\ file[i - 1][3] = file[i][2]
                       /\ file[i - 1][4] # file[i][4]
  BY <1>4, <1>6, <1>7, RowsSayOnce
<1>9. \A l \in links : \A t \in 0 .. EndTime - 1 : \A i \in DOMAIN file :
        Hit(i, l, t) => file[i][4] = Held(kind, l, t, unit)
  <2> HIDE DEF Hit
  <2> QED BY <1>5, <1>8
<1> QED BY <1>1, <1>3, <1>8, <1>9 DEF links

\* Whatever is tracked, in however many systems, and whatever the traffic is:
\* the files say of each link and instant once what the queue has held.
THEOREM QueueRows == Spec => []QueueRowsAreExact
<1>1. TopologyInv /\ FlowsInv /\ QueuesInv => QueueRowsAreExact
  <2> SUFFICES ASSUME TopologyInv, FlowsInv, QueuesInv, \A s \in Systems : stage[s] = "over",
                      NEW kind \in {k \in Kinds : input.tracking[k].enabled},
                      NEW unit \in {"pkt", "byte"}
               PROVE  LET file(s) == csv[kind][s][unit]
                          held(link, t) == LET q == <<kind, DeviceOf(link)>>
                                           IN IF q \in DOMAIN history THEN history[q][t][unit] ELSE 0
                      IN /\ \A link \in EnabledFor(kind) : \A t \in 0 .. EndTime - 1 :
                              LET hits == {h \in UNION {{s} \X DOMAIN file(s) : s \in Systems} :
                                             LET row == file(h[1])[h[2]]
                                             IN row[1] = link /\ row[2] <= t /\ t < row[3]}
                              IN /\ Cardinality(hits) = 1
                                 /\ \A h \in hits : file(h[1])[h[2]][4] = held(link, t)
                         /\ \A s \in Systems : \A i \in DOMAIN file(s) :
                              /\ file(s)[i][1] \in EnabledFor(kind)
                              /\ i > 1 =>
                                   \/ ascending_by_directed_link(file(s)[i - 1][1], file(s)[i][1])
                                   \/ /\ file(s)[i - 1][1] = file(s)[i][1]
                                      /\ file(s)[i - 1][3] = file(s)[i][2]
                                      /\ file(s)[i - 1][4] # file(s)[i][4]
    BY DEF QueueRowsAreExact
  <2> DEFINE file(s) == csv[kind][s][unit]
             held(link, t) == LET q == <<kind, DeviceOf(link)>>
                              IN IF q \in DOMAIN history THEN history[q][t][unit] ELSE 0
             links(s) == LinksFrom(s, EnabledFor(kind))
             Hit(s, i, l, t) == file(s)[i][1] = l /\ file(s)[i][2] <= t /\ t < file(s)[i][3]
  <2>1. kind \in Kinds /\ input.tracking[kind].enabled /\ unit \in Units
    BY DEF Units
  <2>2. tpc = "done"
    <3>1. 0 \in Systems
      BY SystemsAreProcesses, MpiAssumption
    <3> QED BY <2>1, <3>1, FileOfSystem
  <2>3. ASSUME NEW s \in Systems
        PROVE  /\ assignment # NotDistributed =>
                    \A link \in EnabledFor(kind) : HasSystem(assignment, link[1])
               /\ links(s) \subseteq Links(graph.edges)
               /\ \A i \in DOMAIN file(s) : file(s)[i][1] \in links(s)
               /\ \A l \in links(s) : \A t \in 0 .. EndTime - 1 :
                    /\ \E i \in DOMAIN file(s) : Hit(s, i, l, t)
                    /\ \A i, j \in DOMAIN file(s) : Hit(s, i, l, t) /\ Hit(s, j, l, t) => i = j
                    /\ \A i \in DOMAIN file(s) :
                         Hit(s, i, l, t) => file(s)[i][4] = Held(kind, l, t, unit)
               /\ \A i \in DOMAIN file(s) :
                    i > 1 =>
                      \/ ascending_by_directed_link(file(s)[i - 1][1], file(s)[i][1])
                      \/ /\ file(s)[i - 1][1] = file(s)[i][1]
                         /\ file(s)[i - 1][3] = file(s)[i][2]
                         /\ file(s)[i - 1][4] # file(s)[i][4]
    BY <2>1, FileOfSystem
  <2>4. \A s \in Systems : \A link : link \in links(s) <=>
          link \in EnabledFor(kind) /\ IsMine(assignment, s, link[1])
    BY DEF LinksFrom
  <2> DEFINE Hits(l, t) == {h \in UNION {{s} \X DOMAIN file(s) : s \in Systems} :
                              Hit(h[1], h[2], l, t)}
  <2> HIDE DEF links, file
  <2>5. ASSUME NEW link \in EnabledFor(kind), NEW t \in 0 .. EndTime - 1
        PROVE  /\ Cardinality(Hits(link, t)) = 1
               /\ \A h \in Hits(link, t) : file(h[1])[h[2]][4] = held(link, t)
    <3>1. PICK s \in Systems : IsMine(assignment, s, link[1])
      <4>1. 0 \in Systems
        BY SystemsAreProcesses, MpiAssumption
      <4>2. assignment # NotDistributed => HasSystem(assignment, link[1])
        BY <2>3, <4>1
      <4> QED BY <2>2, <4>2, SomeSystem
    <3>2. link \in links(s) /\ link \in Links(graph.edges)
      BY <2>3, <2>4, <3>1
    <3>3. link[1] \in 0 .. graph.nodes - 1 /\ DeviceOf(link) = sending[link]
      BY <2>2, <3>2, DeviceOfLink
    <3>4. Held(kind, link, t, unit) = held(link, t)
      BY <3>3 DEF Held
    <3> HIDE DEF held
    <3>5. PICK i \in DOMAIN file(s) : Hit(s, i, link, t)
      BY <2>3, <3>2
    <3>6. file(s)[i][4] = held(link, t)
      BY <2>3, <3>2, <3>4, <3>5
    <3>7. <<s, i>> \in Hits(link, t)
      <4>1. <<s, i>> \in {s} \X DOMAIN file(s)
        OBVIOUS
      <4> HIDE DEF Hit
      <4> QED BY <3>5, <4>1
    <3>8. ASSUME NEW h \in Hits(link, t) PROVE h = <<s, i>>
      <4>1. PICK u \in Systems : h \in {u} \X DOMAIN file(u)
        OBVIOUS
      <4>2. h[1] = u /\ h[2] \in DOMAIN file(u) /\ h = <<u, h[2]>>
        BY <4>1
      <4>3. Hit(u, h[2], link, t)
        BY <4>2
      <4>4. link \in links(u)
        BY <2>3, <4>2, <4>3
      <4>5. u = s
        BY <2>2, <2>4, <3>1, <3>3, <4>4, OnlySystem
      <4>6. h[2] = i
        BY <2>3, <3>2, <3>5, <4>2, <4>3, <4>5
      <4> QED BY <4>2, <4>5, <4>6
    <3>9. Hits(link, t) = {<<s, i>>}
      BY <3>7, <3>8
    <3> HIDE DEF Hits
    <3>10. Cardinality(Hits(link, t)) = 1
      BY <3>9, FS_Singleton
    <3>11. ASSUME NEW h \in Hits(link, t) PROVE file(h[1])[h[2]][4] = held(link, t)
      <4>1. h[1] = s /\ h[2] = i
        BY <3>8
      <4> QED BY <3>6, <4>1
    <3> QED BY <3>10, <3>11
  <2>6. ASSUME NEW s \in Systems, NEW i \in DOMAIN file(s)
        PROVE  /\ file(s)[i][1] \in EnabledFor(kind)
               /\ i > 1 =>
                    \/ ascending_by_directed_link(file(s)[i - 1][1], file(s)[i][1])
                    \/ /\ file(s)[i - 1][1] = file(s)[i][1]
                       /\ file(s)[i - 1][3] = file(s)[i][2]
                       /\ file(s)[i - 1][4] # file(s)[i][4]
    BY <2>3, <2>4
  <2> HIDE DEF held
  <2>7. ASSUME NEW link \in EnabledFor(kind), NEW t \in 0 .. EndTime - 1
        PROVE  LET hits == {h \in UNION {{s} \X DOMAIN file(s) : s \in Systems} :
                              LET row == file(h[1])[h[2]]
                              IN row[1] = link /\ row[2] <= t /\ t < row[3]}
               IN /\ Cardinality(hits) = 1
                  /\ \A h \in hits : file(h[1])[h[2]][4] = held(link, t)
    BY <2>5
  <2>8. /\ \A link \in EnabledFor(kind) : \A t \in 0 .. EndTime - 1 :
             LET hits == {h \in UNION {{s} \X DOMAIN file(s) : s \in Systems} :
                            LET row == file(h[1])[h[2]]
                            IN row[1] = link /\ row[2] <= t /\ t < row[3]}
             IN /\ Cardinality(hits) = 1
                /\ \A h \in hits : file(h[1])[h[2]][4] = held(link, t)
        /\ \A s \in Systems : \A i \in DOMAIN file(s) :
             /\ file(s)[i][1] \in EnabledFor(kind)
             /\ i > 1 =>
                  \/ ascending_by_directed_link(file(s)[i - 1][1], file(s)[i][1])
                  \/ /\ file(s)[i - 1][1] = file(s)[i][1]
                     /\ file(s)[i - 1][3] = file(s)[i][2]
                     /\ file(s)[i - 1][4] # file(s)[i][4]
    BY <2>6, <2>7
  <2> QED BY <2>8 DEF file, held
<1> QED BY <1>1, TopologyInvariant, FlowsInvariant, QueuesInvariant, PTL
----------------------------------------------------------------------------
(* The folder a run is made in, for any components in any order and any    *)
(* number of runs (RunLifecycle).  A process that has not come past the    *)
(* removal of finished.txt has touched nothing, and one that has never     *)
(* sees a "Yes" that is not its own; meanwhile the results written so far  *)
(* are those of the components before the current position.                *)


Untouched == {"idle", "ReadConfig", "RemoveFinished"}
Writing == {"WriteResults", "WriteRows"}

\* Components are looked for one after the other.
NoneEnabledYet ==
  pc \in Untouched \cup {"RemoveTiming", "WriteFinishedNo"} => m_enabled = {}

YesIsEarlier == finished = "Yes" => pc \in Untouched

WrittenSoFar ==
  pc \in Writing =>
    \A i \in DOMAIN WriteOrder :
      i < position /\ WriteOrder[i] \in m_enabled =>
        results[WriteOrder[i]] = WrittenBy(run)

AllWritten ==
  pc = "WriteFinishedYes" =>
    /\ timing = WrittenBy(run)
    /\ \A c \in m_enabled : results[c] = WrittenBy(run)

\* ResultsAreOwn, already while components are installed.
OwnSinceInstall ==
  \A c \in m_enabled :
    /\ results[c].by \in {0, run}
    /\ Logs(c) => incoming[c] \subseteq {run}

FolderInv ==
  /\ TypeOK
  /\ NoneEnabledYet
  /\ YesIsEarlier
  /\ YesMeansComplete
  /\ WrittenSoFar
  /\ AllWritten
  /\ OwnSinceInstall

----------------------------------------------------------------------------
LEMMA OrderTypes ==
  /\ InstallOrder \in Seq(STRING) /\ WriteOrder \in Seq(STRING)
  /\ DOMAIN InstallOrder = 1 .. Len(InstallOrder)
  /\ DOMAIN WriteOrder = 1 .. Len(WriteOrder)
  /\ Len(InstallOrder) \in Nat /\ Len(WriteOrder) \in Nat
BY OrderAssumption

LEMMA OrdersAgree ==
  /\ \A i \in DOMAIN InstallOrder : InstallOrder[i] \in Component
  /\ \A i \in DOMAIN WriteOrder : WriteOrder[i] \in Component
  /\ \A c \in Component : \E i \in DOMAIN WriteOrder : WriteOrder[i] = c
BY OrderAssumption DEF Component

LEMMA FileTypes ==
  /\ NoFile \in File
  /\ \A r \in 0 .. MaxRuns : OpenedBy(r) \in File /\ WrittenBy(r) \in File
BY RunsAssumption DEF NoFile, OpenedBy, WrittenBy, File

LEMMA InitInv == RlInit => FolderInv
<1> SUFFICES ASSUME RlInit PROVE FolderInv
  OBVIOUS
<1>1. TypeOK
  BY FileTypes, RunsAssumption DEF RlInit, TypeOK
<1> QED
  BY <1>1 DEF RlInit, FolderInv, NoneEnabledYet, YesIsEarlier,
              YesMeansComplete, WrittenSoFar, AllWritten, OwnSinceInstall,
              Untouched, Writing

\* When a process ends, only the folder matters.
LEMMA ThrowInv == FolderInv /\ Die => FolderInv'
<1> SUFFICES ASSUME FolderInv, Die PROVE FolderInv'
  OBVIOUS
<1>1. TypeOK'
  BY DEF FolderInv, TypeOK, Die, EndProcess, folder
<1> QED
  BY <1>1 DEF FolderInv, Die, EndProcess, folder, NoneEnabledYet,
              YesIsEarlier, YesMeansComplete, WrittenSoFar, AllWritten,
              OwnSinceInstall, Untouched, Writing

\* The part of the invariant that the rest needs.
LEMMA TypeStep ==
  TypeOK /\ NoneEnabledYet /\ [RlNext]_rlVars => TypeOK' /\ NoneEnabledYet'
<1> SUFFICES ASSUME TypeOK, NoneEnabledYet, [RlNext]_rlVars
             PROVE  TypeOK' /\ NoneEnabledYet'
  OBVIOUS
<1> USE FileTypes, RunsAssumption, OrderTypes, OrdersAgree
        DEF NoneEnabledYet, Untouched
<1>0. CASE Die
  BY <1>0 DEF TypeOK, Die, EndProcess, folder
<1>1. ASSUME NEW config \in SUBSET Keys, Start(config) PROVE TypeOK' /\ NoneEnabledYet'
  BY <1>1 DEF TypeOK, Start, folder, Runs
<1>2. CASE ReadConfig
  BY <1>0, <1>2 DEF TypeOK, ReadConfig, folder, Keys
<1>3. CASE PrepareBasicSimulationLogFiles
  BY <1>3 DEF TypeOK, PrepareBasicSimulationLogFiles, Unchanged_Config
<1>4. CASE WriteFinishedNo
  BY <1>4 DEF TypeOK, WriteFinishedNo, Unchanged_Config
<1>5. CASE Install
  <2> DEFINE c == InstallOrder[position]
  <2>1. CASE ~ Die
    <3>1. c \in Component /\ RequestedBy(c) \subseteq Keys
      BY <1>5 DEF Install, RequestedBy, Keys
    <3>2. /\ m_configRequestedKeys' = m_configRequestedKeys \cup RequestedBy(c)
          /\ m_enabled' = IF IsEnabled(c) THEN m_enabled \cup {c} ELSE m_enabled
          /\ results' = IF IsEnabled(c) THEN RemoveOldResults(c) ELSE results
          /\ incoming' = IF IsEnabled(c) THEN RegisterIncoming(c) ELSE incoming
          /\ position' = position + 1
          /\ UNCHANGED <<finished, timing, outgoing, pc, m_config, run, told>>
      BY <1>5, <2>1 DEF Install
    <3>3. results' \in [Component -> File]
      BY <3>1, <3>2 DEF TypeOK, RemoveOldResults
    <3>4. incoming' \in [Component -> SUBSET Runs]
      BY <3>1, <3>2 DEF TypeOK, RegisterIncoming
    <3>5. m_enabled' \subseteq {d \in Component : EnableKey(d) \in m_config'}
      BY <3>1, <3>2 DEF TypeOK, IsEnabled
    <3>6. pc = "Install" /\ pc' = "Install"
      BY <1>5, <3>2 DEF Install
    <3> HIDE DEF c
    <3> QED BY <3>1, <3>2, <3>3, <3>4, <3>5, <3>6 DEF TypeOK
  <2> QED BY <1>0, <2>1
<1>6. CASE Run
  BY <1>0, <1>6 DEF TypeOK, Run, folder, Unchanged_Config
<1>7. CASE SimulationEnds
  BY <1>7 DEF TypeOK, SimulationEnds, folder, Unchanged_Config
<1>8. ASSUME NEW c \in Component, Sent(c) PROVE TypeOK' /\ NoneEnabledYet'
  <2>1. {run} \subseteq Runs
    BY <1>8 DEF TypeOK, Sent
  <2> QED BY <1>8, <2>1 DEF TypeOK, Sent, process
<1>9. ASSUME NEW c \in Component, Received(c) PROVE TypeOK' /\ NoneEnabledYet'
  BY <1>9 DEF TypeOK, Received, process
<1>10. CASE OpenResults
  <2>1. results' \in [Component -> File]
    <3>1. OpenedBy(run) \in File /\ results \in [Component -> File]
      BY DEF TypeOK
    <3>2. results' = [results EXCEPT ![WriteOrder[position]] = OpenedBy(run)]
            \/ results' = results
      BY <1>10 DEF OpenResults
    <3> QED BY <3>1, <3>2
  <2>2. /\ position' \in Nat \ {0} /\ pc' \in {"WriteResults", "WriteRows"}
        /\ pc' = "WriteRows" => position' \in DOMAIN WriteOrder
    BY <1>10 DEF TypeOK, OpenResults
  <2>3. UNCHANGED <<finished, timing, outgoing, incoming, run, told,
                    m_config, m_configRequestedKeys, m_enabled>>
    BY <1>10 DEF OpenResults, Unchanged_Config
  <2>4. pc = "WriteResults"
    BY <1>10 DEF OpenResults
  <2> QED BY <2>1, <2>2, <2>3, <2>4 DEF TypeOK
<1>11. CASE WriteRows
  <2>1. results' \in [Component -> File]
    BY <1>11 DEF TypeOK, WriteRows
  <2> QED BY <1>11, <2>1 DEF TypeOK, WriteRows, Unchanged_Config
<1>12. CASE StoreTimingResults
  BY <1>12 DEF TypeOK, StoreTimingResults, Unchanged_Config
<1>13. CASE WriteFinishedYes
  BY <1>13 DEF TypeOK, WriteFinishedYes, EndProcess
<1>14. CASE UNCHANGED rlVars
  BY <1>14 DEF TypeOK, rlVars, folder, process
<1> QED
  BY <1>0, <1>1, <1>2, <1>3, <1>4, <1>5, <1>6, <1>7, <1>8, <1>9, <1>10, <1>11,
     <1>12, <1>13, <1>14 DEF RlNext, Crash

----------------------------------------------------------------------------
LEMMA InstallInv == FolderInv /\ Install => FolderInv'
<1> SUFFICES ASSUME FolderInv, Install, ~ Die PROVE FolderInv'
  BY ThrowInv
<1> DEFINE c == InstallOrder[position]
<1>1. TypeOK' /\ NoneEnabledYet'
  BY TypeStep DEF FolderInv, RlNext
<1>2. /\ pc = "Install" /\ pc' = "Install"
      /\ m_enabled' = IF IsEnabled(c) THEN m_enabled \cup {c} ELSE m_enabled
      /\ results' = IF IsEnabled(c) THEN RemoveOldResults(c) ELSE results
      /\ incoming' = IF IsEnabled(c) THEN RegisterIncoming(c) ELSE incoming
      /\ UNCHANGED <<finished, timing, m_config, run, told>>
  BY DEF Install
<1>3. c \in Component /\ results \in [Component -> File]
                     /\ incoming \in [Component -> SUBSET Runs]
  BY OrdersAgree DEF FolderInv, TypeOK, Install
<1>4. YesIsEarlier' /\ YesMeansComplete' /\ WrittenSoFar' /\ AllWritten'
  BY <1>2 DEF FolderInv, YesIsEarlier, YesMeansComplete, WrittenSoFar, AllWritten,
              Untouched, Writing
<1>5. OwnSinceInstall'
  <2> SUFFICES ASSUME NEW d \in m_enabled'
               PROVE  /\ results'[d].by \in {0, run}
                      /\ Logs(d)' => incoming'[d] \subseteq {run}
    BY <1>2 DEF OwnSinceInstall
  <2>1. CASE d = c /\ IsEnabled(c)
    <3>1. results'[d] = NoFile
      BY <1>2, <1>3, <2>1 DEF RemoveOldResults
    <3>2. Logs(d)' => incoming'[d] = {}
      BY <1>2, <1>3, <2>1 DEF Logs, RegisterIncoming
    <3> QED BY <3>1, <3>2 DEF NoFile
  <2>2. CASE ~ (d = c /\ IsEnabled(c))
    <3>1. d \in m_enabled /\ (d # c \/ ~ IsEnabled(c))
      BY <1>2, <2>2
    <3>2. d \in Component
      BY <3>1 DEF FolderInv, TypeOK
    <3>3. results'[d] = results[d] /\ incoming'[d] = incoming[d]
      BY <1>2, <1>3, <3>1, <3>2 DEF RemoveOldResults, RegisterIncoming
    <3>4. Logs(d)' = Logs(d)
      BY <1>2, <3>1, <1>1 DEF Logs
    <3> QED BY <3>1, <3>3, <3>4 DEF FolderInv, OwnSinceInstall
  <2> QED BY <2>1, <2>2
<1> QED BY <1>1, <1>4, <1>5 DEF FolderInv

\* A component that opens its files is one whose results are not yet counted.
LEMMA WriteInv == FolderInv /\ (OpenResults \/ WriteRows) => FolderInv'
<1> SUFFICES ASSUME FolderInv, OpenResults \/ WriteRows PROVE FolderInv'
  OBVIOUS
<1> USE OrderTypes
<1>1. TypeOK' /\ NoneEnabledYet'
  BY TypeStep DEF FolderInv, RlNext
<1>2. /\ pc \in Writing /\ pc' \in Writing
      /\ UNCHANGED <<finished, m_config, m_enabled, incoming, run, told>>
      /\ position \in DOMAIN WriteOrder
      /\ results \in [Component -> File] /\ WriteOrder[position] \in Component
  BY OrdersAgree DEF OpenResults, WriteRows, Unchanged_Config, Writing, FolderInv, TypeOK
<1>3. YesIsEarlier' /\ YesMeansComplete' /\ AllWritten'
  BY <1>2 DEF FolderInv, YesIsEarlier, YesMeansComplete, AllWritten, Untouched, Writing
<1>4. \A d \in Component : d # WriteOrder[position] => results'[d] = results[d]
  BY <1>2 DEF OpenResults, WriteRows
<1>5. results'[WriteOrder[position]].by
        \in {results[WriteOrder[position]].by, run}
  BY <1>2 DEF OpenResults, WriteRows, OpenedBy, WrittenBy
<1>6. OwnSinceInstall'
  BY <1>2, <1>4, <1>5 DEF FolderInv, OwnSinceInstall, TypeOK, Logs
<1>7. WrittenSoFar'
  <2> SUFFICES ASSUME NEW i \in DOMAIN WriteOrder, i < position',
                      WriteOrder[i] \in m_enabled
               PROVE  results'[WriteOrder[i]] = WrittenBy(run)
    BY <1>2 DEF WrittenSoFar
  <2>1. CASE i < position
    <3>1. WriteOrder[i] # WriteOrder[position] /\ WriteOrder[i] \in Component
      BY <1>2, <2>1, OrderAssumption, OrdersAgree
    <3>2. results[WriteOrder[i]] = WrittenBy(run)
      BY <1>2, <2>1 DEF FolderInv, WrittenSoFar
    <3> QED BY <1>4, <3>1, <3>2
  <2>2. CASE i >= position
    <3>1. position' = position \/ position' = position + 1
      BY DEF OpenResults, WriteRows
    <3>2. i = position /\ position' = position + 1
      BY <3>1, <2>2, <1>2
    <3>3. WriteRows
      BY <1>2, <3>2 DEF OpenResults
    <3> QED BY <1>2, <3>2, <3>3 DEF WriteRows
  <2> QED BY <1>2, <2>1, <2>2
<1> QED BY <1>1, <1>3, <1>6, <1>7 DEF FolderInv

LEMMA NextInv == FolderInv /\ [RlNext]_rlVars => FolderInv'
<1> SUFFICES ASSUME FolderInv, [RlNext]_rlVars PROVE FolderInv'
  OBVIOUS
<1>1. TypeOK' /\ NoneEnabledYet'
  BY TypeStep DEF FolderInv
<1> USE DEF NoneEnabledYet, YesIsEarlier, YesMeansComplete, WrittenSoFar, AllWritten,
            OwnSinceInstall, Logs, Untouched, Writing
<1>2. ASSUME NEW config \in SUBSET Keys, Start(config) PROVE FolderInv'
  BY <1>1, <1>2 DEF FolderInv, Start, folder
<1>3. CASE ReadConfig
  BY <1>1, <1>3, ThrowInv DEF FolderInv, ReadConfig, folder
<1>4. CASE PrepareBasicSimulationLogFiles
  BY <1>1, <1>4 DEF FolderInv, PrepareBasicSimulationLogFiles, Unchanged_Config
<1>5. CASE WriteFinishedNo
  BY <1>1, <1>5 DEF FolderInv, WriteFinishedNo, Unchanged_Config
<1>6. CASE Run
  BY <1>1, <1>6, ThrowInv DEF FolderInv, Run, folder, Unchanged_Config
<1>7. CASE SimulationEnds
  BY <1>1, <1>7, OrderTypes DEF FolderInv, SimulationEnds, folder, Unchanged_Config
<1>8. ASSUME NEW c \in Component, Sent(c) PROVE FolderInv'
  BY <1>1, <1>8 DEF FolderInv, Sent, process
<1>9. ASSUME NEW c \in Component, Received(c) PROVE FolderInv'
  <2>1. \A d \in m_enabled : Logs(d) => incoming'[d] \subseteq {run}
    BY <1>9 DEF FolderInv, TypeOK, Received, process
  <2> QED BY <1>1, <1>9, <2>1 DEF FolderInv, Received, process
<1>10. CASE StoreTimingResults
  <2>1. \A c \in m_enabled : results[c] = WrittenBy(run)
    <3> TAKE c \in m_enabled
    <3>1. PICK i \in DOMAIN WriteOrder : WriteOrder[i] = c
      BY OrdersAgree DEF FolderInv, TypeOK
    <3>2. i < position
      BY <1>10, OrderTypes DEF FolderInv, TypeOK, StoreTimingResults
    <3> QED BY <1>10, <3>1, <3>2 DEF FolderInv, StoreTimingResults
  <2> QED BY <1>1, <1>10, <2>1 DEF FolderInv, StoreTimingResults, Unchanged_Config
<1>11. CASE WriteFinishedYes
  BY <1>1, <1>11 DEF FolderInv, TypeOK, WriteFinishedYes, EndProcess
<1>12. CASE UNCHANGED rlVars
  BY <1>1, <1>12 DEF FolderInv, rlVars, folder, process
<1> QED
  BY <1>2, <1>3, <1>4, <1>5, <1>6, <1>7, <1>8, <1>9, <1>10, <1>11, <1>12,
     InstallInv, WriteInv, ThrowInv DEF RlNext, Crash

(* The inductive invariant of a run folder.                                *)
THEOREM FolderInvariant == RlSpec => []FolderInv
BY InitInv, NextInv, PTL DEF RlSpec

(* Types, for any components in any order.                                 *)
THEOREM TypeCorrect == RlSpec => []TypeOK
<1>1. FolderInv => TypeOK
  BY DEF FolderInv
<1> QED BY <1>1, FolderInvariant, PTL

(* Whatever dies when, "Yes" in finished.txt vouches for a complete set of *)
(* results of one run: YesMeansComplete.                                   *)
THEOREM YesIsTrue == RlSpec => []YesMeansComplete
<1>1. FolderInv => YesMeansComplete
  BY DEF FolderInv
<1> QED BY <1>1, FolderInvariant, PTL

(* A run is never credited with what an earlier run left: ResultsAreOwn.   *)
THEOREM OwnResults == RlSpec => []ResultsAreOwn
<1>1. FolderInv => ResultsAreOwn
  BY DEF FolderInv, OwnSinceInstall, ResultsAreOwn
<1> QED BY <1>1, FolderInvariant, PTL

----------------------------------------------------------------------------
\* What was asked for up to now, and what the components installed up to now
\* found in the configuration.
Preparing == {"RemoveFinished", "RemoveTiming", "WriteFinishedNo", "Install"}

AskedFor ==
  pc \in Preparing =>
    \A k \in m_configRequestedKeys :
      k = BasicKey \/ \E c \in Component : k \in RequestedBy(c)

InstalledSoFar ==
  /\ pc \notin {"Install", "Simulator", "WriteFinishedYes"} \cup Writing => position = 1
  /\ pc = "Install" =>
       \A i \in DOMAIN InstallOrder : i < position /\ IsEnabled(InstallOrder[i]) =>
         /\ InstallOrder[i] \in Needing => NeededKey(InstallOrder[i]) \in m_config
         /\ InstallOrder[i] \in m_enabled

ConfigInv == TypeOK /\ AskedFor /\ InstalledSoFar /\ ConfigurationTakesEffect

\* Keys of different kinds or components are different keys.
LEMMA KeysDiffer ==
  ASSUME NEW c, NEW d, ~ IsEnabled(c)
  PROVE  /\ NeededKey(c) # BasicKey /\ NeededKey(c) \notin RequestedBy(d)
         /\ LoggingKey(c) # BasicKey /\ LoggingKey(c) \notin RequestedBy(d)
BY DEF NeededKey, LoggingKey, EnableKey, BasicKey, RequestedBy, IsEnabled

\* The check of Run, applied to the keys asked for by then.
LEMMA RunTakesEffect ==
  ASSUME TypeOK, AskedFor, InstalledSoFar, Run, m_config \subseteq m_configRequestedKeys,
         NEW c \in Component
  PROVE  \/ /\ EnableKey(c) \in m_config /\ c \in m_enabled
            /\ c \in Needing => NeededKey(c) \in m_config
         \/ {EnableKey(c), NeededKey(c), LoggingKey(c)} \cap m_config = {}
<1>0. pc = "Install" /\ position \notin DOMAIN InstallOrder
  BY DEF Run
<1>1. CASE IsEnabled(c)
  <2>1. PICK i \in DOMAIN InstallOrder : InstallOrder[i] = c
    BY DEF Component
  <2>2. i < position
    BY <1>0, OrderTypes DEF TypeOK
  <2> QED BY <1>0, <1>1, <2>1, <2>2 DEF InstalledSoFar, IsEnabled
<1>2. CASE ~ IsEnabled(c)
  <2>1. NeededKey(c) \notin m_configRequestedKeys /\ LoggingKey(c) \notin m_configRequestedKeys
    BY <1>0, <1>2, KeysDiffer DEF AskedFor, Preparing
  <2> QED BY <1>2, <2>1 DEF IsEnabled
<1> QED BY <1>1, <1>2

LEMMA ConfigStep ==
  ConfigInv /\ NoneEnabledYet /\ [RlNext]_rlVars => ConfigInv'
<1> SUFFICES ASSUME ConfigInv, NoneEnabledYet, [RlNext]_rlVars PROVE ConfigInv'
  OBVIOUS
<1>1. TypeOK'
  BY TypeStep DEF ConfigInv
<1> USE DEF AskedFor, InstalledSoFar, ConfigurationTakesEffect, Preparing, Writing
<1>0. CASE Die
  BY <1>1, <1>0 DEF ConfigInv, Die, EndProcess
<1>2. ASSUME NEW config \in SUBSET Keys, Start(config) PROVE ConfigInv'
  BY <1>1, <1>2 DEF ConfigInv, Start
<1>3. CASE ReadConfig
  BY <1>1, <1>3, <1>0 DEF ConfigInv, ReadConfig
<1>4. CASE PrepareBasicSimulationLogFiles \/ WriteFinishedNo
  <2>1. /\ pc \in Preparing \ {"Install"} /\ pc' \in Preparing
        /\ UNCHANGED <<position, m_config, m_configRequestedKeys, m_enabled>>
    BY <1>4 DEF PrepareBasicSimulationLogFiles, WriteFinishedNo, Unchanged_Config
  <2>2. \A c : RequestedBy(c)' = RequestedBy(c)
    BY <2>1 DEF RequestedBy, IsEnabled
  <2>3. position' = 1
    BY <2>1 DEF ConfigInv
  <2> QED BY <1>1, <2>1, <2>2, <2>3, OrderTypes DEF ConfigInv
<1>5. ASSUME Install, ~ Die PROVE ConfigInv'
  <2> DEFINE d == InstallOrder[position]
  <2>1. /\ pc = "Install" /\ pc' = "Install" /\ m_config' = m_config
        /\ position \in DOMAIN InstallOrder /\ position' = position + 1
        /\ m_configRequestedKeys' = m_configRequestedKeys \cup RequestedBy(d)
        /\ m_enabled' = IF IsEnabled(d) THEN m_enabled \cup {d} ELSE m_enabled
        /\ IsEnabled(d) /\ d \in Needing => NeededKey(d) \in m_config
    BY <1>5 DEF Install
  <2>2. d \in Component
    BY <2>1, OrdersAgree
  <2>3. \A c : RequestedBy(c)' = RequestedBy(c) /\ IsEnabled(c)' = IsEnabled(c)
    BY <2>1 DEF RequestedBy, IsEnabled
  <2>4. AskedFor'
    BY <2>1, <2>2, <2>3 DEF ConfigInv
  <2>5. InstalledSoFar'
    <3> SUFFICES ASSUME NEW i \in DOMAIN InstallOrder, i < position + 1,
                        IsEnabled(InstallOrder[i])
                 PROVE  /\ InstallOrder[i] \in Needing =>
                             NeededKey(InstallOrder[i]) \in m_config
                        /\ InstallOrder[i] \in m_enabled'
      BY <2>1, <2>3
    <3>1. i < position \/ i = position
      BY <2>1, OrderTypes
    <3> QED BY <2>1, <3>1 DEF ConfigInv
  <2> QED BY <1>1, <2>1, <2>4, <2>5 DEF ConfigInv
<1>6. ASSUME Run, ~ Die PROVE ConfigInv'
  <2>1. /\ m_config \subseteq m_configRequestedKeys /\ pc' = "Simulator"
        /\ UNCHANGED <<m_config, m_enabled>>
    BY <1>6 DEF Run, Unchanged_Config
  <2>2. ConfigurationTakesEffect'
    BY <1>6, <2>1, RunTakesEffect DEF ConfigInv
  <2> QED BY <1>1, <2>1, <2>2 DEF ConfigInv
<1>7. CASE SimulationEnds
  BY <1>1, <1>7 DEF ConfigInv, SimulationEnds, Unchanged_Config
<1>8. ASSUME NEW c \in Component, Sent(c) \/ Received(c) PROVE ConfigInv'
  BY <1>1, <1>8 DEF ConfigInv, Sent, Received, process
<1>9. CASE OpenResults \/ WriteRows
  BY <1>1, <1>9 DEF ConfigInv, OpenResults, WriteRows, Unchanged_Config
<1>10. CASE StoreTimingResults \/ WriteFinishedYes
  BY <1>1, <1>10 DEF ConfigInv, StoreTimingResults, WriteFinishedYes, EndProcess,
                     Unchanged_Config
<1>11. CASE UNCHANGED rlVars
  BY <1>1, <1>11 DEF ConfigInv, rlVars, process, RequestedBy, IsEnabled
<1> QED
  BY <1>0, <1>2, <1>3, <1>4, <1>5, <1>6, <1>7, <1>8, <1>9, <1>10, <1>11
  DEF RlNext, Crash

(* Nothing is set in vain: ConfigurationTakesEffect, for any components in *)
(* any order.                                                              *)
THEOREM ConfigurationIsUsed == RlSpec => []ConfigurationTakesEffect
<1>1. RlInit => ConfigInv
  BY InitInv DEF RlInit, ConfigInv, FolderInv, AskedFor, InstalledSoFar,
                 ConfigurationTakesEffect, Preparing, Writing
<1>2. FolderInv => NoneEnabledYet
  BY DEF FolderInv
<1>3. ConfigInv => ConfigurationTakesEffect
  BY DEF ConfigInv
<1> QED BY <1>1, <1>2, <1>3, ConfigStep, FolderInvariant, PTL DEF RlSpec
=============================================================================
