-------------------------- MODULE MCDistributedRun --------------------------
(***************************************************************************)
(* Configurations for DistributedRun: one file with all that is good, its  *)
(* variations in one line each, and schedules and trackings on top of it.  *)
(***************************************************************************)
EXTENDS DistributedRun, TLC

MCInt64Of == ("0" :> 0) @@ ("1" :> 1) @@ ("01" :> 1) @@ ("2" :> 2) @@ ("3" :> 3)
             @@ ("4" :> 4) @@ ("9" :> 9) @@ ("-1" :> -1)
MCDoubleOf == ("0" :> 0) @@ ("0.5" :> 1) @@ ("1" :> 2) @@ ("3.0" :> 6) @@ ("-1" :> -2)

Word(t) == [form |-> "", parts |-> <<t>>]
SetOf(s) == [form |-> "set", parts |-> s]
MapOf(s) == [form |-> "map", parts |-> s]
ListOf(s) == [form |-> "list", parts |-> s]
DropTail(n, unit) == [form |-> "drop_tail", parts |-> <<<<n, unit>>>>]
Lossy(rate) == [form |-> "iid_uniform_random_pkt", parts |-> <<rate>>]
Fifo2(n, unit) == [form |-> "fifo", parts |-> <<<<n, unit>>>>]
Red(min, max, size) ==
  [form |-> "simple_red",
   parts |-> <<"ecn", "2", "0.5", min, max, size, "1", "wait", "gentle">>]

L(a, b) == <<a, b>>
Edges == <<L("1", "3"), L("0", "2"), L("0", "1"), L("2", "3")>>

\* Servers 1 and 2 are linked to ToRs 0 and 3; the edges are in no order.
Graph ==
  ("num_nodes" :> Word("4")) @@ ("num_undirected_edges" :> Word("4"))
  @@ ("switches" :> SetOf(<<"0", "3">>)) @@ ("switches_which_are_tors" :> SetOf(<<"3", "0">>))
  @@ ("servers" :> SetOf(<<"2", "1">>)) @@ ("undirected_edges" :> SetOf(Edges))

Delays == MapOf(<<<<L("0", "1"), Word("1")>>, <<L("1", "3"), Word("2")>>,
                  <<L("0", "2"), Word("0")>>, <<L("2", "3"), Word("3")>>>>)
\* A map with a value for each direction of the edges.
Each(v1, v2, v3) ==
  MapOf(<<<<L("0", "1"), v1>>, <<L("1", "0"), v2>>, <<L("3", "1"), v3>>, <<L("1", "3"), v1>>,
          <<L("0", "2"), v2>>, <<L("2", "0"), v3>>, <<L("2", "3"), v1>>, <<L("3", "2"), v2>>>>)

Maps ==
  ("link_channel_delay_ns" :> Delays)
  @@ ("link_net_device_data_rate_megabit_per_s" :> Each(Word("1"), Word("3.0"), Word("0")))
  @@ ("link_net_device_queue" :> Each(DropTail("1", "p"), DropTail("2", "B"), DropTail("2", "p")))
  @@ ("link_net_device_receive_error_model" :> Each(Word("none"), Lossy("0.5"), Lossy("1")))
  @@ ("link_interface_traffic_control_qdisc" :>
        Each(Word("default"), Word("disabled"), Red("1", "2", <<"4", "B">>)))

File == Graph @@ Maps

Keys == <<"servers", "link_net_device_queue", "num_nodes", "undirected_edges",
          "switches", "link_net_device_data_rate_megabit_per_s", "all_nodes_are_endpoints",
          "switches_which_are_tors", "link_channel_delay_ns", "num_undirected_edges",
          "link_interface_traffic_control_qdisc", "link_net_device_receive_error_model">>

Lines(f) == LET keys == SelectSeq(Keys, LAMBDA k : k \in DOMAIN f)
            IN [i \in DOMAIN keys |-> <<keys[i], f[keys[i]]>>]

----------------------------------------------------------------------------
(* Variations of one line: what else the file might say for a key           *)

Truncated(v) == [v EXCEPT !.parts = Tail(v.parts)]
Reordered(v) == [v EXCEPT !.parts = Append(Tail(v.parts), Head(v.parts))]
\* The first key once more, written differently or to another link.
Again(v, key) == [v EXCEPT !.parts = Append(v.parts, <<key, v.parts[1][2]>>)]
Renamed(v, key) == [v EXCEPT !.parts = Append(Tail(v.parts), <<key, v.parts[1][2]>>)]
OneIs(v, text) == [v EXCEPT !.parts[3][2] = text]

OfMap(v) == {Truncated(v), Reordered(v), Again(v, L("0", "01")), Again(v, L("0", "3")),
             Renamed(v, L("0", "01")), Renamed(v, L("0", "3")), Renamed(v, L("0", "9")),
             Renamed(v, <<"0">>)}

Numbers == {Word("0"), Word("1"), Word("3"), Word("4"), Word("9"), Word("-1"), Word("x")}
NodeSets == {SetOf(<<>>), SetOf(<<"1">>), SetOf(<<"1", "2", "3">>), SetOf(<<"0", "4">>),
             SetOf(<<"1", "1">>), SetOf(<<"1", "01">>), SetOf(<<"1", "x">>), ListOf(<<"1", "2">>)}

Alternatives ==
  [k \in KnownKeys |->
    CASE k \in {"num_nodes", "num_undirected_edges"} -> Numbers
      [] k \in {"switches", "switches_which_are_tors", "servers"} -> NodeSets
      [] k = "undirected_edges" ->
           {SetOf(Tail(Edges)), SetOf(Append(Tail(Edges), L("1", "2"))),
            SetOf(Append(Tail(Edges), L("2", "1"))), SetOf(Append(Tail(Edges), L("2", "2"))),
            SetOf(Append(Tail(Edges), L("0", "4"))), SetOf(Append(Tail(Edges), L("0", "01"))),
            SetOf(Append(Tail(Edges), L("0", "x"))), SetOf(Append(Edges, L("0", "3")))}
      [] k = "all_nodes_are_endpoints" -> {Word("true"), Word("0"), Word("x")}
      [] k = "link_channel_delay_ns" ->
           Numbers \cup OfMap(Delays) \cup {OneIs(Delays, Word("-1"))}
      [] k = "link_net_device_data_rate_megabit_per_s" ->
           Numbers \cup OfMap(Maps[k]) \cup {OneIs(Maps[k], Word("x"))}
      [] k = "link_net_device_queue" ->
           {DropTail("2", "p"), DropTail("0", "p"), DropTail("2", "x"), Word("2"),
            OneIs(Maps[k], Word("2"))} \cup OfMap(Maps[k])
      [] k = "link_net_device_receive_error_model" ->
           {Word("none"), Lossy("0.5"), Lossy("3.0"), Lossy("-1"), OneIs(Maps[k], Word("x"))}
           \cup OfMap(Maps[k])
      [] k = "link_interface_traffic_control_qdisc" ->
           {Word("default"), Word("disabled"), Word("x"), Fifo2("2", "p"), Fifo2("0", "p"),
            [form |-> "fq_codel", parts |-> <<"1", "2", <<"3", "p">>>>],
            [form |-> "fq_codel", parts |-> <<"1", "2", <<"3", "B">>>>],
            Red("1", "2", <<"3", "B">>), Red("2", "1", <<"4", "p">>), Red("1", "3", <<"4", "B">>)}
           \cup OfMap(Maps[k])]

\* Two ToRs and nothing else; no nodes at all; a switch that is no endpoint.
SmallFile(nodes, edges, tors, switches) ==
  ("num_nodes" :> Word(nodes)) @@ ("num_undirected_edges" :> Word(edges))
  @@ ("switches" :> SetOf(switches)) @@ ("switches_which_are_tors" :> SetOf(tors))
  @@ ("servers" :> SetOf(<<>>))
  @@ ("undirected_edges" :> SetOf(IF edges = "0" THEN <<>> ELSE <<L("0", "1")>>))
  @@ ("link_channel_delay_ns" :> Word("2"))
  @@ ("link_net_device_data_rate_megabit_per_s" :> Word("3.0"))
  @@ ("link_net_device_queue" :> DropTail("2", "p"))
  @@ ("link_net_device_receive_error_model" :> Lossy("0.5"))
  @@ ("link_interface_traffic_control_qdisc" :> Word("default"))

Two == SmallFile("2", "1", <<"1", "0">>, <<"0", "1">>)

SomeLines ==
  {Lines((k :> v) @@ File) : <<k, v>> \in UNION {{k} \X Alternatives[k] : k \in KnownKeys}}
  \cup {Lines([x \in DOMAIN File \ {k} |-> File[x]]) : k \in DOMAIN File}
  \cup {Append(Lines(File), <<k, Word("1")>>) : k \in {"servers", "unknown_key"}}
  \cup {Append(Lines(File), <<"no_equals_sign">>)}
  \cup {Lines(Two), Lines(SmallFile("0", "0", <<>>, <<>>)),
        Lines(SmallFile("1", "0", <<>>, <<"0">>))}

----------------------------------------------------------------------------
Here == [enabled |-> FALSE, implementation |-> "", systems |-> "", assignment |-> ListOf(<<>>)]
Over(systems, nodes) ==
  [enabled |-> TRUE, implementation |-> "nullmsg", systems |-> systems, assignment |-> ListOf(nodes)]

Split == Over("2", <<"0", "0", "1", "1">>)

SomeDistributed ==
  {Split, Over("2", <<"1", "1", "1", "1">>), Over("2", <<"0", "1", "2", "0">>),
   Over("2", <<"0", "1">>), Over("1", <<"0", "0", "0", "0">>), Over("x", <<"0", "0", "1", "1">>),
   Over("2", <<"0", "x", "1", "1">>), [Split EXCEPT !.implementation = "x"]}

NoTracking == [kind \in Kinds |-> [enabled |-> FALSE, links |-> Word("all")]]
Plainly(lines, distributed) ==
  [lines |-> lines, distributed |-> distributed, scheduler |-> FALSE, flows |-> <<>>, logged |-> SetOf(<<>>),
   tracking |-> NoTracking, busy |-> {}]

TopologyInputs ==
  {Plainly(l, Here) : l \in SomeLines} \cup {Plainly(Lines(File), d) : d \in SomeDistributed}

----------------------------------------------------------------------------
(* Schedules of flows *)

Flow(id, from, to, start) == <<id, from, to, "3", start, "", "">>
GoodFlows == <<Flow("0", "1", "2", "0"), Flow("1", "2", "1", "1"), Flow("2", "1", "2", "1"),
               Flow("3", "1", "2", "1")>>

SomeFlows ==
  {<<>>, GoodFlows,
   [GoodFlows EXCEPT ![2][1] = "2"], [GoodFlows EXCEPT ![1][5] = "01"],
   [GoodFlows EXCEPT ![4][5] = "0"], [GoodFlows EXCEPT ![4][5] = "2"],
   [GoodFlows EXCEPT ![2][3] = "2"], [GoodFlows EXCEPT ![2][3] = "0"],
   [GoodFlows EXCEPT ![2][2] = "3"], [GoodFlows EXCEPT ![2][4] = "x"],
   [GoodFlows EXCEPT ![3] = <<"2", "1">>]}

Logging == {Word("all"), SetOf(<<"1", "3">>), SetOf(<<"4">>), Word("x")}

With(lines, distributed, flows) ==
  [Plainly(lines, distributed) EXCEPT !.scheduler = TRUE, !.flows = flows]

EverywhereLines == Lines(("all_nodes_are_endpoints" :> Word("true")) @@ File)

\* An endpoint without a link.
Isolated == SmallFile("3", "1", <<"0", "1", "2">>, <<"0", "1", "2">>)

FlowInputs ==
  {With(Lines(File), d, f) : d \in {Here, Split}, f \in SomeFlows}
  \cup {[With(Lines(File), Split, GoodFlows) EXCEPT !.logged = v] : v \in Logging}
  \cup {With(EverywhereLines, d, <<Flow("0", "3", "0", "0"), Flow("1", "0", "2", "1")>>) :
          d \in {Here, Split}}
  \cup {Plainly(Lines(Isolated), Here), With(Lines(Isolated), Here, <<>>)}
  \cup {With(Lines(Isolated), Over("2", <<"0", "0", "1">>), f) :
          f \in {<<>>, <<Flow("0", "1", "0", "0"), Flow("1", "0", "2", "1")>>}}

\* Flows that name a node the topology does not have.
BeyondInputs ==
  {With(EverywhereLines, d, <<Flow("0", "1", "2", "0"), f>>) :
      d \in {Here, Split}, f \in {Flow("1", "1", "9", "1"), Flow("1", "9", "1", "1")}}

----------------------------------------------------------------------------
(* Tracking of queues *)

Track(devices_, qdiscs) ==
  [net_device |-> [enabled |-> devices_ # Word("no"), links |-> devices_],
   qdisc |-> [enabled |-> qdiscs # Word("no"), links |-> qdiscs]]

QueueInputs ==
  {[Plainly(Lines(File), d) EXCEPT !.tracking = t, !.busy = b] :
     d \in {Split},
     t \in {Track(Word("all"), SetOf(<<L("0", "1"), L("2", "3"), L("1", "3")>>))},
     b \in {{<<"net_device", <<1, 3>>>>}, {<<"qdisc", <<2, 3>>>>}}}
  \cup
  {[Plainly(Lines(Two), Here) EXCEPT !.tracking = Track(Word("all"), Word("all")), !.busy = b] :
     b \in {{<<"net_device", <<0, 1>>>>, <<"qdisc", <<0, 1>>>>}, {<<"net_device", <<1, 0>>>>}}}
  \cup
  {[Plainly(Lines(File), d) EXCEPT !.tracking = t] :
     d \in {Here, Split},
     t \in {Track(v, Word("no")) :
              v \in {SetOf(<<>>), SetOf(<<L("0", "3")>>), SetOf(<<L("9", "1")>>),
                     SetOf(<<L("1", "1")>>), SetOf(<<L("0", "1"), L("0", "01")>>), Word("x")}}
          \cup {Track(Word("no"), v) : v \in {Word("all"), SetOf(<<L("1", "0")>>)}}}

SomeInputs == TopologyInputs \cup FlowInputs \cup QueueInputs \cup BeyondInputs
=============================================================================
