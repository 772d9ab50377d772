--------------------------- MODULE DistributedRun ---------------------------
(***************************************************************************)
(* main: a run over one or more systems, with its topology, the queue      *)
(* trackers on the links, and the TCP flow scheduler.  Each process builds *)
(* the same topology; then each goes its own way.                          *)
(***************************************************************************)
EXTENDS TcpFlowScheduler, QueueTracking

vars == <<tpVars, simVars, fsVars, qtVars>>

Init == TpInit /\ SimInit /\ FsInit /\ QtInit

BuildTopology ==
  /\ TpNext
  /\ IF tpc' = "done" THEN QueuesAreInstalled ELSE UNCHANGED qtVars
  /\ UNCHANGED <<simVars, fsVars>>

TrackerStep(s) ==
  /\ \/ \E kind \in Kinds : ConstructTracking(kind, s) \/ WriteQueueResults(kind, s)
     \/ Traffic(s)
  /\ UNCHANGED fsVars

FlowStep(s) ==
  /\ ConstructFlowScheduler(s) \/ StartNextFlow(s) \/ WriteFlowResults(s)
  /\ UNCHANGED qtVars

Tick(s) == TimePasses(s, FlowIsDue(s)) /\ UNCHANGED <<fsVars, qtVars>>

SystemStep(s) ==
  /\ tpc = "done"
  /\ TrackerStep(s) \/ FlowStep(s) \/ Tick(s)
  /\ UNCHANGED tpVars

Next == BuildTopology \/ \E s \in Systems : SystemStep(s)

Spec == Init /\ [][Next]_vars

----------------------------------------------------------------------------
(* Properties *)

BeforeFlows == {"track_net_device", "track_qdisc", "schedule_flows"}

\* The node is an end of a link in the file.
HasLink(node) == \E e \in graph.edges : node \in {e[1], e[2]}

\* The configuration asks system s for the queue behind a link that is not in
\* the file, or whose discipline the file disables, or for what is no link.
CannotTrack(kind, s) ==
  LET links == EnabledFor(kind)
  IN /\ input.tracking[kind].enabled
     /\ \/ links = Error
        \/ \E link \in links :
             /\ link[1] \in 0 .. graph.nodes - 1 => IsMine(assignment, s, link[1])
             /\ \/ link \notin Links(graph.edges)
                \/ /\ kind = "qdisc"
                   /\ ParseTcQdiscValue(SaidOf("link_interface_traffic_control_qdisc", link))
                        = NoQdisc

\* The schedule is refused; or a flow starts at a node that is in no system; or
\* an endpoint of system s that is to have servers has no link.
CannotSchedule(s) ==
  LET schedule == read_tcp_flow_schedule(input.flows)
  IN /\ input.scheduler
     /\ \/ schedule = Error \/ LoggedIds(input.logged, schedule) = Error
        \/ /\ assignment # NotDistributed
           /\ \E i \in DOMAIN schedule : schedule[i].from \notin 0 .. graph.nodes - 1
        \/ /\ ServerPorts # {}
           /\ \E n \in GetEndpoints : IsMine(assignment, s, n) /\ ~HasLink(n)

\* The flow of the schedule has two ends with links.
HasPath(flow) == HasLink(flow.from) /\ HasLink(flow.to)

\* A topology that is accepted has the nodes and edges that were announced,
\* and serves the run as far as the file goes.  A system is refused its
\* trackers and its schedule exactly for what can be read in the files, above
\* all for an endpoint without a link, and never for what the topology has made
\* of the links; and it dies later only at the start of a flow with an end
\* that is no node or has no link, or of a client given a port without servers.
AcceptedIsUsable ==
  tpc = "done" =>
    /\ graph.nodes = Announced("num_nodes")
    /\ Cardinality(graph.edges) = Announced("num_undirected_edges")
    /\ \A s \in Systems :
         LET own == {flow \in {Entry(input.flows[i]) : i \in DOMAIN input.flows} :
                       IsMine(assignment, s, flow.from)}
         IN /\ stage[s] \notin BeforeFlows =>
                 (stage[s] = "refused" <=>
                    (\E kind \in Kinds : CannotTrack(kind, s)) \/ CannotSchedule(s))
            /\ stage[s] = "aborted" =>
                 \/ ~(RemotePorts \subseteq ServerPorts)
                 \/ \E flow \in own : flow.start = now[s] /\ ~HasPath(flow)
            /\ stage[s] = "over" /\ input.scheduler => \A flow \in own : HasPath(flow)
=============================================================================
