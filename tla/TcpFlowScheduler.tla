-------------------------- MODULE TcpFlowScheduler --------------------------
(***************************************************************************)
(* TcpFlowScheduler: reads the schedule of all flows, keeps those that     *)
(* start at nodes of its own system, puts servers on the endpoints of its  *)
(* own system, and starts the clients in a chain of events, each of which  *)
(* schedules the next.  What a client does then is in TcpFlow.             *)
(***************************************************************************)
EXTENDS Simulators, Ordered

CONSTANTS
  ServerPorts,    \* m_serverPorts
  RemotePorts     \* what m_clientRemotePortSelector may select

ASSUME FlowsAssumption == \A i \in Inputs : i.flows \in Seq(Elements(i.flows))

VARIABLES
  m_schedule,     \* m_schedule[s]: the entries that are started by system s
  servers,        \* servers[s]: the servers <<node, port>> in system s
  pending,        \* pending[s]: the events <<time, i>> of StartNextFlow
  m_apps,         \* m_apps[s]: the clients, in the order they were started
  rows            \* rows[s]: the lines of its tcp_flows.csv

fsVars == <<m_schedule, servers, pending, m_apps, rows>>

FsInit ==
  /\ m_schedule = [s \in Processes |-> <<>>]
  /\ servers = [s \in Processes |-> {}]
  /\ pending = [s \in Processes |-> {}]
  /\ m_apps = [s \in Processes |-> <<>>]
  /\ rows = [s \in Processes |-> <<>>]

----------------------------------------------------------------------------
(* Reading the schedule: lines <<id, from, to, size, start, parameters,     *)
(* metadata>> of texts                                                      *)

Entry(line) ==
  [id |-> parse_positive_int64(line[1]), from |-> parse_positive_int64(line[2]),
   to |-> parse_positive_int64(line[3]), size |-> parse_positive_int64(line[4]),
   start |-> parse_positive_int64(line[5])]

read_tcp_flow_schedule(lines) ==
  LET entry == [i \in DOMAIN lines |-> Entry(lines[i])]
  IN IF \A i \in DOMAIN lines :
          /\ Len(lines[i]) = 7
          /\ \A field \in DOMAIN entry[i] : entry[i][field] # Error
          /\ entry[i].id = i - 1
          /\ i > 1 => entry[i - 1].start <= entry[i].start
          /\ entry[i].from # entry[i].to
          /\ IsValidEndpoint(entry[i].from)
          /\ IsValidEndpoint(entry[i].to)
          /\ entry[i].start < EndTime
     THEN entry ELSE Error

\* The flows with detailed logs; they must be in the complete schedule.
LoggedIds(v, schedule) ==
  LET ids == IF Plain(v) = "all" THEN 0 .. Len(schedule) - 1 ELSE parse_set_positive_int64(v)
  IN IF ids # Error /\ \A id \in ids : id < Len(schedule) THEN ids ELSE Error

StartingIn(s, schedule) ==
  LET own == {i \in DOMAIN schedule : IsMine(assignment, s, schedule[i].from)}
      order == InOrder(own, Ascending(own))
  IN [k \in DOMAIN order |-> schedule[order[k]]]

\* GetAddress(1, 0): the nodes that have an interface besides the loopback.
NodesWithAddress == {n \in 0 .. graph.nodes - 1 : devices[n] # <<>>}

ServersOf(s) == {n \in GetEndpoints : IsMine(assignment, s, n)} \X ServerPorts

\* The constructor.  A node that has no system throws; an endpoint without an
\* address has no Ipv4Interface to dereference, and the process dies.
ConstructFlowScheduler(s) ==
  LET schedule == read_tcp_flow_schedule(input.flows)
      valid == /\ schedule # Error
               /\ LoggedIds(input.logged, schedule) # Error
               /\ assignment # NotDistributed =>
                    \A i \in DOMAIN schedule : HasSystem(assignment, schedule[i].from)
               /\ \A server \in ServersOf(s) : server[1] \in NodesWithAddress
      own == StartingIn(s, schedule)
  IN /\ stage[s] = "schedule_flows"
     /\ \/ ~input.scheduler /\ MainContinues(s, "running") /\ UNCHANGED fsVars
        \/ input.scheduler /\ ~valid /\ MainContinues(s, "refused") /\ UNCHANGED fsVars
        \/ /\ input.scheduler /\ valid
           /\ m_schedule' = [m_schedule EXCEPT ![s] = own]
           /\ pending' = [pending EXCEPT ![s] =
                           IF own = <<>> THEN {} ELSE {<<own[1].start, 1>>}]
           /\ servers' = [servers EXCEPT ![s] = ServersOf(s)]
           /\ MainContinues(s, "running")
           /\ UNCHANGED <<m_apps, rows>>
     /\ UNCHANGED now

----------------------------------------------------------------------------
(* Starting flows *)

FlowIsDue(s) == \E event \in pending[s] : event[1] = now[s]

\* Fault: only a flow that starts later is scheduled.
NextLater(s, i) ==
  IF i < Len(m_schedule[s]) /\ m_schedule[s][i + 1].start > now[s]
  THEN {<<m_schedule[s][i + 1].start, i + 1>>} ELSE {}

NextEvent(s, i) ==
  IF i < Len(m_schedule[s])
  THEN {<<now[s] + (m_schedule[s][i + 1].start - now[s]), i + 1>>} ELSE {}

\* The client is built with the addresses of both nodes, is started, and gets
\* its port: a node that is not there or has no address, or a port without
\* servers, is the end.
\* (m_nodes.Get of a node that is not there is undefined behaviour.)
StartNextFlow(s) ==
  \E event \in pending[s], port \in RemotePorts :
    LET entry == m_schedule[s][event[2]]
        possible == {entry.from, entry.to} \subseteq NodesWithAddress /\ port \in ServerPorts
        client == [id |-> entry.id, from |-> entry.from, to |-> entry.to, size |-> entry.size,
                   port |-> port, startedAt |-> now[s],
                   logged |-> entry.id \in
                     LoggedIds(input.logged, read_tcp_flow_schedule(input.flows))]
    IN /\ stage[s] = "running"
       /\ event[1] = now[s]
       /\ \/ ~possible /\ MainContinues(s, "aborted") /\ UNCHANGED fsVars
          \/ /\ possible
             /\ m_apps' = [m_apps EXCEPT ![s] = Append(@, client)]
             /\ pending' = [pending EXCEPT ![s] = (@ \ {event}) \cup NextEvent(s, event[2])]
             /\ UNCHANGED <<stage, m_schedule, servers, rows>>
       /\ UNCHANGED now

\* Row i is about entry i and says what application i reports.
WriteFlowResults(s) ==
  LET complete == Len(m_apps[s]) >= Len(m_schedule[s])
  IN /\ stage[s] = "write_flows"
     /\ MainContinues(s, IF complete THEN "write_net_device" ELSE "threw")
     /\ rows' = IF ~complete THEN rows ELSE
                [rows EXCEPT ![s] = [i \in DOMAIN m_schedule[s] |->
                                      [entry |-> m_schedule[s][i], app |-> m_apps[s][i]]]]
     /\ UNCHANGED <<now, m_schedule, servers, pending, m_apps>>

----------------------------------------------------------------------------
(* Properties *)

\* No system fails while it writes.  Once all of them have written, each flow
\* of the schedule is in the rows of exactly one: there it was started at its
\* time, by a client with its two nodes and its size, and the server it sent
\* to was there, in whatever system the target node belongs to; its row is
\* filled from this client, not from a neighbouring one.
EveryFlowRunsOnce ==
  /\ \A s \in Systems : stage[s] # "threw"
  /\ input.scheduler /\ (\A s \in Systems : stage[s] = "over") =>
       \A i \in DOMAIN input.flows :
         LET flow == Entry(input.flows[i])
             RowsOfFlow == {r \in Systems \X DOMAIN input.flows :
                              /\ r[2] \in DOMAIN rows[r[1]]
                              /\ rows[r[1]][r[2]].entry.id = flow.id}
         IN /\ Cardinality(RowsOfFlow) = 1
            /\ \A r \in RowsOfFlow :
                 LET app == rows[r[1]][r[2]].app
                 IN /\ app.id = flow.id /\ app.size = flow.size
                    /\ <<app.from, app.to>> = <<flow.from, flow.to>>
                    /\ app.startedAt = flow.start
                    /\ \E t \in Systems : <<flow.to, app.port>> \in servers[t]
                    /\ IsMine(assignment, r[1], flow.from)
=============================================================================
