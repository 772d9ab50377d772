------------------------------ MODULE UdpBurst ------------------------------
(***************************************************************************)
(* UDP bursts from schedule to result files, in one process or in several  *)
(* that share the nodes of the topology: UdpBurstScheduler (constructor,   *)
(* the chain of StartNextUdpBurst events, WriteResults), UdpBurstClient    *)
(* and UdpBurstServer.                                                     *)
(*                                                                         *)
(* Every system has its own clock and event queue.  It runs what is due,   *)
(* in any order, before its clock moves on, and a clock never gets ahead   *)
(* of another by more than the delay of the links between the systems.     *)
(* The network may lose, delay and reorder packets but invents none.       *)
(* Bursts are numbered from 1; time is in units of a nanosecond or more.   *)
(***************************************************************************)
EXTENDS Sequences, Ordered

CONSTANTS
  System,       \* the processes of the run
  Numbers,      \* the node numbers a schedule may name: if all nodes are
                \* endpoints, IsValidEndpoint is true of any number
  Endpoints,    \* GetEndpoints(), each of them with a link
  Ports,        \* ephemeral UDP ports of a node that are left for bursts
  Assignments,  \* maps from numbers to systems considered
  Nobody,       \* system of a number that has no entry in the assignment
  Schedules,    \* schedules considered
  EndTime,      \* m_simulation_end_time_ns
  SegmentTime,  \* m_maxSegmentSizeByte * 8000: the time one packet takes at
                \* a rate of 1
  LinkDelay,    \* least delay between two nodes
  NotWritten    \* results of a system that has not written them

ASSUME TimesAssumption ==
  EndTime \in Nat \ {0} /\ SegmentTime \in Nat \ {0} /\ LinkDelay \in Nat \ {0}

ASSUME EndpointsAssumption ==
  /\ Endpoints \subseteq Numbers /\ Numbers \subseteq Nat
  /\ Assignments \subseteq [Numbers -> System \cup {Nobody}]
  /\ \A a \in Assignments, e \in Endpoints : a[e] \in System
  /\ Nobody \notin System

ASSUME PortsAssumption == Ports \in Nat

\* What read_udp_burst_schedule accepts.
IsSchedule(sched) ==
  /\ sched \in Seq([from : Numbers, to : Numbers, rate : Nat \ {0},
                    start : 0 .. EndTime - 1, duration : Nat])
  /\ \A b \in DOMAIN sched :
       /\ sched[b].from # sched[b].to
       /\ b > 1 => sched[b - 1].start <= sched[b].start

ASSUME SchedulesAssumption == \A sched \in Schedules : IsSchedule(sched)

VARIABLES
  schedule,     \* the complete schedule, the same in every system
  assignment,   \* system of a number
  clock,        \* clock[s]: Simulator::Now() of system s
  queue,        \* queue[s]: events <<time, kind, index or burst>>
  m_responsible_for_outgoing_bursts,
  m_responsible_for_incoming_bursts,
  m_socket,     \* the bursts whose client has a socket, which is never closed
  m_sent,       \* m_sent[b] of the client of burst b
  counter,      \* counter[e]: m_incoming_bursts_received_counter at endpoint e
  outgoing,     \* outgoing[b]: lines <<seq, time>> of udp_burst_b_outgoing.csv
  incoming,     \* and of udp_burst_b_incoming.csv
  wire,         \* packets <<burst, seq, time of departure>> on their way
  results,      \* results[s]: rows of the result files
  crashed       \* an exception or a failed check ended the run

inputs == <<schedule, assignment>>
responsible == <<m_responsible_for_outgoing_bursts, m_responsible_for_incoming_bursts>>
vars == <<inputs, clock, queue, responsible, m_socket, m_sent, counter, outgoing,
          incoming, wire, results, crashed>>

Burst == DOMAIN schedule
From(b) == assignment[schedule[b].from]

\* The system of the server the burst goes to, if there is such a node.
To(b) ==
  IF schedule[b].to \in Endpoints THEN assignment[schedule[b].to] ELSE Nobody

----------------------------------------------------------------------------
(* The constructor of the scheduler *)

\* Fault: only bursts that also start in this system are registered.
RegisteredIfLocal(e) == {b \in Burst : schedule[b].to = e /\ From(b) = assignment[e]}

\* RegisterIncomingBurst, from the complete schedule.
Registered(e) == {b \in Burst : schedule[b].to = e}

\* m_schedule: the bursts that start in this system.
FilteredSchedule(s) == InOrder({b \in Burst : From(b) = s}, Ascending(Burst))

\* Endpoint by endpoint, in the order of a std::set.
ByEndpoint ==
  {p \in Burst \X Burst :
     \/ schedule[p[1]].to < schedule[p[2]].to
     \/ schedule[p[1]].to = schedule[p[2]].to /\ p[1] < p[2]}

IncomingInSetupOrder(s) == InOrder({b \in Burst : To(b) = s}, ByEndpoint)

StartOf(s, i) == schedule[FilteredSchedule(s)[i]].start

\* The constructors, which throw at a burst from a number without a system.
Init ==
  /\ schedule \in Schedules
  /\ assignment \in Assignments
  /\ clock = [s \in System |-> 0]
  /\ queue = [s \in System |->
                IF FilteredSchedule(s) = <<>> THEN {}
                ELSE {<<StartOf(s, 1), "StartNextUdpBurst", 1>>}]
  /\ m_responsible_for_outgoing_bursts = [s \in System |-> <<>>]
  /\ m_responsible_for_incoming_bursts = [s \in System |-> IncomingInSetupOrder(s)]
  /\ m_socket = {}
  /\ m_sent = [b \in Burst |-> 0]
  /\ counter = [e \in Endpoints |-> [b \in Registered(e) |-> 0]]
  /\ outgoing = [b \in Burst |-> <<>>]
  /\ incoming = [b \in Burst |-> <<>>]
  /\ wire = {}
  /\ results = [s \in System |-> NotWritten]
  /\ crashed = (\E b \in Burst : From(b) = Nobody)

----------------------------------------------------------------------------
(* Simulated time.  The event that stops the simulation was the first one to *)
(* be scheduled at EndTime: no other event of that time is run.              *)

Running(s) == ~crashed /\ clock[s] < EndTime

Due(s, kind, x) ==
  /\ Running(s)
  /\ <<clock[s], kind, x>> \in queue[s]

\* The event is run, which schedules the events `new`.
Run(s, kind, x, new) ==
  queue' = [queue EXCEPT ![s] = (@ \ {<<clock[s], kind, x>>}) \cup new]

\* External: conservative synchronisation of the systems.
Tick(s) ==
  /\ Running(s)
  /\ \A ev \in queue[s] : ev[1] # clock[s]
  /\ \A r \in System : clock[s] < clock[r] + LinkDelay
  /\ clock' = [clock EXCEPT ![s] = @ + 1]
  /\ UNCHANGED <<inputs, queue, responsible, m_socket, m_sent, counter, outgoing,
                 incoming, wire, results, crashed>>

----------------------------------------------------------------------------
(* Starting and sending *)

\* Fault: the start time of the next burst is taken for a delay.
NextStartAbsolute(s, i) ==
  IF i = Len(FilteredSchedule(s)) THEN {}
  ELSE {<<clock[s] + StartOf(s, i + 1), "StartNextUdpBurst", i + 1>>}

\* The next link of the chain, by its delay from now.
NextStart(s, i) ==
  IF i = Len(FilteredSchedule(s)) THEN {}
  ELSE LET delay == StartOf(s, i + 1) - clock[s]
       IN {<<clock[s] + delay, "StartNextUdpBurst", i + 1>>}

\* The client is made of the addresses of both nodes: that of a number without
\* a node is the end of the process (m_nodes.Get of it is undefined behaviour).
StartNextUdpBurst(s, i) ==
  LET b == FilteredSchedule(s)[i]
      possible == /\ clock[s] = StartOf(s, i)
                  /\ {schedule[b].from, schedule[b].to} \subseteq Endpoints
  IN /\ Due(s, "StartNextUdpBurst", i)
     /\ \/ /\ possible
           /\ Run(s, "StartNextUdpBurst", i,
                  {<<clock[s], "StartApplication", b>>} \cup NextStart(s, i))
           /\ m_responsible_for_outgoing_bursts' =
                [m_responsible_for_outgoing_bursts EXCEPT ![s] = Append(@, b)]
           /\ UNCHANGED crashed
        \/ /\ ~possible
           /\ crashed' = TRUE
           /\ UNCHANGED <<queue, m_responsible_for_outgoing_bursts>>
     /\ UNCHANGED <<inputs, clock, m_responsible_for_incoming_bursts, m_socket,
                    m_sent, counter, outgoing, incoming, wire, results>>

SocketsOf(node) == {b \in m_socket : schedule[b].from = node}

\* The socket is bound to a free port of the node; the client throws if there
\* is none.  m_startTime is the present, hence the start time in the schedule.
StartApplication(s, b) ==
  /\ Due(s, "StartApplication", b)
  /\ \/ /\ Cardinality(SocketsOf(schedule[b].from)) < Ports
        /\ m_socket' = m_socket \cup {b}
        /\ Run(s, "StartApplication", b, {<<clock[s], "Send", b>>})
        /\ UNCHANGED crashed
     \/ /\ Cardinality(SocketsOf(schedule[b].from)) >= Ports
        /\ crashed' = TRUE
        /\ UNCHANGED <<m_socket, queue>>
  /\ UNCHANGED <<inputs, clock, responsible, m_sent, counter, outgoing,
                 incoming, wire, results>>

\* Fault: rounded to the nearest instead of up.
PacketGapRounded(b) == (2 * SegmentTime + schedule[b].rate) \div (2 * schedule[b].rate)

\* packet_gap_nanoseconds: the time of one packet at the target rate, rounded up.
PacketGap(b) == (SegmentTime + schedule[b].rate - 1) \div schedule[b].rate

\* Is there still a packet to be sent at `time`?
GoesOn(b, time) == time < schedule[b].start + schedule[b].duration

\* Fault: the header is filled in after the counter was increased.
HeaderSeqLate(b) == m_sent[b] + 1

\* The sequence number in the header is the one before it is increased.
HeaderSeq(b) == m_sent[b]

Send(s, b) ==
  /\ Due(s, "Send", b)
  /\ LET next == clock[s] + PacketGap(b)
     IN Run(s, "Send", b, IF GoesOn(b, next) THEN {<<next, "Send", b>>} ELSE {})
  /\ m_sent' = [m_sent EXCEPT ![b] = @ + 1]
  /\ outgoing' = [outgoing EXCEPT ![b] = Append(@, <<HeaderSeq(b), clock[s]>>)]
  /\ wire' = wire \cup {<<b, HeaderSeq(b), clock[s]>>}
  /\ UNCHANGED <<inputs, clock, responsible, m_socket, counter, incoming, results,
                 crashed>>

----------------------------------------------------------------------------
(* Receiving *)

\* The at() of the counters throws for a burst that is not registered.
HandleRead(s, p) ==
  LET b == p[1]
      e == schedule[b].to
  IN /\ p \in wire
     /\ To(b) = s
     /\ Running(s)
     /\ clock[s] >= p[3] + LinkDelay
     /\ wire' = wire \ {p}
     /\ IF b \in DOMAIN counter[e]
        THEN /\ counter' = [counter EXCEPT ![e][b] = @ + 1]
             /\ incoming' = [incoming EXCEPT ![b] = Append(@, <<p[2], clock[s]>>)]
             /\ UNCHANGED crashed
        ELSE /\ crashed' = TRUE
             /\ UNCHANGED <<counter, incoming>>
     /\ UNCHANGED <<inputs, clock, queue, responsible, m_socket, m_sent, outgoing, results>>

Lose(p) ==
  /\ ~crashed
  /\ p \in wire
  /\ wire' = wire \ {p}
  /\ UNCHANGED <<inputs, clock, queue, responsible, m_socket, m_sent, counter, outgoing,
                 incoming, results, crashed>>

----------------------------------------------------------------------------
(* Results *)

\* Fault: the rows come in the order in which the servers were set up.
AsTheyAre(ids) == ids

\* std::sort, by identifier; the entries remain as many as they are.
AscendingIds(ids) ==
  LET before == {p \in (DOMAIN ids) \X (DOMAIN ids) :
                   ids[p[1]] < ids[p[2]] \/ (ids[p[1]] = ids[p[2]] /\ p[1] < p[2])}
      sorted == InOrder(DOMAIN ids, before)
  IN [r \in DOMAIN ids |-> ids[sorted[r]]]

OutgoingRows(ids) == [r \in DOMAIN ids |-> <<ids[r], m_sent[ids[r]]>>]

IncomingRows(ids) ==
  [r \in DOMAIN ids |-> <<ids[r], counter[schedule[ids[r]].to][ids[r]]>>]

WriteResults(s) ==
  /\ ~crashed
  /\ clock[s] = EndTime
  /\ results[s] = NotWritten
  /\ results' = [results EXCEPT ![s] =
       [outgoing |-> OutgoingRows(AscendingIds(m_responsible_for_outgoing_bursts[s])),
        incoming |-> IncomingRows(AscendingIds(m_responsible_for_incoming_bursts[s]))]]
  /\ UNCHANGED <<inputs, clock, queue, responsible, m_socket, m_sent, counter, outgoing,
                 incoming, wire, crashed>>

SystemStep(s) ==
  \/ \E i \in Burst : StartNextUdpBurst(s, i)
  \/ \E b \in Burst : StartApplication(s, b)
  \/ \E b \in Burst : Send(s, b)
  \/ Tick(s)
  \/ WriteResults(s)

Next ==
  \/ \E s \in System : SystemStep(s)
  \/ \E s \in System, p \in wire : HandleRead(s, p)
  \/ \E p \in wire : Lose(p)

Spec == Init /\ [][Next]_vars

\* Simulator::Run goes through its events until the end, and main goes on.
FairSpec == Spec /\ \A s \in System : WF_vars(SystemStep(s))

----------------------------------------------------------------------------
(* Properties *)

Lines == Seq(Nat \X Nat)
EventKinds == {"StartNextUdpBurst", "StartApplication", "Send"}

\* Type invariant, with the events of each system not in its past.
TypeOK ==
  /\ schedule \in Schedules /\ assignment \in Assignments
  /\ m_socket \subseteq Burst
  /\ clock \in [System -> 0 .. EndTime]
  /\ queue \in [System -> SUBSET (Nat \X EventKinds \X Nat)]
  /\ \A s \in System : \A ev \in queue[s] : clock[s] <= ev[1]
  /\ m_responsible_for_outgoing_bursts \in [System -> Seq(Burst)]
  /\ m_responsible_for_incoming_bursts \in [System -> Seq(Burst)]
  /\ m_sent \in [Burst -> Nat]
  /\ DOMAIN counter = Endpoints
  /\ \A e \in Endpoints : counter[e] \in [Registered(e) -> Nat]
  /\ outgoing \in [Burst -> Lines] /\ incoming \in [Burst -> Lines]
  /\ wire \subseteq Burst \X Nat \X Nat
  /\ DOMAIN results = System
  /\ crashed \in BOOLEAN

\* The bursts that node e starts until the time.
StartsAt(e, time) == {b \in Burst : schedule[b].from = e /\ schedule[b].start <= time}

\* A run dies only of its schedule, and not before it has to: of a burst from a
\* number that no system has, of one that is due between nodes that are not
\* there, or of more bursts from a node than it has ports.  Else each burst
\* starts when the schedule says, also when several start at once, and a server
\* knows every burst it hears of, whichever system sends it.
OnlyScheduleAborts ==
  crashed => \E b \in Burst :
    LET s == From(b)
        e == schedule[b].from
    IN \/ s = Nobody
       \/ /\ schedule[b].start <= clock[s]
          /\ \/ ~({e, schedule[b].to} \subseteq Endpoints)
             \/ Cardinality(StartsAt(e, clock[s])) > Ports

Written(s) == results[s] # NotWritten

\* In the files of all systems together, every burst of the schedule has one
\* outgoing and one incoming row, and the rows of a file are in the order of
\* the schedule.
EveryBurstIsReportedOnce ==
  LET Has(rows, b) == \E r \in DOMAIN rows : rows[r][1] = b
      IsAscending(rows) == \A r \in 2 .. Len(rows) : rows[r - 1][1] < rows[r][1]
  IN \A s \in System : Written(s) =>
       /\ IsAscending(results[s].outgoing) /\ IsAscending(results[s].incoming)
       /\ \A b \in Burst : Has(results[s].outgoing, b) <=> From(b) = s
       /\ \A b \in Burst : Has(results[s].incoming, b) <=> To(b) = s

\* A burst keeps to its target rate: it is never ahead of it (the m-th packet
\* after the first is not sent before m packets' worth of time), the next
\* packet follows within a time unit of when the rate allows it, and only the
\* first may be sent after the duration is over.
TargetRateIsKept ==
  \A b \in Burst : \A m \in DOMAIN outgoing[b] :
    LET sinceStart == outgoing[b][m][2] - schedule[b].start
    IN /\ sinceStart * schedule[b].rate >= (m - 1) * SegmentTime
       /\ m > 1 => /\ sinceStart < schedule[b].duration
                   /\ (outgoing[b][m][2] - outgoing[b][m - 1][2] - 1) * schedule[b].rate
                        < SegmentTime

\* The result rows and the logs agree across the systems: sequence numbers are
\* those of the packets sent, in order; no packet is received twice, before it
\* was sent, or without having been sent; a row counts the lines of its log;
\* and every started burst has sent a packet.
RowsAgreeWithLogs ==
  /\ \A b \in Burst :
       /\ \A m \in DOMAIN outgoing[b] : outgoing[b][m][1] = m - 1
       /\ \A m, l \in DOMAIN incoming[b] :
            incoming[b][m][1] = incoming[b][l][1] => m = l
       /\ \A m \in DOMAIN incoming[b] :
            \E l \in DOMAIN outgoing[b] :
              /\ outgoing[b][l][1] = incoming[b][m][1]
              /\ outgoing[b][l][2] + LinkDelay <= incoming[b][m][2]
  /\ \A s \in System : Written(s) =>
       /\ \A r \in DOMAIN results[s].outgoing :
            LET row == results[s].outgoing[r]
            IN row[2] = Len(outgoing[row[1]]) /\ row[2] > 0
       /\ \A r \in DOMAIN results[s].incoming :
            LET row == results[s].incoming[r]
            IN row[2] = Len(incoming[row[1]])

\* Every burst is between endpoints and finds a port.
ScheduleIsSound ==
  /\ \A b \in Burst : {schedule[b].from, schedule[b].to} \subseteq Endpoints
  /\ \A e \in Endpoints : Cardinality(StartsAt(e, EndTime)) <= Ports

\* All systems come to write their results, unless the schedule makes it
\* impossible.
AllResultsAreWritten == ScheduleIsSound ~> (\A s \in System : Written(s))
=============================================================================
