--------------------------- MODULE QueueTracking ---------------------------
(***************************************************************************)
(* PtopLinkNetDeviceQueueTracking and PtopLinkInterfaceTcQdiscQueueTracking: *)
(* the sizes over time, in packets and in bytes, of the queues of links:   *)
(* those of the net-devices and those of the queueing disciplines.         *)
(*                                                                         *)
(* A tracker is attached to the queue behind a link and is called back     *)
(* when its size changes.  Its logs are step functions of time here, with  *)
(* the run-length form as their rows: LogUpdateHelper is shown to          *)
(* implement that (see SignalLog).  What the queues hold is the            *)
(* simulator's; of the traffic, the bytes of each packet are kept.         *)
(***************************************************************************)
EXTENDS Simulators, Ordered

CONSTANTS
  PacketSizes,    \* bytes of packets
  MaxPackets      \* bound on the packets in a queue

VARIABLES
  queues,     \* queues[q]: the packets in queue q = <<kind, device>>, oldest first;
              \* only queues behind links that get traffic
  history,    \* history[q][t]: packets and bytes in q at the end of instant t,
              \* provided that they remain
  trackers,   \* trackers[kind][s][link]: a tracker, its device and its two logs
  csv         \* csv[kind][s]: rows <<link, from, to, size>> in packets and in bytes

qtVars == <<queues, history, trackers, csv>>

Kinds == {"net_device", "qdisc"}

\* busy: the queues that get traffic, as pairs of a kind and a link
ASSUME TrackingAssumption == \A i \in Inputs : \A b \in i.busy : b[1] \in Kinds

Times == 0 .. EndTime

\* The device that packets from the first node to the second one pass.
DeviceOf(link) ==
  CHOOSE d \in {<<link[1], i>> : i \in DOMAIN devices[link[1]]} :
    devices[d[1]][d[2]].link = link

\* The queue a tracker finds behind a link, if there is one.
HasQueue(kind, link) ==
  /\ link \in GetLinksSet
  /\ kind = "qdisc" =>
       LET d == GetSendingNetDeviceForLink(link) IN devices[d[1]][d[2]].qdisc # NoQdisc

\* The queues that get traffic.
BusyQueues ==
  {<<b[1], DeviceOf(b[2])>> : b \in {c \in input.busy : HasQueue(c[1], c[2])}}

QtInit ==
  /\ queues = Empty /\ history = Empty
  /\ trackers = [kind \in Kinds |-> [s \in Processes |-> Empty]]
  /\ csv = [kind \in Kinds |-> [s \in Processes |-> [pkt |-> <<>>, byte |-> <<>>]]]

\* The queues exist as soon as the links are installed.
QueuesAreInstalled ==
  /\ queues' = [q \in BusyQueues |-> <<>>]
  /\ history' = [q \in BusyQueues |-> [t \in Times |-> [pkt |-> 0, byte |-> 0]]]
  /\ UNCHANGED <<trackers, csv>>

----------------------------------------------------------------------------
(* Attaching the trackers *)

\* Fault: the links that lead to the nodes of this system.
LinksTo(s, links) == {link \in links : IsMine(assignment, s, link[2])}

LinksFrom(s, links) == {link \in links : IsMine(assignment, s, link[1])}

EnabledFor(kind) ==
  LET v == input.tracking[kind].links
  IN IF Plain(v) = "all" THEN GetLinksSet ELSE parse_set_directed_pair_positive_int64(v)

\* QueueTracker and QdiscQueueTracker: the first report is of an empty queue.
NewTracker(link) ==
  [device |-> GetSendingNetDeviceForLink(link),
   pkt |-> [t \in Times |-> 0], byte |-> [t \in Times |-> 0]]

StageAfter == [net_device |-> "track_qdisc", qdisc |-> "schedule_flows"]

\* The constructor: in each system the links that start at its nodes.
ConstructTracking(kind, s) ==
  LET links == EnabledFor(kind)
      valid == /\ links # Error
               /\ assignment # NotDistributed =>
                    \A link \in links : HasSystem(assignment, link[1])
               /\ \A link \in LinksFrom(s, links) : HasQueue(kind, link)
  IN /\ stage[s] = IF kind = "qdisc" THEN "track_qdisc" ELSE "track_net_device"
     /\ \/ /\ ~input.tracking[kind].enabled
           /\ MainContinues(s, StageAfter[kind])
           /\ UNCHANGED trackers
        \/ /\ input.tracking[kind].enabled /\ ~valid
           /\ MainContinues(s, "refused")
           /\ UNCHANGED trackers
        \/ /\ input.tracking[kind].enabled /\ valid
           /\ trackers' = [trackers EXCEPT ![kind][s] =
                            [link \in LinksFrom(s, links) |-> NewTracker(link)]]
           /\ MainContinues(s, StageAfter[kind])
     /\ UNCHANGED <<now, queues, history, csv>>

----------------------------------------------------------------------------
(* Traffic, and the callbacks of the trackers *)

SumBytes(packets) ==
  LET sum[i \in 0 .. Len(packets)] == IF i = 0 THEN 0 ELSE sum[i - 1] + packets[i]
  IN sum[Len(packets)]

\* From time t on the value is v.
Reported(log, t, v) == [u \in Times |-> IF u >= t THEN v ELSE log[u]]

\* PacketsInQueueCallback and BytesInQueueCallback
Callbacks(tracker, q, t, packets) ==
  IF tracker.device = q[2]
  THEN [tracker EXCEPT !.pkt = Reported(@, t, Len(packets)),
                       !.byte = Reported(@, t, SumBytes(packets))]
  ELSE tracker

QueueBecomes(s, q, packets) ==
  /\ queues' = [queues EXCEPT ![q] = packets]
  /\ history' = [history EXCEPT ![q] =
                  Reported(@, now[s], [pkt |-> Len(packets), byte |-> SumBytes(packets)])]
  /\ trackers' = [trackers EXCEPT ![q[1]][s] =
                   [link \in DOMAIN @ |-> Callbacks(@[link], q, now[s], packets)]]
  /\ UNCHANGED <<now, stage, csv>>

\* The traffic of a device is in the system of its node.
Traffic(s) ==
  /\ stage[s] = "running"
  /\ now[s] < EndTime
  /\ \E q \in DOMAIN queues :
       /\ IsMine(assignment, s, q[2][1])
       /\ \/ \E size \in PacketSizes :
               Len(queues[q]) < MaxPackets /\ QueueBecomes(s, q, Append(queues[q], size))
          \/ queues[q] # <<>> /\ QueueBecomes(s, q, Tail(queues[q]))

----------------------------------------------------------------------------
(* WriteResults *)

\* The intervals of a log up to its finalization, each with what comes next:
\* rows <<link, from, to, size>>.
Intervals(link, log, end) ==
  LET starts == {t \in 0 .. end - 1 : t = 0 \/ log[t] # log[t - 1]}
      next(t) == CHOOSE u \in starts \cup {end} :
                   u > t /\ \A v \in starts : v > t => u <= v
  IN {<<link, t, next(t), log[t]>> : t \in starts}

ascending_by_directed_link(a, b) == a[1] < b[1] \/ (a[1] = b[1] /\ a[2] < b[2])

\* One link after the other, and one interval of it after the other.
Earlier(r, q) ==
  ascending_by_directed_link(r[1], q[1]) \/ (r[1] = q[1] /\ r[2] < q[2])

Rows(links, log, end) ==
  LET all == UNION {Intervals(link, log[link], end) : link \in links}
  IN InOrder(all, {p \in all \X all : Earlier(p[1], p[2])})

WriteQueueResults(kind, s) ==
  LET t == trackers[kind][s]
  IN /\ stage[s] = IF kind = "qdisc" THEN "write_qdisc" ELSE "write_net_device"
     /\ csv' = [csv EXCEPT ![kind][s] =
                 [pkt |-> Rows(DOMAIN t, [l \in DOMAIN t |-> t[l].pkt], now[s]),
                  byte |-> Rows(DOMAIN t, [l \in DOMAIN t |-> t[l].byte], now[s])]]
     /\ MainContinues(s, IF kind = "qdisc" THEN "over" ELSE "write_qdisc")
     /\ UNCHANGED <<now, queues, history, trackers>>

----------------------------------------------------------------------------
(* Properties *)

\* Once all systems are done, the files together say for each instant of the
\* run and each link that was asked for, once, what the queue behind that link
\* held at the end of that instant, in packets and in bytes; no two adjoining
\* rows could be one, and the rows of a file are in the order of links and times.
QueueRowsAreExact ==
  (\A s \in Systems : stage[s] = "over") =>
    \A kind \in {k \in Kinds : input.tracking[k].enabled}, unit \in {"pkt", "byte"} :
      LET file(s) == csv[kind][s][unit]
          held(link, t) == LET q == <<kind, DeviceOf(link)>>
                           IN IF q \in DOMAIN history THEN history[q][t][unit] ELSE 0
      IN /\ \A link \in EnabledFor(kind) : \A t \in 0 .. EndTime - 1 :
              LET hits == {h \in UNION {{s} \X DOMAIN file(s) : s \in Systems} :
                             LET row == file(h[1])[h[2]]
                             IN row[1] = link /\ row[2] <= t /\ t < row[3]}
              IN /\ Cardinality(hits) = 1
                 /\ \A h \in hits : file(h[1])[h[2]][4] = held(link, t)
         /\ \A s \in Systems : \A i \in DOMAIN file(s) :
              /\ file(s)[i][1] \in EnabledFor(kind)
              /\ i > 1 =>
                   \/ ascending_by_directed_link(file(s)[i - 1][1], file(s)[i][1])
                   \/ /\ file(s)[i - 1][1] = file(s)[i][1]
                      /\ file(s)[i - 1][3] = file(s)[i][2]
                      /\ file(s)[i - 1][4] # file(s)[i][4]
=============================================================================
