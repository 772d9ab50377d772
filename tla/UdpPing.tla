------------------------------ MODULE UdpPing ------------------------------
(***************************************************************************)
(* UDP pings from schedule to result file: UdpPingScheduler (the chain of  *)
(* StartNextUdpPing events and WriteResults), UdpPingClient and            *)
(* UdpPingServer.                                                          *)
(*                                                                         *)
(* Requests and replies may be lost, delayed and reordered.  A client      *)
(* closes its socket some time after its last request; the port may then   *)
(* go to a later client of the same node, which is sent the replies that   *)
(* are still under way.  Events of one instant are run in any order, all   *)
(* of them before the clock moves on.  Pings are numbered from 1.          *)
(***************************************************************************)
EXTENDS Integers, Sequences

CONSTANTS
  Schedules,    \* schedules considered: sequences of
                \* [from, to, interval, start, duration, wait]
  EndTime,      \* m_simulation_end_time_ns
  Ports,        \* ephemeral ports
  Closed,       \* no port: the client has no socket
  NotWritten    \* no results

ASSUME EndAssumption == EndTime \in Nat \ {0}
ASSUME PortsAssumption == Closed \notin Ports

\* What read_udp_ping_schedule accepts.
IsSchedule(sched) ==
  /\ sched \in Seq({sched[c] : c \in DOMAIN sched})
  /\ \A c \in DOMAIN sched :
       /\ sched[c].from # sched[c].to
       /\ {sched[c].start, sched[c].duration, sched[c].wait} \subseteq Nat
       /\ sched[c].interval \in Nat \ {0}
       /\ sched[c].start < EndTime
       /\ c > 1 => sched[c - 1].start <= sched[c].start

ASSUME SchedulesAssumption == \A sched \in Schedules : IsSchedule(sched)

VARIABLES
  schedule,     \* m_schedule of the scheduler
  now,
  queue,        \* events <<time, kind, ping>>
  m_apps,       \* the clients of the scheduler, in the order of their start
  port,         \* port[c]: the port of m_socket of client c
  m_startTime,  \* m_startTime[c], -1 before the start
  m_sendRequestTimestamps,
  m_replyTimestamps,            \* -1 until the reply is there
  m_receiveReplyTimestamps,
  wire,         \* packets on their way, to the server or back
  answered,     \* history: <<ping, seq, time>> of each request served
  results,      \* rows of udp_pings.csv
  crashed       \* "no", or the check that ended the run

stamps == <<m_sendRequestTimestamps, m_replyTimestamps, m_receiveReplyTimestamps>>
clients == <<port, m_startTime, stamps>>
vars == <<schedule, now, queue, m_apps, clients, wire, answered, results, crashed>>

Ping == DOMAIN schedule
SentBy(c) == Len(m_sendRequestTimestamps[c])

Init ==
  /\ schedule \in Schedules
  /\ now = 0
  /\ queue = IF schedule = <<>> THEN {} ELSE {<<schedule[1].start, "StartNextUdpPing", 1>>}
  /\ m_apps = <<>>
  /\ port = [c \in Ping |-> Closed]
  /\ m_startTime = [c \in Ping |-> -1]
  /\ m_sendRequestTimestamps = [c \in Ping |-> <<>>]
  /\ m_replyTimestamps = [c \in Ping |-> <<>>]
  /\ m_receiveReplyTimestamps = [c \in Ping |-> <<>>]
  /\ wire = {}
  /\ answered = {}
  /\ results = NotWritten
  /\ crashed = "no"

----------------------------------------------------------------------------
(* Simulated time: events of EndTime are not run any more. *)

Running == crashed = "no" /\ now < EndTime

Due(kind, c) == Running /\ <<now, kind, c>> \in queue

\* The event is run, which schedules the events `new`.
Run(kind, c, new) == queue' = (queue \ {<<now, kind, c>>}) \cup new

Tick ==
  /\ Running
  /\ \A ev \in queue : ev[1] # now
  /\ now' = now + 1
  /\ UNCHANGED <<schedule, queue, m_apps, clients, wire, answered, results, crashed>>

----------------------------------------------------------------------------
(* UdpPingScheduler *)

\* Fault: the chain ends at a ping that starts together with the next one.
NextStartIfLater(c) ==
  IF c = Len(schedule) \/ schedule[c + 1].start = now THEN {}
  ELSE {<<schedule[c + 1].start, "StartNextUdpPing", c + 1>>}

\* The next link of the chain, by its delay from now.
NextStart(c) ==
  IF c = Len(schedule) THEN {}
  ELSE LET delay == schedule[c + 1].start - now
       IN {<<now + delay, "StartNextUdpPing", c + 1>>}

StartNextUdpPing(c) ==
  /\ Due("StartNextUdpPing", c)
  /\ IF now # schedule[c].start
     THEN /\ crashed' = "start time"
          /\ UNCHANGED <<queue, m_apps>>
     ELSE /\ Run("StartNextUdpPing", c,
                 {<<now, "StartApplication", c>>} \cup NextStart(c))
          /\ m_apps' = Append(m_apps, c)
          /\ UNCHANGED crashed
  /\ UNCHANGED <<schedule, now, clients, wire, answered, results>>

----------------------------------------------------------------------------
(* UdpPingClient *)

FreePorts(c) ==
  Ports \ {port[d] : d \in {d \in Ping : schedule[d].from = schedule[c].from}}

StartApplication(c) ==
  /\ Due("StartApplication", c)
  /\ \/ /\ \E free \in FreePorts(c) : port' = [port EXCEPT ![c] = free]
        /\ m_startTime' = [m_startTime EXCEPT ![c] = now]
        /\ Run("StartApplication", c, {<<now, "Send", c>>})
        /\ UNCHANGED crashed
     \/ /\ FreePorts(c) = {}
        /\ crashed' = "bind"
        /\ UNCHANGED <<port, m_startTime, queue>>
  /\ UNCHANGED <<schedule, now, m_apps, stamps, wire, answered, results>>

\* The start time and the duration of the ping.
SendingUntil(c) == m_startTime[c] + schedule[c].duration

\* Fault: one more request, when the duration is just over.
AfterSendAtEnd(c) ==
  IF now + schedule[c].interval <= SendingUntil(c)
  THEN <<now + schedule[c].interval, "Send", c>>
  ELSE <<SendingUntil(c) + schedule[c].wait, "Finish", c>>

\* The event that follows a request: another one, or the end.
AfterSend(c) ==
  IF now + schedule[c].interval < SendingUntil(c)
  THEN <<now + schedule[c].interval, "Send", c>>
  ELSE <<now + (SendingUntil(c) - now + schedule[c].wait), "Finish", c>>

Request(c) ==
  [kind |-> "request", id |-> c, seq |-> SentBy(c), ts |-> now,
   node |-> schedule[c].from, port |-> port[c]]

Send(c) ==
  /\ Due("Send", c)
  /\ wire' = wire \cup {Request(c)}
  /\ m_sendRequestTimestamps' = [m_sendRequestTimestamps EXCEPT ![c] = Append(@, now)]
  /\ m_replyTimestamps' = [m_replyTimestamps EXCEPT ![c] = Append(@, -1)]
  /\ m_receiveReplyTimestamps' = [m_receiveReplyTimestamps EXCEPT ![c] = Append(@, -1)]
  /\ Run("Send", c, {AfterSend(c)})
  /\ UNCHANGED <<schedule, now, m_apps, port, m_startTime, answered, results, crashed>>

\* Fault: the port stays bound.
CloseSocketNot(c) == UNCHANGED port

CloseSocket(c) == port' = [port EXCEPT ![c] = Closed]

\* Neither a request nor another end of the client may be due later.
Finish(c) ==
  /\ Due("Finish", c)
  /\ Run("Finish", c, {})
  /\ IF \E ev \in queue \ {<<now, "Finish", c>>} : ev[2] \in {"Send", "Finish"} /\ ev[3] = c
     THEN crashed' = "unexpired event" /\ UNCHANGED port
     ELSE UNCHANGED crashed /\ CloseSocket(c)
  /\ UNCHANGED <<schedule, now, m_apps, m_startTime, stamps, wire, answered, results>>

\* Fault: any reply is taken for one's own.
IsOwnAlways(c, p) == TRUE

IsOwn(c, p) == p.id = c

\* The client whose socket a reply is delivered to.
Receiver(p) == {c \in Ping : schedule[c].from = p.node /\ port[c] = p.port}

ClientHandleRead(c, p) ==
  LET m == p.seq + 1
  IN /\ Running
     /\ p \in wire /\ p.kind = "reply"
     /\ c \in Receiver(p)
     /\ wire' = wire \ {p}
     /\ \/ ~IsOwn(c, p) /\ UNCHANGED <<stamps, crashed>>
        \/ /\ IsOwn(c, p) /\ p.seq >= SentBy(c)
           /\ crashed' = "not sent yet" /\ UNCHANGED stamps
        \/ /\ IsOwn(c, p) /\ p.seq < SentBy(c)
           /\ m_replyTimestamps[c][m] # -1 \/ m_receiveReplyTimestamps[c][m] # -1
           /\ crashed' = "duplicate" /\ UNCHANGED stamps
        \/ /\ IsOwn(c, p) /\ p.seq < SentBy(c)
           /\ m_replyTimestamps[c][m] = -1 /\ m_receiveReplyTimestamps[c][m] = -1
           /\ m_replyTimestamps' = [m_replyTimestamps EXCEPT ![c][m] = p.ts]
           /\ m_receiveReplyTimestamps' = [m_receiveReplyTimestamps EXCEPT ![c][m] = now]
           /\ UNCHANGED <<m_sendRequestTimestamps, crashed>>
     /\ UNCHANGED <<schedule, now, queue, m_apps, port, m_startTime, answered, results>>

----------------------------------------------------------------------------
(* UdpPingServer and the network *)

\* Fault: the reply carries the time of the request.
ReplyWithRequestTime(p) == [p EXCEPT !.kind = "reply"]

\* The same identifier and sequence number, the server's time, back to where
\* the request came from.
Reply(p) == [p EXCEPT !.kind = "reply", !.ts = now]

ServerHandleRead(p) ==
  /\ Running
  /\ p \in wire /\ p.kind = "request"
  /\ wire' = (wire \ {p}) \cup {Reply(p)}
  /\ answered' = answered \cup {<<p.id, p.seq, now>>}
  /\ UNCHANGED <<schedule, now, queue, m_apps, clients, results, crashed>>

\* Lost on the way, or no socket has the port.
Lose(p) ==
  /\ Running
  /\ p \in wire
  /\ wire' = wire \ {p}
  /\ UNCHANGED <<schedule, now, queue, m_apps, clients, answered, results, crashed>>

----------------------------------------------------------------------------
(* Results *)

Row(i, m) ==
  LET c == m_apps[i]
      sent == m_sendRequestTimestamps[c][m]
      replied == m_replyTimestamps[c][m]
      received == m_receiveReplyTimestamps[c][m]
  IN IF replied = -1
     THEN [there |-> -1, back |-> -1, rtt |-> -1, arrived |-> "LOST"]
     ELSE [there |-> replied - sent, back |-> received - replied,
           rtt |-> (replied - sent) + (received - replied), arrived |-> "YES"]

\* Row m of the i-th client, under the identifier of the i-th schedule entry.
WriteResults ==
  /\ crashed = "no"
  /\ now = EndTime
  /\ results = NotWritten
  /\ results' = [i \in DOMAIN m_apps |-> [m \in 1 .. SentBy(m_apps[i]) |-> Row(i, m)]]
  /\ UNCHANGED <<schedule, now, queue, m_apps, clients, wire, answered, crashed>>

Next ==
  \/ \E c \in Ping : StartNextUdpPing(c)
  \/ \E c \in Ping : StartApplication(c)
  \/ \E c \in Ping : Send(c)
  \/ \E c \in Ping : Finish(c)
  \/ \E c \in Ping, p \in wire : ClientHandleRead(c, p)
  \/ \E p \in wire : ServerHandleRead(p)
  \/ \E p \in wire : Lose(p)
  \/ Tick
  \/ WriteResults

Spec == Init /\ [][Next]_vars

----------------------------------------------------------------------------
(* Properties *)

\* Type invariant.
TypeOK ==
  /\ now \in 0 .. EndTime
  /\ \A ev \in queue :
       ev[1] >= now /\ ev[3] \in Ping
         /\ ev[2] \in {"StartNextUdpPing", "StartApplication", "Send", "Finish"}
  /\ m_apps \in Seq(Ping)
  /\ port \in [Ping -> Ports \cup {Closed}]
  /\ m_startTime \in [Ping -> -1 .. EndTime]
  /\ \A c \in Ping : \A seq \in {m_sendRequestTimestamps[c], m_replyTimestamps[c],
                                 m_receiveReplyTimestamps[c]} :
       seq \in Seq(-1 .. EndTime) /\ Len(seq) = SentBy(c)
  /\ crashed \in {"no", "start time", "bind", "unexpired event", "not sent yet",
                  "duplicate"}

\* None of the checks fails: each ping starts when the schedule says, an end
\* comes after all requests, and a reply that is taken is one that was
\* awaited, also when a port has passed from one client to the next.
NeverAborts == crashed = "no"

\* The timestamps kept for a request are those of its own reply: the time at
\* which the server answered this very request, between sending and receiving,
\* and received before the client finished.
RepliesAreOwn ==
  \A c \in Ping : \A m \in 1 .. SentBy(c) :
    LET reply == m_replyTimestamps[c][m]
        receive == m_receiveReplyTimestamps[c][m]
    IN /\ reply = -1 <=> receive = -1
       /\ reply # -1 =>
            /\ <<c, m - 1, reply>> \in answered
            /\ m_sendRequestTimestamps[c][m] <= reply
            /\ reply <= receive
            /\ receive <= SendingUntil(c) + schedule[c].wait

\* Requests are sent at the start and then at every interval as long as the
\* duration is not over; when the run is over, none is missing.
RequestsKeepInterval ==
  \A c \in Ping :
    LET Expected(m) == schedule[c].start + (m - 1) * schedule[c].interval
        Wanted(m) == m = 1 \/ Expected(m) < schedule[c].start + schedule[c].duration
    IN /\ \A m \in 1 .. SentBy(c) :
            m_sendRequestTimestamps[c][m] = Expected(m) /\ Wanted(m)
       /\ results # NotWritten =>
            LET m == SentBy(c) + 1 IN ~Wanted(m) \/ Expected(m) >= EndTime

\* A client has its socket from its start until its duration and its waiting
\* time are over, neither shorter (replies would count as lost) nor longer.
SocketClosesOnTime ==
  \A c \in Ping :
    LET end == schedule[c].start + schedule[c].duration + schedule[c].wait
    IN /\ port[c] # Closed => schedule[c].start <= now /\ now <= end
       /\ port[c] = Closed /\ m_startTime[c] # -1 => now >= end

\* The file has the rows of every ping of the schedule under its own identifier,
\* at least one each (the share of replies is a quotient by their number), and
\* a row is LOST just when no reply was taken; else its latencies add up to the
\* time from sending to receiving.
RowsAreComplete ==
  results # NotWritten =>
    /\ m_apps = [c \in Ping |-> c]
    /\ \A c \in Ping :
         /\ Len(results[c]) = SentBy(c) /\ SentBy(c) > 0
         /\ \A m \in 1 .. SentBy(c) :
              LET row == results[c][m]
              IN /\ row.arrived = "LOST" <=> m_receiveReplyTimestamps[c][m] = -1
                 /\ row.arrived = "YES" =>
                      /\ row.there >= 0 /\ row.back >= 0
                      /\ row.rtt = m_receiveReplyTimestamps[c][m]
                                     - m_sendRequestTimestamps[c][m]
=============================================================================
