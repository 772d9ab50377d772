---------------------------- MODULE UdpPingProofs ----------------------------
(***************************************************************************)
(* Pings are sent, answered and reported as the schedule says, for every   *)
(* schedule, whatever is lost, late or reordered, and however ports pass   *)
(* from one client to the next.                                            *)
(***************************************************************************)
EXTENDS UdpPing, FiniteSetTheorems, SequenceTheorems, TLAPS

ClientKinds == {"StartApplication", "Send", "Finish"}
Kinds == {"StartNextUdpPing"} \cup ClientKinds
Stamp == -1 .. EndTime

\* Events of a client that are still to come.
Events(c) == {ev \in queue : ev[3] = c /\ ev[2] \in ClientKinds}

Start(c) == schedule[c].start
SendTime(c, m) == Start(c) + (m - 1) * schedule[c].interval
IsWanted(c, m) == m = 1 \/ SendTime(c, m) < Start(c) + schedule[c].duration
End(c) == Start(c) + schedule[c].duration + schedule[c].wait

\* Every client is in one of five phases, which follow each other.
NotDue(c) ==
  /\ c > Len(m_apps) /\ m_startTime[c] = -1 /\ port[c] = Closed
  /\ SentBy(c) = 0 /\ Events(c) = {}

Starting(c) ==
  /\ c <= Len(m_apps) /\ m_startTime[c] = -1 /\ port[c] = Closed
  /\ SentBy(c) = 0 /\ Events(c) = {<<Start(c), "StartApplication", c>>}

IsStarted(c) ==
  /\ c <= Len(m_apps) /\ m_startTime[c] = Start(c) /\ Start(c) <= now

Sending(c) ==
  /\ IsStarted(c) /\ port[c] # Closed /\ IsWanted(c, SentBy(c) + 1)
  /\ Events(c) = {<<SendTime(c, SentBy(c) + 1), "Send", c>>}

Waiting(c) ==
  /\ IsStarted(c) /\ port[c] # Closed /\ ~IsWanted(c, SentBy(c) + 1)
  /\ SentBy(c) > 0 /\ Events(c) = {<<End(c), "Finish", c>>}

Finished(c) ==
  /\ IsStarted(c) /\ port[c] = Closed /\ ~IsWanted(c, SentBy(c) + 1)
  /\ SentBy(c) > 0 /\ Events(c) = {} /\ End(c) <= now

Phases ==
  \A c \in Ping : NotDue(c) \/ Starting(c) \/ Sending(c) \/ Waiting(c) \/ Finished(c)

\* The chain of events that start the pings.
Chain ==
  /\ Len(m_apps) <= Len(schedule)
  /\ \A i \in 1 .. Len(m_apps) : m_apps[i] = i
  /\ \A ev \in queue : ev[2] = "StartNextUdpPing" =>
       ev[3] = Len(m_apps) + 1 /\ ev[3] \in Ping /\ ev[1] = Start(ev[3])
  /\ Len(m_apps) < Len(schedule) =>
       <<Start(Len(m_apps) + 1), "StartNextUdpPing", Len(m_apps) + 1>> \in queue

Typed ==
  /\ schedule \in Schedules
  /\ now \in 0 .. EndTime
  /\ queue \subseteq Nat \X Kinds \X Ping
  /\ \A ev \in queue : ev[1] >= now
  /\ m_apps \in Seq(Ping)
  /\ port \in [Ping -> Ports \cup {Closed}]
  /\ m_startTime \in [Ping -> Stamp]
  /\ m_sendRequestTimestamps \in [Ping -> Seq(Stamp)]
  /\ m_replyTimestamps \in [Ping -> Seq(Stamp)]
  /\ m_receiveReplyTimestamps \in [Ping -> Seq(Stamp)]
  /\ \A c \in Ping : /\ Len(m_replyTimestamps[c]) = SentBy(c)
                     /\ Len(m_receiveReplyTimestamps[c]) = SentBy(c)
  /\ crashed \in {"no", "bind"}

\* A packet under way belongs to a request that was sent and has no reply yet,
\* and is the only one that does.
PacketType ==
  [kind : {"request", "reply"}, id : Ping, seq : Nat, ts : 0 .. EndTime,
   node : {schedule[c].from : c \in Ping}, port : Ports]

Packets ==
  /\ wire \subseteq PacketType
  /\ \A p \in wire :
       /\ p.seq < SentBy(p.id)
       /\ m_sendRequestTimestamps[p.id][p.seq + 1] <= p.ts
       /\ p.ts <= now
       /\ p.kind = "reply" => <<p.id, p.seq, p.ts>> \in answered
       /\ m_replyTimestamps[p.id][p.seq + 1] = -1
       /\ m_receiveReplyTimestamps[p.id][p.seq + 1] = -1
  /\ \A p, q \in wire : p.id = q.id /\ p.seq = q.seq => p = q

\* What was sent so far was sent at the intervals of the schedule.
Sent ==
  \A c \in Ping : \A m \in 1 .. SentBy(c) :
    m_sendRequestTimestamps[c][m] = SendTime(c, m) /\ IsWanted(c, m)

ResultsAreRows ==
  results # NotWritten =>
    /\ now = EndTime /\ crashed = "no"
    /\ results = [i \in DOMAIN m_apps |-> [m \in 1 .. SentBy(m_apps[i]) |-> Row(i, m)]]

PingIInv ==
  Typed /\ Phases /\ Chain /\ Packets /\ Sent /\ RepliesAreOwn /\ ResultsAreRows

----------------------------------------------------------------------------
LEMMA ScheduleFacts ==
  ASSUME schedule \in Schedules
  PROVE  /\ Len(schedule) \in Nat /\ Ping = 1 .. Len(schedule)
         /\ schedule # << >> => Len(schedule) > 0
         /\ \A c \in Ping :
              /\ Start(c) \in Nat /\ Start(c) < EndTime
              /\ schedule[c].duration \in Nat /\ schedule[c].wait \in Nat
              /\ schedule[c].interval \in Nat \ {0}
              /\ c > 1 => Start(c - 1) <= Start(c)
PROOF
<1>1. IsSchedule(schedule)
  BY SchedulesAssumption
<1>2. schedule \in Seq({schedule[c] : c \in DOMAIN schedule})
  BY <1>1 DEF IsSchedule
<1>3. /\ Len(schedule) \in Nat /\ DOMAIN schedule = 1 .. Len(schedule)
      /\ schedule # << >> => Len(schedule) > 0
  BY <1>2, LenProperties, EmptySeq
<1> QED  BY <1>1, <1>3 DEF IsSchedule, Ping, Start

LEMMA SentTyped ==
  ASSUME Typed, NEW c \in Ping
  PROVE  /\ SentBy(c) \in Nat
         /\ m_sendRequestTimestamps[c] \in Seq(Stamp)
         /\ m_replyTimestamps[c] \in Seq(Stamp)
         /\ m_receiveReplyTimestamps[c] \in Seq(Stamp)
         /\ Len(m_replyTimestamps[c]) = SentBy(c)
         /\ Len(m_receiveReplyTimestamps[c]) = SentBy(c)
PROOF
<1>1. m_sendRequestTimestamps[c] \in Seq(Stamp)
  BY DEF Typed
<1> QED  BY <1>1, LenProperties DEF Typed, SentBy

LEMMA TimesTyped ==
  ASSUME Typed, NEW c \in Ping, NEW m \in Nat \ {0}
  PROVE  /\ SendTime(c, m) \in Nat /\ End(c) \in Nat
         /\ SendTime(c, 1) = Start(c)
         /\ SendTime(c, m + 1) = SendTime(c, m) + schedule[c].interval
         /\ IsWanted(c, m) => SendTime(c, m) <= Start(c) + schedule[c].duration
PROOF
<1> DEFINE i == schedule[c].interval
<1>1. i \in Nat /\ Start(c) \in Nat /\ schedule[c].duration \in Nat
      /\ schedule[c].wait \in Nat
  BY ScheduleFacts DEF Typed
<1> HIDE DEF i
<1>2. m - 1 \in Nat /\ (m + 1) - 1 = m
  OBVIOUS
<1>3. (m - 1) * i \in Nat
  BY <1>1, <1>2
<1>4. m * i = (m - 1) * i + i
  BY <1>1
<1>5. (1 - 1) * i = 0
  BY <1>1
<1>6. /\ SendTime(c, m) = Start(c) + (m - 1) * i
      /\ SendTime(c, m + 1) = Start(c) + m * i
      /\ SendTime(c, 1) = Start(c) + (1 - 1) * i
  BY <1>2 DEF SendTime, i
<1>7. /\ SendTime(c, m) \in Nat /\ SendTime(c, 1) = Start(c)
      /\ SendTime(c, m + 1) = SendTime(c, m) + i
  BY <1>1, <1>3, <1>4, <1>5, <1>6
<1>8. End(c) \in Nat
  BY <1>1 DEF End
<1>9. IsWanted(c, m) => SendTime(c, m) <= Start(c) + schedule[c].duration
  BY <1>1, <1>7 DEF IsWanted
<1> QED  BY <1>7, <1>8, <1>9 DEF i

\* A client to which nothing happens stays in its phase.
LEMMA PhaseKept ==
  ASSUME Typed, NEW c \in Ping, schedule' = schedule, now' \in Int, now <= now',
         NotDue(c) \/ Starting(c) \/ Sending(c) \/ Waiting(c) \/ Finished(c),
         c <= Len(m_apps') <=> c <= Len(m_apps),
         c > Len(m_apps') <=> c > Len(m_apps),
         m_startTime'[c] = m_startTime[c], port'[c] = port[c],
         SentBy(c)' = SentBy(c), Events(c)' = Events(c)
  PROVE  (NotDue(c) \/ Starting(c) \/ Sending(c) \/ Waiting(c) \/ Finished(c))'
PROOF
<1>1. Start(c) \in Nat /\ End(c) \in Nat /\ now \in Int
  <2>1. Start(c) \in Nat
    BY ScheduleFacts DEF Typed
  <2>2. End(c) \in Nat
    <3>1. 1 \in Nat \ {0}
      OBVIOUS
    <3> QED  BY <3>1, TimesTyped
  <2>3. now \in Int
    BY EndAssumption DEF Typed
  <2> QED  BY <2>1, <2>2, <2>3
<1>2. Start(c)' = Start(c) /\ End(c)' = End(c)
      /\ SendTime(c, SentBy(c) + 1)' = SendTime(c, SentBy(c) + 1)
      /\ IsWanted(c, SentBy(c) + 1)' = IsWanted(c, SentBy(c) + 1)
  BY DEF Start, End, SendTime, IsWanted
<1>3. (Start(c) <= now => Start(c) <= now') /\ (End(c) <= now => End(c) <= now')
  BY <1>1
<1>4. IsStarted(c) => IsStarted(c)'
  BY <1>2, <1>3 DEF IsStarted
<1>5. NotDue(c) => NotDue(c)'
  BY DEF NotDue
<1>6. Starting(c) => Starting(c)'
  BY <1>2 DEF Starting
<1>7. Sending(c) => Sending(c)'
  BY <1>2, <1>4 DEF Sending
<1>8. Waiting(c) => Waiting(c)'
  BY <1>2, <1>4 DEF Waiting
<1>9. Finished(c) => Finished(c)'
  BY <1>2, <1>3, <1>4 DEF Finished
<1> QED  BY <1>5, <1>6, <1>7, <1>8, <1>9

\* What an event of a client does to the event queue.
LEMMA ClientEvent ==
  ASSUME Typed, Phases, NEW c \in Ping, NEW kind \in ClientKinds, Due(kind, c),
         NEW new \in SUBSET (Nat \X ClientKinds \X {c}),
         \A ev \in new : ev[1] >= now,
         Run(kind, c, new)
  PROVE  /\ Events(c) = {<<now, kind, c>>}
         /\ Events(c)' = new
         /\ \A d \in Ping \ {c} : Events(d)' = Events(d)
         /\ queue' \subseteq Nat \X Kinds \X Ping
         /\ \A ev \in queue' : ev[1] >= now
         /\ \A ev : ev[2] = "StartNextUdpPing" => (ev \in queue' <=> ev \in queue)
PROOF
<1> DEFINE e == <<now, kind, c>>
<1>1. /\ queue' = (queue \ {e}) \cup new
      /\ e \in queue
      /\ e[2] = kind /\ e[3] = c /\ kind # "StartNextUdpPing"
  BY DEF Run, Due, ClientKinds
<1>2. e \in Events(c)
  BY <1>1 DEF Events
<1> HIDE DEF e
<1>3. Events(c) = {e}
  BY <1>2 DEF Phases, NotDue, Starting, Sending, Waiting, Finished
<1>4. \A ev \in new : ev[3] = c /\ ev[2] \in ClientKinds
  OBVIOUS
<1>5. Events(c)' = new
  BY <1>1, <1>3, <1>4 DEF Events
<1>6. \A d \in Ping \ {c} : Events(d)' = Events(d)
  BY <1>1, <1>4 DEF Events
<1>7. new \subseteq Nat \X Kinds \X Ping
  BY DEF Kinds
<1>8. queue' \subseteq Nat \X Kinds \X Ping
  BY <1>1, <1>7 DEF Typed
<1>9. \A ev \in queue' : ev[1] >= now
  BY <1>1 DEF Typed
<1>10. \A ev : ev[2] = "StartNextUdpPing" => (ev \in queue' <=> ev \in queue)
  BY <1>1, <1>4 DEF ClientKinds
<1> QED  BY <1>3, <1>5, <1>6, <1>8, <1>9, <1>10 DEF e

LEMMA ChainKept ==
  ASSUME Typed, Chain, UNCHANGED <<schedule, m_apps>>,
         \A ev : ev[2] = "StartNextUdpPing" => (ev \in queue' <=> ev \in queue)
  PROVE  Chain'
PROOF
<1>1. Len(m_apps) < Len(schedule) =>
        <<Start(Len(m_apps) + 1), "StartNextUdpPing", Len(m_apps) + 1>> \in queue'
  BY DEF Chain
<1>2. \A ev \in queue' : ev[2] = "StartNextUdpPing" =>
        ev[3] = Len(m_apps) + 1 /\ ev[3] \in Ping /\ ev[1] = Start(ev[3])
  BY DEF Chain
<1> QED  BY <1>1, <1>2 DEF Chain, Start, Ping

\* Packets only get less, and nothing they refer to changes.
LEMMA PacketsKept ==
  ASSUME Typed, Packets, UNCHANGED <<schedule, stamps>>, wire' \subseteq wire,
         answered \subseteq answered', now' \in 0 .. EndTime, now <= now'
  PROVE  Packets'
PROOF
<1>1. UNCHANGED <<m_sendRequestTimestamps, m_replyTimestamps,
                  m_receiveReplyTimestamps>> /\ Ping' = Ping
  BY DEF stamps, Ping
<1>2. PacketType' = PacketType
  BY <1>1 DEF PacketType
<1>3. ASSUME NEW p \in wire'
      PROVE  p.ts <= now'
  <2>1. p \in PacketType /\ p.ts <= now
    BY DEF Packets
  <2>2. p.ts \in 0 .. EndTime
    BY <2>1 DEF PacketType
  <2> QED  BY <2>1, <2>2, EndAssumption DEF Typed
<1> QED  BY <1>1, <1>2, <1>3 DEF Packets, SentBy

LEMMA SentKept ==
  ASSUME Sent, UNCHANGED <<schedule, m_sendRequestTimestamps>>
  PROVE  Sent'
PROOF
  BY DEF Sent, SentBy, SendTime, IsWanted, Start, Ping

LEMMA RepliesKept ==
  ASSUME RepliesAreOwn, UNCHANGED <<schedule, stamps>>, answered \subseteq answered',
         \A c \in Ping : SentBy(c) = 0 \/ m_startTime'[c] = m_startTime[c]
  PROVE  RepliesAreOwn'
PROOF
<1>1. UNCHANGED <<m_sendRequestTimestamps, m_replyTimestamps,
                  m_receiveReplyTimestamps>> /\ Ping' = Ping
  BY DEF stamps, Ping
<1>2. ASSUME NEW c \in Ping, NEW m \in 1 .. SentBy(c)
      PROVE  SendingUntil(c)' = SendingUntil(c)
  BY <1>2 DEF SendingUntil
<1> QED  BY <1>1, <1>2 DEF RepliesAreOwn, SentBy

LEMMA ResultsKept ==
  ASSUME Running, ResultsAreRows, Typed, UNCHANGED results
  PROVE  ResultsAreRows'
PROOF
<1>1. results = NotWritten
  BY EndAssumption DEF ResultsAreRows, Running, Typed
<1> QED  BY <1>1 DEF ResultsAreRows

----------------------------------------------------------------------------
LEMMA StepTick ==
  ASSUME PingIInv, Tick
  PROVE  PingIInv'
PROOF
<1>p. Typed /\ Phases /\ Chain /\ Packets /\ Sent /\ RepliesAreOwn /\ ResultsAreRows
  BY DEF PingIInv
<1>1. /\ Running /\ now' = now + 1 /\ \A ev \in queue : ev[1] # now
      /\ UNCHANGED <<schedule, queue, m_apps, port, m_startTime, stamps,
                     m_sendRequestTimestamps, m_replyTimestamps,
                     m_receiveReplyTimestamps, wire, answered, results, crashed>>
  BY DEF Tick, clients, stamps
<1>2. now \in Int /\ now' \in 0 .. EndTime /\ now <= now'
  BY <1>1, <1>p, EndAssumption DEF Typed, Running
<1>3. \A ev \in queue : ev[1] >= now'
  BY <1>1, <1>2, <1>p DEF Typed
<1>4. Typed'
  BY <1>1, <1>2, <1>3, <1>p DEF Typed, Ping, SentBy
<1>5. Phases'
  <2> SUFFICES ASSUME NEW c \in Ping
               PROVE  (NotDue(c) \/ Starting(c) \/ Sending(c) \/ Waiting(c) \/ Finished(c))'
    BY <1>1 DEF Phases, Ping
  <2>1. NotDue(c) \/ Starting(c) \/ Sending(c) \/ Waiting(c) \/ Finished(c)
    BY <1>p DEF Phases
  <2>2. SentBy(c)' = SentBy(c) /\ Events(c)' = Events(c)
    BY <1>1 DEF SentBy, Events
  <2> QED  BY <2>1, <2>2, <1>1, <1>2, <1>p, PhaseKept
<1>6. Chain'
  BY <1>1, <1>p, ChainKept
<1>7. Packets'
  BY <1>1, <1>2, <1>p, PacketsKept
<1>8. Sent' /\ RepliesAreOwn' /\ ResultsAreRows'
  BY <1>1, <1>p, SentKept, RepliesKept, ResultsKept
<1> QED  BY <1>4, <1>5, <1>6, <1>7, <1>8 DEF PingIInv

\* The network loses a packet.
LEMMA StepLose ==
  ASSUME PingIInv, NEW p \in wire, Lose(p)
  PROVE  PingIInv'
PROOF
<1>p. Typed /\ Phases /\ Chain /\ Packets /\ Sent /\ RepliesAreOwn /\ ResultsAreRows
  BY DEF PingIInv
<1>1. /\ Running /\ wire' \subseteq wire
      /\ UNCHANGED <<schedule, now, queue, m_apps, port, m_startTime, stamps,
                     m_sendRequestTimestamps, m_replyTimestamps,
                     m_receiveReplyTimestamps, answered, results, crashed>>
  BY DEF Lose, clients, stamps
<1>2. Typed' /\ Phases'
  BY <1>1, <1>p DEF Typed, Ping, SentBy, Phases, NotDue, Starting, Sending,
                    Waiting, Finished, IsStarted, IsWanted, SendTime, Start, End,
                    Events
<1>3. now \in 0 .. EndTime /\ now <= now
  BY <1>p, EndAssumption DEF Typed
<1>4. Chain' /\ Packets'
  BY <1>1, <1>3, <1>p, ChainKept, PacketsKept
<1>5. Sent' /\ RepliesAreOwn' /\ ResultsAreRows'
  BY <1>1, <1>p, SentKept, RepliesKept, ResultsKept
<1> QED  BY <1>2, <1>4, <1>5 DEF PingIInv

LEMMA StepStartNext ==
  ASSUME PingIInv, NEW c \in Ping, StartNextUdpPing(c)
  PROVE  PingIInv'
PROOF
<1> DEFINE e == <<now, "StartNextUdpPing", c>>
           a == <<now, "StartApplication", c>>
           n == Len(m_apps)
<1>p. Typed /\ Phases /\ Chain /\ Packets /\ Sent /\ RepliesAreOwn /\ ResultsAreRows
  BY DEF PingIInv
<1>0. /\ Len(schedule) \in Nat /\ Ping = 1 .. Len(schedule) /\ n \in Nat
      /\ now \in Nat /\ Start(c) \in Nat /\ c \in Int
      /\ (c + 1 \in Ping => Start(c + 1) \in Nat /\ Start(c) <= Start(c + 1))
  <2>1. Len(schedule) \in Nat /\ Ping = 1 .. Len(schedule)
    BY <1>p, ScheduleFacts DEF Typed
  <2>2. n \in Nat /\ now \in Nat
    BY <1>p, LenProperties, EndAssumption DEF Typed
  <2>3. ASSUME c + 1 \in Ping
        PROVE  Start(c + 1) \in Nat /\ Start(c) <= Start(c + 1)
    <3>1. c + 1 > 1 /\ (c + 1) - 1 = c
      BY <2>1
    <3> QED  BY <3>1, <2>3, <1>p, ScheduleFacts DEF Typed
  <2> QED  BY <2>1, <2>2, <2>3, <1>p, ScheduleFacts DEF Typed
<1>1. Running /\ e \in queue
  BY DEF StartNextUdpPing, Due
<1>2. c = n + 1 /\ now = Start(c)
  <2>1. e[2] = "StartNextUdpPing" /\ e[3] = c /\ e[1] = now
    OBVIOUS
  <2> HIDE DEF e
  <2> QED  BY <2>1, <1>1, <1>p DEF Chain
<1>3. /\ queue' = (queue \ {e}) \cup ({a} \cup NextStart(c))
      /\ m_apps' = Append(m_apps, c)
      /\ UNCHANGED <<schedule, now, port, m_startTime, stamps,
                     m_sendRequestTimestamps, m_replyTimestamps,
                     m_receiveReplyTimestamps, wire, answered, results, crashed>>
  BY <1>2 DEF StartNextUdpPing, Run, Start, clients, stamps
<1>4. /\ m_apps' \in Seq(Ping) /\ Len(m_apps') = n + 1
      /\ \A i \in 1 .. n : m_apps'[i] = m_apps[i]
      /\ m_apps'[n + 1] = c
  BY <1>3, <1>p, AppendProperties DEF Typed
<1>5. NextStart(c) = IF c = Len(schedule) THEN {}
                     ELSE {<<Start(c + 1), "StartNextUdpPing", c + 1>>}
  <2>1. CASE c = Len(schedule)
    BY <2>1 DEF NextStart
  <2>2. CASE c # Len(schedule)
    <3>1. c + 1 \in Ping
      BY <2>2, <1>0
    <3>2. now + (Start(c + 1) - now) = Start(c + 1)
      BY <3>1, <1>0
    <3> QED  BY <2>2, <3>2 DEF NextStart, Start
  <2> QED  BY <2>1, <2>2
<1>6. ASSUME NEW ev \in NextStart(c)
      PROVE  /\ c + 1 \in Ping /\ ev[1] = Start(c + 1) /\ ev[3] = c + 1
             /\ ev[2] = "StartNextUdpPing" /\ ev \in Nat \X Kinds \X Ping
             /\ ev[1] >= now
  <2>1. c # Len(schedule) /\ ev = <<Start(c + 1), "StartNextUdpPing", c + 1>>
    BY <1>5, <1>6
  <2>2. c + 1 \in Ping
    BY <2>1, <1>0
  <2> QED  BY <2>1, <2>2, <1>0, <1>2 DEF Kinds
<1>7. ASSUME NEW ev \in queue, ev[2] = "StartNextUdpPing" PROVE ev = e
  <2>1. ev[3] = n + 1 /\ ev[1] = Start(ev[3])
    BY <1>7, <1>p DEF Chain
  <2>2. ev = <<ev[1], ev[2], ev[3]>>
    BY <1>p DEF Typed
  <2> QED  BY <2>1, <2>2, <1>2, <1>7
<1>8. /\ a[1] = now /\ a[2] = "StartApplication" /\ a[3] = c
      /\ e[2] = "StartNextUdpPing"
      /\ a \in Nat \X Kinds \X Ping
  BY <1>0 DEF Kinds, ClientKinds
<1>9. Typed'
  <2>1. queue' \subseteq Nat \X Kinds \X Ping
    BY <1>3, <1>6, <1>8, <1>p DEF Typed
  <2>2. \A ev \in queue' : ev[1] >= now
    <3> HIDE DEF a, e
    <3> QED  BY <1>0, <1>3, <1>6, <1>8, <1>p DEF Typed
  <2> HIDE DEF a, e, n
  <2> QED  BY <2>1, <2>2, <1>3, <1>4, <1>p DEF Typed, Ping, SentBy
<1> HIDE DEF a, e
<1>10. /\ Events(c)' = Events(c) \cup {a}
       /\ \A d \in Ping \ {c} : Events(d)' = Events(d)
  BY <1>3, <1>6, <1>8 DEF Events, ClientKinds
<1>11. Phases'
  <2> SUFFICES ASSUME NEW d \in Ping
               PROVE  (NotDue(d) \/ Starting(d) \/ Sending(d) \/ Waiting(d) \/ Finished(d))'
    BY <1>3 DEF Phases, Ping
  <2>1. NotDue(d) \/ Starting(d) \/ Sending(d) \/ Waiting(d) \/ Finished(d)
    BY <1>p DEF Phases
  <2>2. SentBy(d)' = SentBy(d)
    BY <1>3 DEF SentBy
  <2>3. CASE d = c
    <3>1. NotDue(c)
      <4>1. ~(c <= n)
        BY <1>0, <1>2
      <4> QED  BY <4>1, <2>1, <2>3 DEF Starting, Sending, Waiting, Finished, IsStarted
    <3>2. Events(c)' = {<<Start(c), "StartApplication", c>>}
      BY <3>1, <1>2, <1>10 DEF NotDue, a
    <3>3. c <= Len(m_apps')
      BY <1>2, <1>4, <1>0
    <3> QED  BY <3>1, <3>2, <3>3, <2>2, <2>3, <1>3 DEF NotDue, Starting, Start
  <2>4. CASE d # c
    <3>1. Events(d)' = Events(d)
      BY <2>4, <1>10
    <3>2. (d <= Len(m_apps') <=> d <= n) /\ (d > Len(m_apps') <=> d > n)
      BY <2>4, <1>0, <1>2, <1>4
    <3>3. now' \in Int /\ now <= now'
      BY <1>3, <1>0
    <3> HIDE DEF n
    <3> QED  BY <3>1, <3>2, <3>3, <2>1, <2>2, <1>3, <1>p, PhaseKept DEF n
  <2> QED  BY <2>3, <2>4
<1>12. Chain'
  <2>1. Len(m_apps') <= Len(schedule)
    BY <1>0, <1>2, <1>4
  <2>2. \A i \in 1 .. Len(m_apps') : m_apps'[i] = i
    <3> TAKE i \in 1 .. Len(m_apps')
    <3>1. CASE i = n + 1
      BY <3>1, <1>2, <1>4
    <3>2. CASE i # n + 1
      <4>1. i \in 1 .. n
        BY <3>2, <1>0, <1>4
      <4> QED  BY <4>1, <1>4, <1>p DEF Chain
    <3> QED  BY <3>1, <3>2
  <2>3. \A ev \in queue' : ev[2] = "StartNextUdpPing" =>
          ev[3] = Len(m_apps') + 1 /\ ev[3] \in Ping /\ ev[1] = Start(ev[3])
    <3> TAKE ev \in queue'
    <3> SUFFICES ASSUME ev[2] = "StartNextUdpPing"
                 PROVE  ev[3] = Len(m_apps') + 1 /\ ev[3] \in Ping /\ ev[1] = Start(ev[3])
      OBVIOUS
    <3>1. ev \in NextStart(c)
      BY <1>3, <1>7, <1>8
    <3> QED  BY <3>1, <1>6, <1>2, <1>4
  <2>4. Len(m_apps') < Len(schedule) =>
          <<Start(Len(m_apps') + 1), "StartNextUdpPing", Len(m_apps') + 1>> \in queue'
    <3> SUFFICES ASSUME Len(m_apps') < Len(schedule)
                 PROVE  <<Start(Len(m_apps') + 1), "StartNextUdpPing",
                          Len(m_apps') + 1>> \in queue'
      OBVIOUS
    <3>1. c # Len(schedule) /\ Len(m_apps') = c
      BY <1>0, <1>2, <1>4
    <3> QED  BY <3>1, <1>3, <1>5
  <2>5. schedule' = schedule
    BY <1>3
  <2> QED  BY <2>1, <2>2, <2>3, <2>4, <2>5 DEF Chain, Start, Ping
<1>13. now' \in 0 .. EndTime /\ now <= now'
  BY <1>3, <1>0, <1>p DEF Typed
<1>14. Packets'
  BY <1>3, <1>13, <1>p, PacketsKept
<1>15. Sent' /\ RepliesAreOwn' /\ ResultsAreRows'
  BY <1>1, <1>3, <1>p, SentKept, RepliesKept, ResultsKept
<1> QED  BY <1>9, <1>11, <1>12, <1>14, <1>15 DEF PingIInv

LEMMA StepStartApplication ==
  ASSUME PingIInv, NEW c \in Ping, StartApplication(c)
  PROVE  PingIInv'
PROOF
<1>p. Typed /\ Phases /\ Chain /\ Packets /\ Sent /\ RepliesAreOwn /\ ResultsAreRows
  BY DEF PingIInv
<1>1. /\ Running /\ Due("StartApplication", c)
      /\ UNCHANGED <<schedule, now, m_apps, stamps,
                     m_sendRequestTimestamps, m_replyTimestamps,
                     m_receiveReplyTimestamps, wire, answered, results>>
  BY DEF StartApplication, Due, stamps
<1>2. now \in 0 .. EndTime /\ now <= now' /\ now \in Nat /\ now' \in Int
  BY <1>1, <1>p, EndAssumption DEF Typed
<1>3. Packets' /\ Sent' /\ ResultsAreRows'
  BY <1>1, <1>2, <1>p, PacketsKept, SentKept, ResultsKept
<1>4. CASE UNCHANGED <<port, m_startTime, queue>> /\ crashed' = "bind"
  <2>1. Typed' /\ Phases'
    BY <1>1, <1>4, <1>p DEF Typed, Ping, SentBy, Phases, NotDue, Starting, Sending,
                      Waiting, Finished, IsStarted, IsWanted, SendTime, Start, End,
                      Events
  <2>2. Chain' /\ RepliesAreOwn'
    BY <1>1, <1>4, <1>p, ChainKept, RepliesKept
  <2> QED  BY <2>1, <2>2, <1>3 DEF PingIInv
<1>5. ASSUME NEW free \in FreePorts(c), port' = [port EXCEPT ![c] = free],
             m_startTime' = [m_startTime EXCEPT ![c] = now],
             Run("StartApplication", c, {<<now, "Send", c>>}),
             UNCHANGED crashed
      PROVE  PingIInv'
  <2> DEFINE s == <<now, "Send", c>>
  <2>1. /\ {s} \in SUBSET (Nat \X ClientKinds \X {c})
        /\ \A ev \in {s} : ev[1] >= now
        /\ "StartApplication" \in ClientKinds
    BY <1>2 DEF ClientKinds
  <2> HIDE DEF s
  <2>2. /\ Events(c) = {<<now, "StartApplication", c>>}
        /\ Events(c)' = {s}
        /\ \A d \in Ping \ {c} : Events(d)' = Events(d)
        /\ queue' \subseteq Nat \X Kinds \X Ping
        /\ \A ev \in queue' : ev[1] >= now
        /\ \A ev : ev[2] = "StartNextUdpPing" => (ev \in queue' <=> ev \in queue)
    BY <2>1, <1>1, <1>5, <1>p, ClientEvent DEF s
  <2>3. Starting(c)
    <3>1. <<now, "StartApplication", c>> \in Events(c)
      BY <2>2
    <3>2. \A t : <<t, "StartApplication", c>>[2] = "StartApplication"
      OBVIOUS
    <3>3. \A t : <<t, "Send", c>>[2] = "Send" /\ <<t, "Finish", c>>[2] = "Finish"
      OBVIOUS
    <3>4. ~(Sending(c) \/ Waiting(c) \/ Finished(c) \/ NotDue(c))
      BY <3>1, <3>2, <3>3 DEF Sending, Waiting, Finished, NotDue
    <3> QED  BY <3>4, <1>p DEF Phases
  <2>4. now = Start(c) /\ SentBy(c) = 0 /\ c <= Len(m_apps)
    <3>1. {<<now, "StartApplication", c>>} = {<<Start(c), "StartApplication", c>>}
      BY <2>2, <2>3 DEF Starting
    <3>2. <<now, "StartApplication", c>> = <<Start(c), "StartApplication", c>>
      BY <3>1
    <3> QED  BY <3>2, <2>3 DEF Starting
  <2>5. free \in Ports /\ free # Closed
    BY <1>5, PortsAssumption DEF FreePorts
  <2>6. Typed'
    <3>1. port' \in [Ping -> Ports \cup {Closed}]
      BY <2>5, <1>5, <1>p DEF Typed
    <3>2. m_startTime' \in [Ping -> Stamp]
      <4>1. now \in Stamp
        BY <1>2, EndAssumption DEF Stamp
      <4> QED  BY <4>1, <1>5, <1>p DEF Typed
    <3> QED  BY <3>1, <3>2, <2>2, <1>1, <1>5, <1>p DEF Typed, Ping, SentBy
  <2>7. Phases'
    <3> SUFFICES ASSUME NEW d \in Ping
                 PROVE  (NotDue(d) \/ Starting(d) \/ Sending(d) \/ Waiting(d) \/ Finished(d))'
      BY <1>1 DEF Phases, Ping
    <3>1. SentBy(d)' = SentBy(d)
      BY <1>1 DEF SentBy
    <3>2. CASE d = c
      <4>1. m_startTime'[c] = Start(c) /\ port'[c] # Closed
        BY <2>4, <2>5, <1>5, <1>p DEF Typed
      <4>2. IsStarted(c)'
        BY <4>1, <2>4, <1>1, <1>2 DEF IsStarted, Start
      <4>3. SendTime(c, 1) = Start(c) /\ SentBy(c) + 1 = 1
        BY <2>4, <1>p, TimesTyped
      <4>4. IsWanted(c, SentBy(c) + 1)'
        BY <4>3, <3>1, <3>2 DEF IsWanted
      <4>5. Events(c)' = {<<SendTime(c, SentBy(c) + 1)', "Send", c>>}
        <5>1. SendTime(c, SentBy(c) + 1)' = SendTime(c, SentBy(c) + 1)
          BY <3>1, <3>2, <1>1 DEF SendTime, Start
        <5> QED  BY <5>1, <4>3, <2>2, <2>4 DEF s
      <4> QED  BY <3>2, <4>1, <4>2, <4>4, <4>5 DEF Sending
    <3>3. CASE d # c
      <4>1. Events(d)' = Events(d) /\ port'[d] = port[d]
            /\ m_startTime'[d] = m_startTime[d]
        BY <3>3, <2>2, <1>5, <1>p DEF Typed
      <4>2. NotDue(d) \/ Starting(d) \/ Sending(d) \/ Waiting(d) \/ Finished(d)
        BY <1>p DEF Phases
      <4> QED  BY <4>1, <4>2, <3>1, <1>1, <1>2, <1>p, PhaseKept
    <3> QED  BY <3>2, <3>3
  <2>8. Chain'
    BY <2>2, <1>1, <1>p, ChainKept
  <2>9. RepliesAreOwn'
    <3>1. \A d \in Ping : SentBy(d) = 0 \/ m_startTime'[d] = m_startTime[d]
      BY <2>4, <1>5, <1>p DEF Typed
    <3> QED  BY <3>1, <1>1, <1>p, RepliesKept
  <2> QED  BY <2>6, <2>7, <2>8, <2>9, <1>3 DEF PingIInv
<1> QED  BY <1>4, <1>5 DEF StartApplication

LEMMA StepSend ==
  ASSUME PingIInv, NEW c \in Ping, Send(c)
  PROVE  PingIInv'
PROOF
<1> DEFINE n == SentBy(c)
           r == Request(c)
           send == m_sendRequestTimestamps[c]
           reply == m_replyTimestamps[c]
           receive == m_receiveReplyTimestamps[c]
<1>p. Typed /\ Phases /\ Chain /\ Packets /\ Sent /\ RepliesAreOwn /\ ResultsAreRows
  BY DEF PingIInv
<1>1. /\ Running /\ Due("Send", c)
      /\ wire' = wire \cup {r}
      /\ m_sendRequestTimestamps' = [m_sendRequestTimestamps EXCEPT ![c] = Append(send, now)]
      /\ m_replyTimestamps' = [m_replyTimestamps EXCEPT ![c] = Append(reply, -1)]
      /\ m_receiveReplyTimestamps' = [m_receiveReplyTimestamps EXCEPT ![c] = Append(receive, -1)]
      /\ Run("Send", c, {AfterSend(c)})
      /\ UNCHANGED <<schedule, now, m_apps, port, m_startTime, answered, results, crashed>>
  BY DEF Send, Due
<1>2. now \in 0 .. EndTime /\ now <= now' /\ now \in Nat /\ now' \in Int
      /\ now \in Stamp /\ -1 \in Stamp
  BY <1>1, <1>p, EndAssumption DEF Typed, Stamp
<1>3. /\ n \in Nat /\ send \in Seq(Stamp) /\ reply \in Seq(Stamp)
      /\ receive \in Seq(Stamp)
      /\ Len(send) = n /\ Len(reply) = n /\ Len(receive) = n
  BY <1>p, SentTyped DEF SentBy
<1>4. /\ Ping' = Ping
      /\ \A d \in Ping : Start(d)' = Start(d) /\ End(d)' = End(d)
  BY <1>1 DEF Ping, Start, End
\* The phase of the client, before and after.
<1>5. Sending(c) /\ now = SendTime(c, n + 1)
  <2>1. <<now, "Send", c>> \in Events(c)
    BY <1>1 DEF Due, Events, ClientKinds
  <2>2. \A t : <<t, "StartApplication", c>>[2] = "StartApplication"
               /\ <<t, "Finish", c>>[2] = "Finish" /\ <<t, "Send", c>>[2] = "Send"
               /\ <<t, "Send", c>>[1] = t
    OBVIOUS
  <2>3. ~(Starting(c) \/ Waiting(c) \/ Finished(c) \/ NotDue(c))
    BY <2>1, <2>2 DEF Starting, Waiting, Finished, NotDue
  <2>4. Sending(c)
    BY <2>3, <1>p DEF Phases
  <2>5. <<now, "Send", c>> = <<SendTime(c, SentBy(c) + 1), "Send", c>>
    BY <2>1, <2>4 DEF Sending
  <2> QED  BY <2>2, <2>4, <2>5
<1>6. /\ SendTime(c, n + 2) = now + schedule[c].interval
      /\ SendTime(c, n + 2) \in Nat /\ End(c) \in Nat
      /\ now <= Start(c) + schedule[c].duration
      /\ Start(c) \in Nat /\ schedule[c].duration \in Nat /\ schedule[c].wait \in Nat
      /\ schedule[c].interval \in Nat
      /\ m_startTime[c] = Start(c)
  <2>1. /\ n + 1 \in Nat \ {0} /\ n + 2 \in Nat \ {0} /\ (n + 1) + 1 = n + 2
    BY <1>3
  <2>2. IsWanted(c, n + 1) /\ m_startTime[c] = Start(c)
    BY <1>5 DEF Sending, IsStarted
  <2> HIDE DEF n
  <2>3. /\ SendTime(c, (n + 1) + 1) = SendTime(c, n + 1) + schedule[c].interval
        /\ SendTime(c, n + 1) <= Start(c) + schedule[c].duration
    BY <2>1, <2>2, <1>p, TimesTyped
  <2>4. SendTime(c, n + 2) \in Nat /\ End(c) \in Nat
    BY <2>1, <1>p, TimesTyped
  <2> QED  BY <2>1, <2>2, <2>3, <2>4, <1>5, <1>p, ScheduleFacts DEF n, Typed
<1>7. /\ IsWanted(c, n + 2) => AfterSend(c) = <<SendTime(c, n + 2), "Send", c>>
      /\ ~IsWanted(c, n + 2) => AfterSend(c) = <<End(c), "Finish", c>>
  <2>1. IsWanted(c, n + 2) <=> now + schedule[c].interval < SendingUntil(c)
    <3>1. n + 2 # 1
      BY <1>3
    <3> QED  BY <3>1, <1>6 DEF IsWanted, SendingUntil
  <2>2. now + (SendingUntil(c) - now + schedule[c].wait) = End(c)
    BY <1>2, <1>6 DEF SendingUntil, End
  <2> QED  BY <2>1, <2>2, <1>6 DEF AfterSend
<1>8. /\ {AfterSend(c)} \in SUBSET (Nat \X ClientKinds \X {c})
      /\ \A ev \in {AfterSend(c)} : ev[1] >= now
      /\ "Send" \in ClientKinds
  <2>1. End(c) >= now /\ SendTime(c, n + 2) >= now
    BY <1>2, <1>6 DEF End
  <2> QED  BY <2>1, <1>6, <1>7 DEF ClientKinds
<1>9. /\ Events(c)' = {AfterSend(c)}
      /\ \A d \in Ping \ {c} : Events(d)' = Events(d)
      /\ queue' \subseteq Nat \X Kinds \X Ping
      /\ \A ev \in queue' : ev[1] >= now
      /\ \A ev : ev[2] = "StartNextUdpPing" => (ev \in queue' <=> ev \in queue)
  BY <1>1, <1>8, <1>p, ClientEvent
\* The timestamps.
<1> HIDE DEF n, send, reply, receive
<1>10. /\ m_sendRequestTimestamps'[c] = Append(send, now)
       /\ m_replyTimestamps'[c] = Append(reply, -1)
       /\ m_receiveReplyTimestamps'[c] = Append(receive, -1)
       /\ \A d \in Ping \ {c} :
            /\ m_sendRequestTimestamps'[d] = m_sendRequestTimestamps[d]
            /\ m_replyTimestamps'[d] = m_replyTimestamps[d]
            /\ m_receiveReplyTimestamps'[d] = m_receiveReplyTimestamps[d]
            /\ SentBy(d)' = SentBy(d)
  BY <1>1, <1>p DEF Typed, SentBy
<1>11. /\ Append(send, now) \in Seq(Stamp) /\ Append(reply, -1) \in Seq(Stamp)
       /\ Append(receive, -1) \in Seq(Stamp)
       /\ SentBy(c)' = n + 1 /\ Len(Append(reply, -1)) = n + 1
       /\ Len(Append(receive, -1)) = n + 1
       /\ \A m \in 1 .. n : /\ m_sendRequestTimestamps'[c][m] = m_sendRequestTimestamps[c][m]
                            /\ m_replyTimestamps'[c][m] = m_replyTimestamps[c][m]
                            /\ m_receiveReplyTimestamps'[c][m] = m_receiveReplyTimestamps[c][m]
       /\ m_sendRequestTimestamps'[c][n + 1] = now
       /\ m_replyTimestamps'[c][n + 1] = -1
       /\ m_receiveReplyTimestamps'[c][n + 1] = -1
  <2>1. /\ Append(send, now) \in Seq(Stamp) /\ Len(Append(send, now)) = n + 1
        /\ \A m \in 1 .. n : Append(send, now)[m] = send[m]
        /\ Append(send, now)[n + 1] = now
    BY <1>2, <1>3, AppendProperties
  <2>2. /\ Append(reply, -1) \in Seq(Stamp) /\ Len(Append(reply, -1)) = n + 1
        /\ \A m \in 1 .. n : Append(reply, -1)[m] = reply[m]
        /\ Append(reply, -1)[n + 1] = -1
    BY <1>2, <1>3, AppendProperties
  <2>3. /\ Append(receive, -1) \in Seq(Stamp) /\ Len(Append(receive, -1)) = n + 1
        /\ \A m \in 1 .. n : Append(receive, -1)[m] = receive[m]
        /\ Append(receive, -1)[n + 1] = -1
    BY <1>2, <1>3, AppendProperties
  <2>4. SentBy(c)' = Len(Append(send, now))
    BY <1>10 DEF SentBy
  <2>5. /\ send = m_sendRequestTimestamps[c] /\ reply = m_replyTimestamps[c]
        /\ receive = m_receiveReplyTimestamps[c]
    BY DEF send, reply, receive
  <2> QED  BY <2>1, <2>2, <2>3, <2>4, <2>5, <1>10
<1>12. Typed'
  <2>1. /\ m_sendRequestTimestamps' \in [Ping -> Seq(Stamp)]
        /\ m_replyTimestamps' \in [Ping -> Seq(Stamp)]
        /\ m_receiveReplyTimestamps' \in [Ping -> Seq(Stamp)]
    BY <1>1, <1>11, <1>p DEF Typed
  <2>2. ASSUME NEW d \in Ping
        PROVE  /\ Len(m_replyTimestamps'[d]) = SentBy(d)'
               /\ Len(m_receiveReplyTimestamps'[d]) = SentBy(d)'
    BY <2>2, <1>10, <1>11, <1>p DEF Typed
  <2> QED  BY <2>1, <2>2, <1>1, <1>4, <1>9, <1>p DEF Typed
<1>13. Phases'
  <2> SUFFICES ASSUME NEW d \in Ping
               PROVE  (NotDue(d) \/ Starting(d) \/ Sending(d) \/ Waiting(d) \/ Finished(d))'
    BY <1>4 DEF Phases
  <2>1. CASE d = c
    <3>1. IsStarted(c)' /\ port'[c] # Closed
      BY <1>1, <1>4, <1>5 DEF Sending, IsStarted
    <3>2. SentBy(c)' + 1 = n + 2 /\ SentBy(c)' > 0
      BY <1>3, <1>11
    <3>3. /\ IsWanted(c, SentBy(c) + 1)' <=> IsWanted(c, n + 2)
          /\ SendTime(c, SentBy(c) + 1)' = SendTime(c, n + 2)
      BY <3>2, <1>1, <1>4 DEF IsWanted, SendTime
    <3>4. CASE IsWanted(c, n + 2)
      BY <3>1, <3>3, <3>4, <2>1, <1>7, <1>9 DEF Sending
    <3>5. CASE ~IsWanted(c, n + 2)
      BY <3>1, <3>2, <3>3, <3>5, <2>1, <1>4, <1>7, <1>9 DEF Waiting
    <3> QED  BY <3>4, <3>5
  <2>2. CASE d # c
    <3>1. NotDue(d) \/ Starting(d) \/ Sending(d) \/ Waiting(d) \/ Finished(d)
      BY <1>p DEF Phases
    <3>2. Events(d)' = Events(d) /\ SentBy(d)' = SentBy(d)
      BY <2>2, <1>9, <1>10
    <3> QED  BY <3>1, <3>2, <1>1, <1>2, <1>p, PhaseKept
  <2> QED  BY <2>1, <2>2
<1>14. Chain'
  BY <1>1, <1>9, <1>p, ChainKept
<1>15. Packets'
  <2>1. port[c] \in Ports
    BY <1>5, <1>p DEF Sending, Typed
  <2>2. /\ r.kind = "request" /\ r.id = c /\ r.seq = n /\ r.ts = now
        /\ r \in PacketType
    BY <2>1, <1>2, <1>3 DEF Request, PacketType, n
  <2> HIDE DEF r
  <2>3. PacketType' = PacketType
    BY <1>1, <1>4 DEF PacketType
  <2>4. ASSUME NEW p \in wire
        PROVE  /\ p.id \in Ping /\ p.seq \in Nat /\ p.seq < SentBy(p.id)
               /\ p.seq + 1 \in 1 .. SentBy(p.id) /\ SentBy(p.id) <= SentBy(p.id)'
               /\ ~(p.id = r.id /\ p.seq = r.seq)
               /\ m_sendRequestTimestamps'[p.id][p.seq + 1]
                    = m_sendRequestTimestamps[p.id][p.seq + 1]
               /\ m_replyTimestamps'[p.id][p.seq + 1] = m_replyTimestamps[p.id][p.seq + 1]
               /\ m_receiveReplyTimestamps'[p.id][p.seq + 1]
                    = m_receiveReplyTimestamps[p.id][p.seq + 1]
    <3>1. p \in PacketType /\ p.seq < SentBy(p.id)
      BY <1>p DEF Packets
    <3>2. p.id \in Ping /\ p.seq \in Nat
      BY <3>1 DEF PacketType
    <3>3. SentBy(p.id) \in Nat
      BY <3>2, <1>p, SentTyped
    <3>4. p.seq + 1 \in 1 .. SentBy(p.id)
      BY <3>1, <3>2, <3>3
    <3>5. CASE p.id = c
      BY <3>1, <3>2, <3>3, <3>4, <3>5, <2>2, <1>11 DEF n
    <3>6. CASE p.id # c
      BY <3>1, <3>2, <3>3, <3>4, <3>6, <2>2, <1>10
    <3> QED  BY <3>5, <3>6
  <2>5. ASSUME NEW p \in wire'
        PROVE  /\ (p.seq < SentBy(p.id))'
               /\ m_sendRequestTimestamps'[p.id][p.seq + 1] <= p.ts
               /\ p.ts <= now'
               /\ p.kind = "reply" => <<p.id, p.seq, p.ts>> \in answered'
               /\ m_replyTimestamps'[p.id][p.seq + 1] = -1
               /\ m_receiveReplyTimestamps'[p.id][p.seq + 1] = -1
    <3>1. CASE p \in wire
      <4>1. SentBy(p.id) \in Nat /\ SentBy(p.id)' \in Nat
        <5>1. p.id \in Ping' /\ p.id \in Ping
          BY <3>1, <2>4, <1>4
        <5>2. SentBy(p.id) \in Nat
          BY <5>1, <1>p, SentTyped
        <5> QED  BY <5>1, <5>2, <1>10, <1>11, <1>3
      <4>2. (p.seq < SentBy(p.id))'
        BY <4>1, <3>1, <2>4
      <4> QED  BY <4>2, <3>1, <2>4, <1>1, <1>p DEF Packets
    <3>2. CASE p = r
      BY <3>2, <2>2, <1>1, <1>2, <1>3, <1>11
    <3> QED  BY <3>1, <3>2, <1>1
  <2>6. \A p, q \in wire' : p.id = q.id /\ p.seq = q.seq => p = q
    BY <2>4, <1>1, <1>p DEF Packets
  <2>7. wire' \subseteq PacketType
    BY <2>2, <1>1, <1>p DEF Packets
  <2> QED  BY <2>3, <2>5, <2>6, <2>7 DEF Packets
<1>16. Sent'
  <2> SUFFICES ASSUME NEW d \in Ping, NEW m \in 1 .. SentBy(d)'
               PROVE  /\ m_sendRequestTimestamps'[d][m] = SendTime(d, m)'
                      /\ IsWanted(d, m)'
    BY <1>4 DEF Sent
  <2>1. SendTime(d, m)' = SendTime(d, m) /\ (IsWanted(d, m)' <=> IsWanted(d, m))
    BY <1>1, <1>4 DEF SendTime, IsWanted
  <2>2. CASE d = c /\ m = n + 1
    <3>1. IsWanted(c, n + 1)
      BY <1>5 DEF Sending, n
    <3> QED  BY <3>1, <2>1, <2>2, <1>5, <1>11
  <2>3. CASE ~(d = c /\ m = n + 1)
    <3>1. m \in 1 .. SentBy(d)
          /\ m_sendRequestTimestamps'[d][m] = m_sendRequestTimestamps[d][m]
      <4>1. CASE d = c
        <5>1. m \in 1 .. n
          BY <4>1, <2>3, <1>3, <1>11
        <5> QED  BY <5>1, <4>1, <1>11 DEF n
      <4>2. CASE d # c
        BY <4>2, <1>10
      <4> QED  BY <4>1, <4>2
    <3> QED  BY <3>1, <2>1, <1>p DEF Sent
  <2> QED  BY <2>2, <2>3
<1>17. RepliesAreOwn'
  <2> SUFFICES ASSUME NEW d \in Ping, NEW m \in 1 .. SentBy(d)'
               PROVE  /\ m_replyTimestamps'[d][m] = -1
                           <=> m_receiveReplyTimestamps'[d][m] = -1
                      /\ m_replyTimestamps'[d][m] # -1 =>
                           /\ <<d, m - 1, m_replyTimestamps'[d][m]>> \in answered'
                           /\ m_sendRequestTimestamps'[d][m] <= m_replyTimestamps'[d][m]
                           /\ m_replyTimestamps'[d][m] <= m_receiveReplyTimestamps'[d][m]
                           /\ m_receiveReplyTimestamps'[d][m]
                                <= SendingUntil(d)' + schedule'[d].wait
    BY <1>4 DEF RepliesAreOwn
  <2>1. SendingUntil(d)' = SendingUntil(d) /\ schedule' = schedule
    BY <1>1 DEF SendingUntil
  <2>2. CASE d = c /\ m = n + 1
    BY <2>2, <1>11
  <2>3. CASE ~(d = c /\ m = n + 1)
    <3>1. /\ m \in 1 .. SentBy(d)
          /\ m_sendRequestTimestamps'[d][m] = m_sendRequestTimestamps[d][m]
          /\ m_replyTimestamps'[d][m] = m_replyTimestamps[d][m]
          /\ m_receiveReplyTimestamps'[d][m] = m_receiveReplyTimestamps[d][m]
      <4>1. CASE d = c
        <5>1. m \in 1 .. n
          BY <4>1, <2>3, <1>3, <1>11
        <5> QED  BY <5>1, <4>1, <1>11 DEF n
      <4>2. CASE d # c
        BY <4>2, <1>10
      <4> QED  BY <4>1, <4>2
    <3> QED  BY <3>1, <2>1, <1>1, <1>p DEF RepliesAreOwn
  <2> QED  BY <2>2, <2>3
<1>18. ResultsAreRows'
  BY <1>1, <1>p, ResultsKept
<1> QED  BY <1>12, <1>13, <1>14, <1>15, <1>16, <1>17, <1>18 DEF PingIInv

LEMMA StepFinish ==
  ASSUME PingIInv, NEW c \in Ping, Finish(c)
  PROVE  PingIInv'
PROOF
<1> DEFINE e == <<now, "Finish", c>>
<1>p. Typed /\ Phases /\ Chain /\ Packets /\ Sent /\ RepliesAreOwn /\ ResultsAreRows
  BY DEF PingIInv
<1>1. /\ Running /\ Due("Finish", c) /\ Run("Finish", c, {})
      /\ UNCHANGED <<schedule, now, m_apps, m_startTime, stamps,
                     m_sendRequestTimestamps, m_replyTimestamps,
                     m_receiveReplyTimestamps, wire, answered, results>>
  BY DEF Finish, Due, stamps
<1>2. now \in 0 .. EndTime /\ now <= now' /\ now \in Nat /\ now' \in Int
  BY <1>1, <1>p, EndAssumption DEF Typed
<1>3. /\ Events(c) = {e}
      /\ Events(c)' = {}
      /\ \A d \in Ping \ {c} : Events(d)' = Events(d)
      /\ queue' \subseteq Nat \X Kinds \X Ping
      /\ \A ev \in queue' : ev[1] >= now
      /\ \A ev : ev[2] = "StartNextUdpPing" => (ev \in queue' <=> ev \in queue)
  <2>1. /\ {} \in SUBSET (Nat \X ClientKinds \X {c}) /\ \A ev \in {} : ev[1] >= now
        /\ "Finish" \in ClientKinds
    BY DEF ClientKinds
  <2> QED  BY <2>1, <1>1, <1>p, ClientEvent
<1>4. Waiting(c) /\ now = End(c)
  <2>1. e \in Events(c)
    BY <1>3
  <2>2. \A t : <<t, "StartApplication", c>>[2] = "StartApplication"
               /\ <<t, "Finish", c>>[2] = "Finish" /\ <<t, "Send", c>>[2] = "Send"
               /\ <<t, "Finish", c>>[1] = t
    OBVIOUS
  <2>3. ~(Starting(c) \/ Sending(c) \/ Finished(c) \/ NotDue(c))
    BY <2>1, <2>2 DEF Starting, Sending, Finished, NotDue
  <2>4. Waiting(c)
    BY <2>3, <1>p DEF Phases
  <2>5. e = <<End(c), "Finish", c>>
    BY <2>1, <2>4 DEF Waiting
  <2> QED  BY <2>2, <2>4, <2>5
<1>5. ~\E ev \in queue \ {e} : ev[2] \in {"Send", "Finish"} /\ ev[3] = c
  <2> HIDE DEF e
  <2> SUFFICES ASSUME NEW ev \in queue, ev[2] \in {"Send", "Finish"}, ev[3] = c
               PROVE  ev = e
    OBVIOUS
  <2>1. ev \in Events(c)
    BY DEF Events, ClientKinds
  <2> QED  BY <2>1, <1>3
<1>6. port' = [port EXCEPT ![c] = Closed] /\ crashed' = crashed
  BY <1>5 DEF Finish, CloseSocket
<1>7. Typed'
  <2>1. port' \in [Ping -> Ports \cup {Closed}]
    BY <1>6, <1>p DEF Typed
  <2> QED  BY <2>1, <1>1, <1>3, <1>6, <1>p DEF Typed, Ping, SentBy
<1>8. Phases'
  <2> SUFFICES ASSUME NEW d \in Ping
               PROVE  (NotDue(d) \/ Starting(d) \/ Sending(d) \/ Waiting(d) \/ Finished(d))'
    BY <1>1 DEF Phases, Ping
  <2>1. SentBy(d)' = SentBy(d)
    BY <1>1 DEF SentBy
  <2>2. CASE d = c
    <3>1. IsStarted(c)' /\ End(c)' = End(c)
          /\ (IsWanted(c, SentBy(c) + 1)' <=> IsWanted(c, SentBy(c) + 1))
      BY <2>1, <2>2, <1>1, <1>4 DEF Waiting, IsStarted, Start, End, IsWanted, SendTime
    <3>2. port'[c] = Closed
      BY <1>6, <1>p DEF Typed
    <3>3. End(c)' <= now'
      BY <3>1, <1>1, <1>2, <1>4
    <3> QED  BY <3>1, <3>2, <3>3, <2>1, <2>2, <1>3, <1>4 DEF Waiting, Finished
  <2>3. CASE d # c
    <3>1. NotDue(d) \/ Starting(d) \/ Sending(d) \/ Waiting(d) \/ Finished(d)
      BY <1>p DEF Phases
    <3>2. Events(d)' = Events(d) /\ port'[d] = port[d]
      BY <2>3, <1>3, <1>6, <1>p DEF Typed
    <3> QED  BY <3>1, <3>2, <2>1, <1>1, <1>2, <1>p, PhaseKept
  <2> QED  BY <2>2, <2>3
<1>9. Chain' /\ Packets'
  BY <1>1, <1>2, <1>3, <1>p, ChainKept, PacketsKept
<1>10. Sent' /\ RepliesAreOwn' /\ ResultsAreRows'
  BY <1>1, <1>p, SentKept, RepliesKept, ResultsKept
<1> QED  BY <1>7, <1>8, <1>9, <1>10 DEF PingIInv

\* The server answers: the reply takes the place of the request.
LEMMA StepServer ==
  ASSUME PingIInv, NEW p \in wire, ServerHandleRead(p)
  PROVE  PingIInv'
PROOF
<1> DEFINE r == Reply(p)
<1>p. Typed /\ Phases /\ Chain /\ Packets /\ Sent /\ RepliesAreOwn /\ ResultsAreRows
  BY DEF PingIInv
<1>1. /\ Running /\ wire' = (wire \ {p}) \cup {r}
      /\ answered' = answered \cup {<<p.id, p.seq, now>>}
      /\ UNCHANGED <<schedule, now, queue, m_apps, port, m_startTime, stamps,
                     m_sendRequestTimestamps, m_replyTimestamps,
                     m_receiveReplyTimestamps, results, crashed>>
  BY DEF ServerHandleRead, clients, stamps
<1>2. Typed' /\ Phases'
  BY <1>1, <1>p DEF Typed, Ping, SentBy, Phases, NotDue, Starting, Sending,
                    Waiting, Finished, IsStarted, IsWanted, SendTime, Start, End,
                    Events
<1>3. now \in 0 .. EndTime /\ now \in Int
  BY <1>p, EndAssumption DEF Typed
<1>4. /\ r.kind = "reply" /\ r.id = p.id /\ r.seq = p.seq /\ r.ts = now
      /\ r \in PacketType
  <2>1. p \in PacketType
    BY <1>p DEF Packets
  <2> QED  BY <2>1, <1>3 DEF Reply, PacketType
<1> HIDE DEF r
<1>5. Packets'
  <2>1. PacketType' = PacketType
    BY <1>1 DEF PacketType, Ping
  <2>2. ASSUME NEW q \in wire'
        PROVE  /\ (q.seq < SentBy(q.id))'
               /\ m_sendRequestTimestamps'[q.id][q.seq + 1] <= q.ts
               /\ q.ts <= now'
               /\ q.kind = "reply" => <<q.id, q.seq, q.ts>> \in answered'
               /\ m_replyTimestamps'[q.id][q.seq + 1] = -1
               /\ m_receiveReplyTimestamps'[q.id][q.seq + 1] = -1
    <3>1. CASE q \in wire
      BY <3>1, <1>1, <1>p DEF Packets, SentBy
    <3>2. CASE q = r
      <4>1. /\ p \in PacketType /\ p.seq < SentBy(p.id)
            /\ m_sendRequestTimestamps[p.id][p.seq + 1] <= p.ts /\ p.ts <= now
            /\ m_replyTimestamps[p.id][p.seq + 1] = -1
            /\ m_receiveReplyTimestamps[p.id][p.seq + 1] = -1
        BY <1>p DEF Packets
      <4>2. p.id \in Ping /\ p.seq \in Nat /\ p.ts \in 0 .. EndTime
        BY <4>1 DEF PacketType
      <4>3. m_sendRequestTimestamps[p.id][p.seq + 1] \in Stamp
        <5>1. SentBy(p.id) \in Nat /\ m_sendRequestTimestamps[p.id] \in Seq(Stamp)
          BY <4>2, <1>p, SentTyped
        <5>2. p.seq + 1 \in 1 .. Len(m_sendRequestTimestamps[p.id])
          BY <5>1, <4>1, <4>2 DEF SentBy
        <5> QED  BY <5>1, <5>2, ElementOfSeq
      <4>4. m_sendRequestTimestamps[p.id][p.seq + 1] <= now
        BY <4>1, <4>2, <4>3, <1>3, EndAssumption DEF Stamp
      <4>5. now <= now' /\ (q.seq < SentBy(q.id))'
        BY <3>2, <4>1, <1>1, <1>3, <1>4 DEF SentBy
      <4> QED  BY <3>2, <4>1, <4>4, <4>5, <1>1, <1>4
    <3> QED  BY <3>1, <3>2, <1>1
  <2>3. wire' \subseteq PacketType
    BY <1>1, <1>4, <1>p DEF Packets
  <2>4. \A q, s \in wire' : q.id = s.id /\ q.seq = s.seq => q = s
    BY <1>1, <1>4, <1>p DEF Packets
  <2> QED  BY <2>1, <2>2, <2>3, <2>4 DEF Packets
<1>6. answered \subseteq answered'
  BY <1>1
<1>7. Chain' /\ Sent' /\ RepliesAreOwn' /\ ResultsAreRows'
  BY <1>1, <1>6, <1>p, ChainKept, SentKept, RepliesKept, ResultsKept
<1> QED  BY <1>2, <1>5, <1>7 DEF PingIInv

\* A reply that reaches a socket: either it is somebody else's, or it is the
\* first and only one for its request.
LEMMA StepClient ==
  ASSUME PingIInv, NEW c \in Ping, NEW p \in wire, ClientHandleRead(c, p)
  PROVE  PingIInv'
PROOF
<1> DEFINE m == p.seq + 1
<1>p. Typed /\ Phases /\ Chain /\ Packets /\ Sent /\ RepliesAreOwn /\ ResultsAreRows
  BY DEF PingIInv
<1>1. /\ Running /\ p.kind = "reply" /\ port[c] = p.port
      /\ wire' = wire \ {p}
      /\ UNCHANGED <<schedule, now, queue, m_apps, port, m_startTime,
                     answered, results>>
  BY DEF ClientHandleRead, Receiver
<1>2. now \in 0 .. EndTime /\ now <= now' /\ now \in Nat /\ now' \in Int
  BY <1>1, <1>p, EndAssumption DEF Typed
<1>3. CASE UNCHANGED <<stamps, crashed>>
  <2>1. UNCHANGED <<m_sendRequestTimestamps, m_replyTimestamps,
                    m_receiveReplyTimestamps>> /\ wire' \subseteq wire
    BY <1>1, <1>3 DEF stamps
  <2>2. Typed' /\ Phases'
    BY <2>1, <1>1, <1>3, <1>p DEF Typed, Ping, SentBy, Phases, NotDue, Starting, Sending,
                      Waiting, Finished, IsStarted, IsWanted, SendTime, Start, End,
                      Events
  <2>3. Chain' /\ Packets'
    BY <2>1, <1>1, <1>2, <1>3, <1>p, ChainKept, PacketsKept
  <2>4. Sent' /\ RepliesAreOwn' /\ ResultsAreRows'
    BY <2>1, <1>1, <1>3, <1>p, SentKept, RepliesKept, ResultsKept
  <2> QED  BY <2>2, <2>3, <2>4 DEF PingIInv
<1>4. /\ p \in PacketType /\ p.seq < SentBy(p.id)
      /\ m_sendRequestTimestamps[p.id][m] <= p.ts /\ p.ts <= now
      /\ <<p.id, p.seq, p.ts>> \in answered
      /\ m_replyTimestamps[p.id][m] = -1
      /\ m_receiveReplyTimestamps[p.id][m] = -1
  BY <1>1, <1>p DEF Packets
<1>5. p.id \in Ping /\ p.seq \in Nat /\ p.ts \in 0 .. EndTime /\ p.port \in Ports
  BY <1>4 DEF PacketType
<1>6. CASE ~UNCHANGED <<stamps, crashed>>
  <2>1. p.id = c
    BY <1>6 DEF ClientHandleRead, IsOwn
  <2>2. ~(p.seq >= SentBy(c))
    <3>1. SentBy(c) \in Nat
      BY <1>p, SentTyped
    <3> QED  BY <3>1, <2>1, <1>4, <1>5
  <2>3. /\ m_replyTimestamps' = [m_replyTimestamps EXCEPT ![c][m] = p.ts]
        /\ m_receiveReplyTimestamps' = [m_receiveReplyTimestamps EXCEPT ![c][m] = now]
        /\ UNCHANGED <<m_sendRequestTimestamps, crashed>>
    BY <2>1, <2>2, <1>4, <1>6 DEF ClientHandleRead
  <2>4. /\ SentBy(c) \in Nat /\ m \in 1 .. SentBy(c) /\ m - 1 = p.seq
        /\ m_replyTimestamps[c] \in Seq(Stamp) /\ Len(m_replyTimestamps[c]) = SentBy(c)
        /\ m_receiveReplyTimestamps[c] \in Seq(Stamp)
        /\ Len(m_receiveReplyTimestamps[c]) = SentBy(c)
        /\ m_sendRequestTimestamps[c] \in Seq(Stamp)
    BY <2>1, <1>4, <1>5, <1>p, SentTyped
  <2>5. p.ts \in Stamp /\ now \in Stamp /\ p.ts # -1 /\ now # -1
    BY <1>2, <1>5, EndAssumption DEF Stamp
  <2> HIDE DEF m
  <2>6. /\ m_replyTimestamps'[c] = [m_replyTimestamps[c] EXCEPT ![m] = p.ts]
        /\ m_receiveReplyTimestamps'[c] = [m_receiveReplyTimestamps[c] EXCEPT ![m] = now]
        /\ \A d \in Ping \ {c} : /\ m_replyTimestamps'[d] = m_replyTimestamps[d]
                                 /\ m_receiveReplyTimestamps'[d] = m_receiveReplyTimestamps[d]
    BY <2>3, <1>p DEF Typed
  <2>7. /\ m_replyTimestamps'[c] \in Seq(Stamp)
        /\ Len(m_replyTimestamps'[c]) = SentBy(c)
        /\ m_replyTimestamps'[c][m] = p.ts
        /\ \A i \in 1 .. SentBy(c) : i # m => m_replyTimestamps'[c][i] = m_replyTimestamps[c][i]
    <3> DEFINE f == m_replyTimestamps[c]
    <3> HIDE DEF f
    <3>1. /\ [f EXCEPT ![m] = p.ts] \in Seq(Stamp)
          /\ Len([f EXCEPT ![m] = p.ts]) = Len(f)
          /\ \A i \in 1 .. Len(f) : [f EXCEPT ![m] = p.ts][i] = IF i = m THEN p.ts ELSE f[i]
      <4>1. f \in Seq(Stamp) /\ m \in 1 .. Len(f)
        BY <2>4 DEF f
      <4> QED  BY <4>1, <2>5, ExceptSeq
    <3> QED  BY <3>1, <2>4, <2>6 DEF f
  <2>8. /\ m_receiveReplyTimestamps'[c] \in Seq(Stamp)
        /\ Len(m_receiveReplyTimestamps'[c]) = SentBy(c)
        /\ m_receiveReplyTimestamps'[c][m] = now
        /\ \A i \in 1 .. SentBy(c) : i # m =>
             m_receiveReplyTimestamps'[c][i] = m_receiveReplyTimestamps[c][i]
    <3> DEFINE f == m_receiveReplyTimestamps[c]
    <3> HIDE DEF f
    <3>1. /\ [f EXCEPT ![m] = now] \in Seq(Stamp)
          /\ Len([f EXCEPT ![m] = now]) = Len(f)
          /\ \A i \in 1 .. Len(f) : [f EXCEPT ![m] = now][i] = IF i = m THEN now ELSE f[i]
      <4>1. f \in Seq(Stamp) /\ m \in 1 .. Len(f)
        BY <2>4 DEF f
      <4> QED  BY <4>1, <2>5, ExceptSeq
    <3> QED  BY <3>1, <2>4, <2>6 DEF f
  <2>9. /\ Ping' = Ping /\ \A d \in Ping : SentBy(d)' = SentBy(d)
    BY <2>3, <1>1 DEF Ping, SentBy
  <2>10. Typed'
    <3>1. /\ m_replyTimestamps' \in [Ping -> Seq(Stamp)]
          /\ m_receiveReplyTimestamps' \in [Ping -> Seq(Stamp)]
      BY <2>3, <2>6, <2>7, <2>8, <1>p DEF Typed
    <3>2. ASSUME NEW d \in Ping
          PROVE  /\ Len(m_replyTimestamps'[d]) = SentBy(d)'
                 /\ Len(m_receiveReplyTimestamps'[d]) = SentBy(d)'
      BY <3>2, <2>6, <2>7, <2>8, <2>9, <1>p DEF Typed
    <3> QED  BY <3>1, <3>2, <2>3, <2>9, <1>1, <1>p DEF Typed
  <2>11. Phases'
    BY <2>9, <1>1, <1>p DEF Phases, NotDue, Starting, Sending, Waiting, Finished,
                            IsStarted, IsWanted, SendTime, Start, End, Events
  <2>12. Packets'
    <3>1. PacketType' = PacketType
      BY <2>9, <1>1 DEF PacketType
    <3>2. ASSUME NEW q \in wire'
          PROVE  /\ (q.seq < SentBy(q.id))'
                 /\ m_sendRequestTimestamps'[q.id][q.seq + 1] <= q.ts
                 /\ q.ts <= now'
                 /\ q.kind = "reply" => <<q.id, q.seq, q.ts>> \in answered'
                 /\ m_replyTimestamps'[q.id][q.seq + 1] = -1
                 /\ m_receiveReplyTimestamps'[q.id][q.seq + 1] = -1
      <4>1. /\ q \in wire /\ q \in PacketType /\ q.seq < SentBy(q.id)
            /\ ~(q.id = p.id /\ q.seq = p.seq)
        BY <1>1, <1>p DEF Packets
      <4>2. q.id \in Ping /\ q.seq \in Nat
        BY <4>1 DEF PacketType
      <4>3. SentBy(q.id) \in Nat
        BY <4>2, <1>p, SentTyped
      <4>4. /\ m_replyTimestamps'[q.id][q.seq + 1] = m_replyTimestamps[q.id][q.seq + 1]
            /\ m_receiveReplyTimestamps'[q.id][q.seq + 1]
                 = m_receiveReplyTimestamps[q.id][q.seq + 1]
        <5>1. CASE q.id = c
          <6>1. q.seq + 1 \in 1 .. SentBy(c) /\ q.seq + 1 # m
            BY <5>1, <4>1, <4>2, <4>3, <2>1, <1>5 DEF m
          <6> QED  BY <6>1, <5>1, <2>7, <2>8
        <5>2. CASE q.id # c
          BY <5>2, <4>2, <2>6
        <5> QED  BY <5>1, <5>2
      <4>5. (q.seq < SentBy(q.id))'
        BY <4>1, <4>2, <2>3 DEF SentBy
      <4> QED  BY <4>1, <4>4, <4>5, <2>3, <1>1, <1>p DEF Packets
    <3>3. wire' \subseteq PacketType
      BY <1>1, <1>p DEF Packets
    <3>4. \A q, s \in wire' : q.id = s.id /\ q.seq = s.seq => q = s
      BY <1>1, <1>p DEF Packets
    <3> QED  BY <3>1, <3>2, <3>3, <3>4 DEF Packets
  \* The socket is open, so the client has not finished.
  <2>13. now <= SendingUntil(c) + schedule[c].wait
    <3>1. port[c] # Closed
      BY <1>1, <1>5, PortsAssumption
    <3>2. Sending(c) \/ Waiting(c)
      BY <3>1, <1>p DEF Phases, NotDue, Starting, Finished
    <3>3. m_startTime[c] = Start(c) /\ SendingUntil(c) + schedule[c].wait = End(c)
      BY <3>2 DEF Sending, Waiting, IsStarted, SendingUntil, End, Start
    <3>4. SentBy(c) + 1 \in Nat \ {0} /\ End(c) \in Nat
      <4>1. 1 \in Nat \ {0} /\ SentBy(c) + 1 \in Nat \ {0}
        BY <2>4
      <4> QED  BY <4>1, <1>p, TimesTyped
    <3>5. CASE Sending(c)
      <4> DEFINE s == SendTime(c, SentBy(c) + 1)
      <4>1. <<s, "Send", c>> \in Events(c) /\ IsWanted(c, SentBy(c) + 1)
        BY <3>5 DEF Sending
      <4>2. s \in Nat /\ s <= Start(c) + schedule[c].duration
        BY <4>1, <3>4, <1>p, TimesTyped
      <4> HIDE DEF s
      <4>3. <<s, "Send", c>> \in queue
        BY <4>1 DEF Events
      <4>4. s >= now
        BY <4>3, <1>p DEF Typed
      <4>5. /\ Start(c) \in Nat /\ schedule[c].duration \in Nat
            /\ schedule[c].wait \in Nat
        BY <1>p, ScheduleFacts DEF Typed
      <4>6. now \in Int
        BY <1>2, <1>p, EndAssumption DEF Typed
      <4>7. End(c) = Start(c) + schedule[c].duration + schedule[c].wait
        BY DEF End
      <4>8. now <= End(c)
        BY <4>2, <4>4, <4>5, <4>6, <4>7
      <4> QED  BY <4>8, <3>3
    <3>6. CASE Waiting(c)
      <4>1. <<End(c), "Finish", c>> \in queue
        BY <3>6 DEF Waiting, Events
      <4>2. End(c) >= now
        BY <4>1, <1>p DEF Typed
      <4> QED  BY <4>2, <3>3, <3>4, <1>2
    <3> QED  BY <3>2, <3>5, <3>6
  <2>14. RepliesAreOwn'
    <3> SUFFICES ASSUME NEW d \in Ping, NEW i \in 1 .. SentBy(d)
                 PROVE  /\ m_replyTimestamps'[d][i] = -1
                             <=> m_receiveReplyTimestamps'[d][i] = -1
                        /\ m_replyTimestamps'[d][i] # -1 =>
                             /\ <<d, i - 1, m_replyTimestamps'[d][i]>> \in answered'
                             /\ m_sendRequestTimestamps'[d][i] <= m_replyTimestamps'[d][i]
                             /\ m_replyTimestamps'[d][i] <= m_receiveReplyTimestamps'[d][i]
                             /\ m_receiveReplyTimestamps'[d][i]
                                  <= SendingUntil(d)' + schedule'[d].wait
      BY <2>9 DEF RepliesAreOwn
    <3>1. SendingUntil(d)' = SendingUntil(d) /\ schedule' = schedule
      BY <1>1 DEF SendingUntil
    <3>2. CASE d = c /\ i = m
      <4>1. m_replyTimestamps'[d][i] = p.ts /\ m_receiveReplyTimestamps'[d][i] = now
        BY <3>2, <2>7, <2>8
      <4>2. <<d, i - 1, p.ts>> \in answered'
        BY <3>2, <2>1, <2>4, <1>1, <1>4
      <4>3. m_sendRequestTimestamps'[d][i] <= p.ts /\ p.ts <= now
        BY <3>2, <2>1, <2>3, <1>4
      <4> QED  BY <4>1, <4>2, <4>3, <3>1, <3>2, <2>5, <2>13
    <3>3. CASE ~(d = c /\ i = m)
      <4>1. /\ m_replyTimestamps'[d][i] = m_replyTimestamps[d][i]
            /\ m_receiveReplyTimestamps'[d][i] = m_receiveReplyTimestamps[d][i]
        BY <3>3, <2>6, <2>7, <2>8
      <4> QED  BY <4>1, <3>1, <2>3, <1>1, <1>p DEF RepliesAreOwn
    <3> QED  BY <3>2, <3>3
  <2>15. Chain' /\ Sent' /\ ResultsAreRows'
    BY <2>3, <1>1, <1>p, ChainKept, SentKept, ResultsKept
  <2> QED  BY <2>10, <2>11, <2>12, <2>14, <2>15 DEF PingIInv
<1> QED  BY <1>3, <1>6

LEMMA StepWriteResults ==
  ASSUME PingIInv, WriteResults
  PROVE  PingIInv'
PROOF
<1>p. Typed /\ Phases /\ Chain /\ Packets /\ Sent /\ RepliesAreOwn /\ ResultsAreRows
  BY DEF PingIInv
<1>1. /\ crashed = "no" /\ now = EndTime
      /\ results' = [i \in DOMAIN m_apps |-> [m \in 1 .. SentBy(m_apps[i]) |-> Row(i, m)]]
      /\ UNCHANGED <<schedule, now, queue, m_apps, port, m_startTime, stamps,
                     m_sendRequestTimestamps, m_replyTimestamps,
                     m_receiveReplyTimestamps, wire, answered, crashed>>
  BY DEF WriteResults, clients, stamps
<1>2. Typed' /\ Phases'
  BY <1>1, <1>p DEF Typed, Ping, SentBy, Phases, NotDue, Starting, Sending,
                    Waiting, Finished, IsStarted, IsWanted, SendTime, Start, End,
                    Events
<1>3. now \in 0 .. EndTime /\ now <= now
  BY <1>p, EndAssumption DEF Typed
<1>4. Chain' /\ Packets' /\ Sent' /\ RepliesAreOwn'
  BY <1>1, <1>3, <1>p, ChainKept, PacketsKept, SentKept, RepliesKept
<1>5. ResultsAreRows'
  BY <1>1 DEF ResultsAreRows, Row, SentBy
<1> QED  BY <1>2, <1>4, <1>5 DEF PingIInv

----------------------------------------------------------------------------
\* The inductive invariant: every client is in one of five phases with at most
\* one event to come, the chain starts the rest, and every packet under way is
\* the only one for a request without reply.
THEOREM PingInvariant == Spec => []PingIInv
PROOF
<1>1. Init => PingIInv
  <2> SUFFICES ASSUME Init PROVE PingIInv
    OBVIOUS
  <2>1. /\ schedule \in Schedules /\ now = 0 /\ m_apps = << >> /\ crashed = "no"
        /\ wire = {} /\ results = NotWritten
        /\ \A c \in Ping : /\ port[c] = Closed /\ m_startTime[c] = -1
                           /\ m_sendRequestTimestamps[c] = << >>
                           /\ m_replyTimestamps[c] = << >>
                           /\ m_receiveReplyTimestamps[c] = << >>
    BY DEF Init
  <2>2. /\ Len(schedule) \in Nat /\ Ping = 1 .. Len(schedule)
        /\ schedule # << >> => Len(schedule) > 0
        /\ \A c \in Ping : Start(c) \in Nat
    BY <2>1, ScheduleFacts
  <2> DEFINE e == <<Start(1), "StartNextUdpPing", 1>>
  <2>3. queue = IF schedule = << >> THEN {} ELSE {e}
    BY DEF Init, Start
  <2>4. /\ e[1] = Start(1) /\ e[2] = "StartNextUdpPing" /\ e[3] = 1
        /\ e[2] \notin ClientKinds /\ e[2] \in Kinds
        /\ schedule # << >> => e \in Nat \X Kinds \X Ping /\ e[1] >= 0 /\ 1 \in Ping
    BY <2>2 DEF Kinds, ClientKinds
  <2>n. << >> \in Seq(Stamp) /\ << >> \in Seq(Ping) /\ Len(<< >>) = 0
    OBVIOUS
  <2> HIDE DEF e
  <2>5. Typed
    <3>1. queue \subseteq Nat \X Kinds \X Ping /\ \A ev \in queue : ev[1] >= now
      BY <2>1, <2>3, <2>4
    <3>2. -1 \in Stamp /\ 0 \in 0 .. EndTime
      BY EndAssumption DEF Stamp
    <3>3. /\ port \in [Ping -> Ports \cup {Closed}]
          /\ m_startTime \in [Ping -> Stamp]
          /\ m_sendRequestTimestamps \in [Ping -> Seq(Stamp)]
          /\ m_replyTimestamps \in [Ping -> Seq(Stamp)]
          /\ m_receiveReplyTimestamps \in [Ping -> Seq(Stamp)]
      BY <3>2, <2>n DEF Init
    <3> QED  BY <3>1, <3>2, <3>3, <2>1, <2>n DEF Typed, SentBy
  <2>6. Phases
    <3> SUFFICES ASSUME NEW c \in Ping PROVE NotDue(c)
      BY DEF Phases
    <3>1. Events(c) = {}
      BY <2>3, <2>4 DEF Events
    <3>2. SentBy(c) = 0 /\ Len(m_apps) = 0
      BY <2>1, <2>n DEF SentBy
    <3>3. c > Len(m_apps)
      BY <3>2, <2>2
    <3> QED  BY <3>1, <3>2, <3>3, <2>1 DEF NotDue
  <2>7. Chain
    <3>1. Len(m_apps) = 0 /\ 0 + 1 = 1
      BY <2>1, <2>n
    <3>2. \A ev \in queue : ev = e /\ schedule # << >>
      BY <2>3
    <3>3. Len(schedule) > 0 => schedule # << >>
      BY <2>n
    <3>4. Len(m_apps) < Len(schedule) =>
            <<Start(Len(m_apps) + 1), "StartNextUdpPing", Len(m_apps) + 1>> \in queue
      BY <3>1, <3>3, <2>2, <2>3 DEF e
    <3>5. \A ev \in queue : ev[2] = "StartNextUdpPing" =>
            ev[3] = Len(m_apps) + 1 /\ ev[3] \in Ping /\ ev[1] = Start(ev[3])
      BY <3>1, <3>2, <2>4
    <3> QED  BY <3>1, <3>4, <3>5, <2>2 DEF Chain
  <2>8. Packets /\ ResultsAreRows
    BY <2>1 DEF Packets, ResultsAreRows
  <2>9. Sent /\ RepliesAreOwn
    <3>1. \A c \in Ping : SentBy(c) = 0
      BY <2>1, <2>n DEF SentBy
    <3> QED  BY <3>1 DEF Sent, RepliesAreOwn
  <2> QED  BY <2>5, <2>6, <2>7, <2>8, <2>9 DEF PingIInv
<1>2. PingIInv /\ [Next]_vars => PingIInv'
  <2> SUFFICES ASSUME PingIInv, [Next]_vars PROVE PingIInv'
    OBVIOUS
  <2>1. ASSUME NEW c \in Ping, StartNextUdpPing(c) PROVE PingIInv'
    BY <2>1, StepStartNext
  <2>2. ASSUME NEW c \in Ping, StartApplication(c) PROVE PingIInv'
    BY <2>2, StepStartApplication
  <2>3. ASSUME NEW c \in Ping, Send(c) PROVE PingIInv'
    BY <2>3, StepSend
  <2>4. ASSUME NEW c \in Ping, Finish(c) PROVE PingIInv'
    BY <2>4, StepFinish
  <2>5. ASSUME NEW c \in Ping, NEW p \in wire, ClientHandleRead(c, p) PROVE PingIInv'
    BY <2>5, StepClient
  <2>6. ASSUME NEW p \in wire, ServerHandleRead(p) PROVE PingIInv'
    BY <2>6, StepServer
  <2>7. ASSUME NEW p \in wire, Lose(p) PROVE PingIInv'
    BY <2>7, StepLose
  <2>8. CASE Tick
    BY <2>8, StepTick
  <2>9. CASE WriteResults
    BY <2>9, StepWriteResults
  <2>10. CASE UNCHANGED vars
    <3>1. UNCHANGED <<schedule, now, queue, m_apps, port, m_startTime,
                      m_sendRequestTimestamps, m_replyTimestamps,
                      m_receiveReplyTimestamps, stamps, wire, answered, results,
                      crashed>>
      BY <2>10 DEF vars, clients, stamps
    <3>p. Typed /\ Phases /\ Chain /\ Packets /\ Sent /\ RepliesAreOwn /\ ResultsAreRows
      BY DEF PingIInv
    <3>2. now \in 0 .. EndTime /\ now <= now
      BY <3>p, EndAssumption DEF Typed
    <3>3. Typed' /\ Phases'
      BY <3>1, <3>p DEF Typed, Ping, SentBy, Phases, NotDue, Starting, Sending,
                        Waiting, Finished, IsStarted, IsWanted, SendTime, Start, End,
                        Events
    <3>4. Chain' /\ Packets' /\ Sent' /\ RepliesAreOwn'
      BY <3>1, <3>2, <3>p, ChainKept, PacketsKept, SentKept, RepliesKept
    <3>5. ResultsAreRows'
      BY <3>1, <3>p DEF ResultsAreRows, Row, SentBy
    <3> QED  BY <3>3, <3>4, <3>5 DEF PingIInv
  <2> QED
    BY <2>1, <2>2, <2>3, <2>4, <2>5, <2>6, <2>7, <2>8, <2>9, <2>10 DEF Next
<1> QED  BY <1>1, <1>2, PTL DEF Spec

\* The timestamps kept for a request are those of its own reply, for every
\* schedule and every way in which ports pass from client to client.
THEOREM OwnReplies == Spec => []RepliesAreOwn
PROOF
<1>1. PingIInv => RepliesAreOwn
  BY DEF PingIInv
<1> QED  BY <1>1, PingInvariant, PTL

\* A socket is open from the start of its client until its waiting time is over.
THEOREM SocketTimes == Spec => []SocketClosesOnTime
PROOF
<1>1. PingIInv => SocketClosesOnTime
  <2> SUFFICES ASSUME PingIInv, NEW c \in Ping
               PROVE  /\ port[c] # Closed => Start(c) <= now /\ now <= End(c)
                      /\ port[c] = Closed /\ m_startTime[c] # -1 => now >= End(c)
    BY DEF SocketClosesOnTime, Start, End
  <2>p. Typed /\ Phases
    BY DEF PingIInv
  <2>0. /\ SentBy(c) + 1 \in Nat \ {0} /\ 1 \in Nat \ {0} /\ now \in Int
        /\ Start(c) \in Nat /\ schedule[c].duration \in Nat /\ schedule[c].wait \in Nat
    <3>1. SentBy(c) \in Nat
      BY <2>p, SentTyped
    <3>2. SentBy(c) + 1 \in Nat \ {0} /\ 1 \in Nat \ {0}
      BY <3>1
    <3>3. now \in Int
      BY <2>p, EndAssumption DEF Typed
    <3>4. Start(c) \in Nat /\ schedule[c].duration \in Nat /\ schedule[c].wait \in Nat
      BY <2>p, ScheduleFacts DEF Typed
    <3> QED  BY <3>2, <3>3, <3>4
  <2>1. End(c) \in Nat
    BY <2>0, <2>p, TimesTyped
  <2>2. CASE Sending(c)
    <3> DEFINE s == SendTime(c, SentBy(c) + 1)
    <3>1. <<s, "Send", c>> \in Events(c) /\ IsWanted(c, SentBy(c) + 1)
      BY <2>2 DEF Sending
    <3>2. s \in Nat /\ s <= Start(c) + schedule[c].duration
      BY <3>1, <2>0, <2>p, TimesTyped
    <3> HIDE DEF s
    <3>3. s >= now
      BY <3>1, <2>p DEF Typed, Events
    <3>4. End(c) = Start(c) + schedule[c].duration + schedule[c].wait
      BY DEF End
    <3>5. now <= End(c)
      BY <3>2, <3>3, <3>4, <2>0
    <3> QED  BY <3>5, <2>2 DEF Sending, IsStarted
  <2>3. CASE Waiting(c)
    <3>1. <<End(c), "Finish", c>> \in queue
      BY <2>3 DEF Waiting, Events
    <3>2. End(c) >= now
      BY <3>1, <2>p DEF Typed
    <3> QED  BY <3>2, <2>0, <2>1, <2>3 DEF Waiting, IsStarted
  <2>4. CASE NotDue(c) \/ Starting(c) \/ Finished(c)
    BY <2>4, <2>0, <2>1 DEF NotDue, Starting, Finished
  <2> QED  BY <2>2, <2>3, <2>4, <2>p DEF Phases
<1> QED  BY <1>1, PingInvariant, PTL

\* No start is left once the clock has come to the end.
LEMMA AllStarted ==
  ASSUME PingIInv, now = EndTime
  PROVE  /\ Len(m_apps) = Len(schedule)
         /\ \A c \in Ping : /\ Sending(c) \/ Waiting(c) \/ Finished(c)
                            /\ SentBy(c) > 0
                            /\ Sending(c) => SendTime(c, SentBy(c) + 1) >= EndTime
PROOF
<1>p. Typed /\ Phases /\ Chain
  BY DEF PingIInv
<1>0. /\ Len(schedule) \in Nat /\ Ping = 1 .. Len(schedule)
      /\ \A c \in Ping : Start(c) \in Nat /\ Start(c) < EndTime
      /\ Len(m_apps) \in Nat
  BY <1>p, ScheduleFacts, LenProperties DEF Typed
<1>1. Len(m_apps) = Len(schedule)
  <2> DEFINE n == Len(m_apps)
  <2> SUFFICES ASSUME n < Len(schedule) PROVE FALSE
    BY <1>0, <1>p DEF Chain
  <2>1. <<Start(n + 1), "StartNextUdpPing", n + 1>> \in queue /\ n + 1 \in Ping
    BY <1>0, <1>p DEF Chain
  <2> HIDE DEF n
  <2>2. Start(n + 1) >= now
    BY <2>1, <1>p DEF Typed
  <2> QED  BY <2>1, <2>2, <1>0, EndAssumption
<1>2. ASSUME NEW c \in Ping
      PROVE  /\ Sending(c) \/ Waiting(c) \/ Finished(c)
             /\ SentBy(c) > 0
             /\ Sending(c) => SendTime(c, SentBy(c) + 1) >= EndTime
  <2>1. ~NotDue(c)
    BY <1>0, <1>1 DEF NotDue
  <2>2. ~Starting(c)
    <3> SUFFICES ASSUME Starting(c) PROVE FALSE
      OBVIOUS
    <3>1. <<Start(c), "StartApplication", c>> \in queue
      BY DEF Starting, Events
    <3>2. Start(c) >= now
      BY <3>1, <1>p DEF Typed
    <3> QED  BY <3>2, <1>0, EndAssumption
  <2>3. Sending(c) => SendTime(c, SentBy(c) + 1) >= EndTime /\ SentBy(c) > 0
    <3> SUFFICES ASSUME Sending(c)
                 PROVE  SendTime(c, SentBy(c) + 1) >= EndTime /\ SentBy(c) > 0
      OBVIOUS
    <3> DEFINE s == SendTime(c, SentBy(c) + 1)
    <3>1. <<s, "Send", c>> \in queue
      BY DEF Sending, Events
    <3>2. s >= now
      BY <3>1, <1>p DEF Typed
    <3>3. SentBy(c) # 0
      <4> SUFFICES ASSUME SentBy(c) = 0 PROVE FALSE
        OBVIOUS
      <4>1. s = SendTime(c, 1) /\ 1 \in Nat \ {0}
        OBVIOUS
      <4>2. SendTime(c, 1) = Start(c)
        BY <4>1, <1>p, TimesTyped
      <4> QED  BY <4>1, <4>2, <3>2, <1>0, EndAssumption
    <3> QED  BY <3>2, <3>3, <1>p, SentTyped
  <2> QED  BY <2>1, <2>2, <2>3, <1>p DEF Phases, Waiting, Finished
<1> QED  BY <1>1, <1>2

\* Requests go out at the interval, as long as the duration is not over.
THEOREM IntervalsKept == Spec => []RequestsKeepInterval
PROOF
<1>1. PingIInv => RequestsKeepInterval
  <2> SUFFICES ASSUME PingIInv, NEW c \in Ping
               PROVE  /\ \A m \in 1 .. SentBy(c) :
                           m_sendRequestTimestamps[c][m] = SendTime(c, m) /\ IsWanted(c, m)
                      /\ results # NotWritten =>
                           \/ ~IsWanted(c, SentBy(c) + 1)
                           \/ SendTime(c, SentBy(c) + 1) >= EndTime
    BY DEF RequestsKeepInterval, SendTime, IsWanted, Start
  <2>1. Sent /\ ResultsAreRows
    BY DEF PingIInv
  <2>2. ASSUME results # NotWritten
        PROVE  \/ ~IsWanted(c, SentBy(c) + 1)
               \/ SendTime(c, SentBy(c) + 1) >= EndTime
    BY <2>1, <2>2, AllStarted DEF ResultsAreRows, Waiting, Finished
  <2> QED  BY <2>1, <2>2 DEF Sent
<1> QED  BY <1>1, PingInvariant, PTL

\* The file reports every request of every ping as it was.
THEOREM RowsComplete == Spec => []RowsAreComplete
PROOF
<1>1. PingIInv => RowsAreComplete
  <2> SUFFICES ASSUME PingIInv, results # NotWritten
               PROVE  /\ m_apps = [c \in Ping |-> c]
                      /\ \A c \in Ping :
                           /\ Len(results[c]) = SentBy(c) /\ SentBy(c) > 0
                           /\ \A m \in 1 .. SentBy(c) :
                                LET row == results[c][m]
                                IN /\ row.arrived = "LOST"
                                        <=> m_receiveReplyTimestamps[c][m] = -1
                                   /\ row.arrived = "YES" =>
                                        /\ row.there >= 0 /\ row.back >= 0
                                        /\ row.rtt = m_receiveReplyTimestamps[c][m]
                                                       - m_sendRequestTimestamps[c][m]
    BY DEF RowsAreComplete
  <2>p. Typed /\ Chain /\ Sent /\ RepliesAreOwn /\ ResultsAreRows
    BY DEF PingIInv
  <2>1. /\ now = EndTime
        /\ results = [i \in DOMAIN m_apps |-> [m \in 1 .. SentBy(m_apps[i]) |-> Row(i, m)]]
    BY <2>p DEF ResultsAreRows
  <2>2. /\ Len(m_apps) = Len(schedule)
        /\ \A c \in Ping : SentBy(c) > 0
    BY <2>1, AllStarted
  <2>3. /\ DOMAIN m_apps = Ping /\ m_apps \in [Ping -> Ping]
        /\ \A c \in Ping : m_apps[c] = c
    <3>1. m_apps \in [1 .. Len(m_apps) -> Ping] /\ Ping = 1 .. Len(schedule)
      BY <2>p, LenProperties, ScheduleFacts DEF Typed
    <3> QED  BY <3>1, <2>2, <2>p DEF Chain
  <2>4. m_apps = [c \in Ping |-> c]
    BY <2>3
  <2>5. ASSUME NEW c \in Ping
        PROVE  /\ Len(results[c]) = SentBy(c)
               /\ \A m \in 1 .. SentBy(c) : results[c][m] = Row(c, m)
    <3>1. results[c] = [m \in 1 .. SentBy(c) |-> Row(c, m)]
      BY <2>1, <2>3
    <3>2. SentBy(c) \in Nat
      BY <2>p, SentTyped
    <3> DEFINE rows == [m \in 1 .. SentBy(c) |-> Row(c, m)]
    <3>3. DOMAIN rows = 1 .. SentBy(c)
      OBVIOUS
    <3> HIDE DEF rows
    <3>4. Len(rows) = SentBy(c)
      BY <3>2, <3>3
    <3> QED  BY <3>1, <3>4 DEF rows
  <2>6. ASSUME NEW c \in Ping, NEW m \in 1 .. SentBy(c)
        PROVE  LET row == results[c][m]
               IN /\ row.arrived = "LOST" <=> m_receiveReplyTimestamps[c][m] = -1
                  /\ row.arrived = "YES" =>
                       /\ row.there >= 0 /\ row.back >= 0
                       /\ row.rtt = m_receiveReplyTimestamps[c][m]
                                      - m_sendRequestTimestamps[c][m]
    <3> DEFINE sent == m_sendRequestTimestamps[c][m]
               replied == m_replyTimestamps[c][m]
               received == m_receiveReplyTimestamps[c][m]
               row == results[c][m]
    <3>1. row = IF replied = -1
                THEN [there |-> -1, back |-> -1, rtt |-> -1, arrived |-> "LOST"]
                ELSE [there |-> replied - sent, back |-> received - replied,
                      rtt |-> (replied - sent) + (received - replied), arrived |-> "YES"]
      BY <2>3, <2>5 DEF Row
    <3>2. sent \in Int /\ replied \in Int /\ received \in Int
      <4>1. /\ m_sendRequestTimestamps[c] \in Seq(Stamp)
            /\ m_replyTimestamps[c] \in Seq(Stamp)
            /\ m_receiveReplyTimestamps[c] \in Seq(Stamp)
            /\ m \in 1 .. Len(m_sendRequestTimestamps[c])
            /\ m \in 1 .. Len(m_replyTimestamps[c])
            /\ m \in 1 .. Len(m_receiveReplyTimestamps[c])
        BY <2>p, SentTyped DEF SentBy
      <4>2. sent \in Stamp /\ replied \in Stamp /\ received \in Stamp
        BY <4>1, ElementOfSeq
      <4> QED  BY <4>2, EndAssumption DEF Stamp
    <3>3. /\ replied = -1 <=> received = -1
          /\ replied # -1 => sent <= replied /\ replied <= received
      BY <2>p DEF RepliesAreOwn
    <3> HIDE DEF sent, replied, received, row
    <3>4. CASE replied = -1
      <4>1. row.arrived = "LOST"
        BY <3>1, <3>4
      <4> QED  BY <4>1, <3>3, <3>4 DEF row, received
    <3>5. CASE replied # -1
      <4>1. /\ row.arrived = "YES" /\ row.there = replied - sent
            /\ row.back = received - replied
            /\ row.rtt = (replied - sent) + (received - replied)
        BY <3>1, <3>5
      <4>2. row.there >= 0 /\ row.back >= 0 /\ row.rtt = received - sent
        BY <4>1, <3>2, <3>3, <3>5
      <4> QED  BY <4>1, <4>2, <3>3, <3>5 DEF row, received, sent
    <3> QED  BY <3>4, <3>5
  <2> QED  BY <2>2, <2>4, <2>5, <2>6
<1> QED  BY <1>1, PingInvariant, PTL

\* There is a port for every ping.
EnoughPorts ==
  /\ IsFiniteSet(Ports)
  /\ \A sched \in Schedules : Len(sched) <= Cardinality(Ports)

LEMMA PortIsFree ==
  ASSUME EnoughPorts, Typed, NEW c \in Ping, port[c] = Closed
  PROVE  FreePorts(c) # {}
PROOF
<1> SUFFICES ASSUME FreePorts(c) = {} PROVE FALSE
  OBVIOUS
<1> DEFINE Others == Ping \ {c}
           f == [q \in Ports |-> CHOOSE d \in Others : port[d] = q]
<1>1. \A q \in Ports : \E d \in Others : port[d] = q
  <2> TAKE q \in Ports
  <2>1. \E d \in Ping : port[d] = q
    BY DEF FreePorts
  <2> QED  BY <2>1, PortsAssumption
<1>2. \A q \in Ports : f[q] \in Others /\ port[f[q]] = q
  BY <1>1
<1>3. f \in [Ports -> Others]
  BY <1>2
<1> HIDE DEF f
<1>4. /\ Len(schedule) \in Nat /\ Ping = 1 .. Len(schedule)
      /\ Len(schedule) <= Cardinality(Ports)
      /\ IsFiniteSet(Ports) /\ Cardinality(Ports) \in Nat
  BY ScheduleFacts, FS_CardinalityType DEF EnoughPorts, Typed
<1>5. IsFiniteSet(Ping) /\ Cardinality(Ping) = Len(schedule)
  <2>1. /\ IsFiniteSet(1 .. Len(schedule))
        /\ Cardinality(1 .. Len(schedule)) =
             IF 1 > Len(schedule) THEN 0 ELSE Len(schedule) - 1 + 1
    BY <1>4, FS_Interval
  <2> QED  BY <2>1, <1>4
<1>6. IsFiniteSet(Others) /\ Cardinality(Others) = Len(schedule) - 1
  BY <1>5, FS_RemoveElement
<1> HIDE DEF Others
<1>7. Cardinality(Others) < Cardinality(Ports)
  BY <1>4, <1>6
<1>8. \E x, y \in Ports : x # y /\ f[x] = f[y]
  BY <1>3, <1>4, <1>6, <1>7, FS_PigeonHole
<1> QED  BY <1>2, <1>8

\* With a port for every ping, no check ends a run: pings start when the
\* schedule says, and no reply is unexpected.
THEOREM RunsThrough == EnoughPorts => (Spec => []NeverAborts)
PROOF
<1> SUFFICES ASSUME EnoughPorts PROVE Spec => []NeverAborts
  OBVIOUS
<1>1. Init => NeverAborts
  BY DEF Init, NeverAborts
<1>2. PingIInv /\ PingIInv' /\ NeverAborts /\ [Next]_vars => NeverAborts'
  <2> SUFFICES ASSUME PingIInv, PingIInv', NeverAborts, [Next]_vars,
                      crashed' = "bind"
               PROVE  FALSE
    BY DEF PingIInv, Typed, NeverAborts
  <2>p. Typed /\ Phases
    BY DEF PingIInv
  <2>1. PICK c \in Ping : StartApplication(c) /\ FreePorts(c) = {}
    BY DEF NeverAborts, Next, vars, StartNextUdpPing, StartApplication, Send,
           Finish, ClientHandleRead, ServerHandleRead, Lose, Tick, WriteResults
  <2>2. port[c] = Closed
    <3>1. <<now, "StartApplication", c>> \in Events(c)
      BY <2>1 DEF StartApplication, Due, Events, ClientKinds
    <3>2. /\ <<now, "StartApplication", c>>[2] = "StartApplication"
          /\ \A t : <<t, "Send", c>>[2] = "Send" /\ <<t, "Finish", c>>[2] = "Finish"
      OBVIOUS
    <3>3. ~(Sending(c) \/ Waiting(c))
      BY <3>1, <3>2 DEF Sending, Waiting
    <3> QED  BY <3>3, <2>p DEF Phases, NotDue, Starting, Finished
  <2> QED  BY <2>1, <2>2, <2>p, PortIsFree
<1> QED  BY <1>1, <1>2, PingInvariant, PTL DEF Spec

\* Every field keeps its type, and no event is left behind by the clock.
THEOREM TypeCorrect == Spec => []TypeOK
PROOF
<1>1. PingIInv => TypeOK
  <2> SUFFICES ASSUME PingIInv PROVE TypeOK
    OBVIOUS
  <2>1. Typed
    BY DEF PingIInv
  <2>2. \A ev \in queue :
          ev[1] >= now /\ ev[3] \in Ping
            /\ ev[2] \in {"StartNextUdpPing", "StartApplication", "Send", "Finish"}
    BY <2>1 DEF Typed, Kinds, ClientKinds
  <2>3. ASSUME NEW c \in Ping,
               NEW seq \in {m_sendRequestTimestamps[c], m_replyTimestamps[c],
                            m_receiveReplyTimestamps[c]}
        PROVE  seq \in Seq(-1 .. EndTime) /\ Len(seq) = SentBy(c)
    BY <2>1, SentTyped DEF Stamp, SentBy
  <2>4. \A c \in Ping : \A seq \in {m_sendRequestTimestamps[c], m_replyTimestamps[c],
                                    m_receiveReplyTimestamps[c]} :
          seq \in Seq(-1 .. EndTime) /\ Len(seq) = SentBy(c)
    BY <2>3
  <2> QED  BY <2>1, <2>2, <2>4 DEF Typed, TypeOK, Stamp
<1> QED  BY <1>1, PingInvariant, PTL
=============================================================================
