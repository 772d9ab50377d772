--------------------------- MODULE UdpBurstProofs ---------------------------
(***************************************************************************)
(* Bursts of any schedule, on any systems, with any loss and reordering:   *)
(* only the schedule aborts a run, each burst keeps its rate, is reported  *)
(* by the system it starts in and the one it ends in, and the rows are     *)
(* what the logs say.                                                      *)
(*                                                                         *)
(* The invariant knows the queue of a system exactly: the next link of the *)
(* chain through its part of the schedule, and for each burst that has     *)
(* started at most one event, which follows from the schedule and the      *)
(* packets sent so far.  Times in the logs are therefore multiples of the  *)
(* gap, and a burst that has sent nothing still has an event before the    *)
(* end of the simulation.  Sockets are those of bursts that have started   *)
(* and need not start again, so a burst that finds no port left is one     *)
(* more than the ports.                                                    *)
(***************************************************************************)
EXTENDS UdpBurst, OrderedProofs, FiniteSetTheorems, WellFoundedInduction, TLAPS

----------------------------------------------------------------------------
(* The schedule *)

LEMMA Inputs ==
  ASSUME schedule \in Schedules, assignment \in Assignments
  PROVE  /\ Burst = 1 .. Len(schedule) /\ Len(schedule) \in Nat
         /\ IsFiniteSet(Burst)
         /\ \A b \in Burst :
              /\ schedule[b].from \in Numbers /\ schedule[b].to \in Nat
              /\ schedule[b].rate \in Nat \ {0} /\ schedule[b].start \in 0 .. EndTime - 1
              /\ schedule[b].duration \in Nat
              /\ b > 1 => schedule[b - 1].start <= schedule[b].start
         /\ \A e \in Endpoints : assignment[e] \in System /\ e \in Nat
<1> DEFINE E == [from : Numbers, to : Numbers, rate : Nat \ {0},
                 start : 0 .. EndTime - 1, duration : Nat]
<1>1. schedule \in Seq(E) /\ \A b \in Burst : b > 1 => schedule[b - 1].start <= schedule[b].start
  BY SchedulesAssumption DEF IsSchedule, Burst
<1>2. Burst = 1 .. Len(schedule) /\ Len(schedule) \in Nat /\ \A b \in Burst : schedule[b] \in E
  <2> HIDE DEF E
  <2> QED BY <1>1 DEF Burst
<1>3. IsFiniteSet(Burst)
  BY <1>2, FS_Interval
<1>4. \A b \in Burst : b > 1 => schedule[b - 1].start <= schedule[b].start
  BY <1>1
<1>5. Numbers \subseteq Nat /\ \A e \in Endpoints : assignment[e] \in System /\ e \in Nat
  BY EndpointsAssumption
<1> QED BY <1>2, <1>3, <1>4, <1>5

\* Start times ascend over any distance.
LEMMA StartsAscend ==
  ASSUME schedule \in Schedules, assignment \in Assignments,
         NEW a \in Burst, NEW b \in Burst, a < b
  PROVE  schedule[a].start <= schedule[b].start
<1> DEFINE Bad == {d \in Nat : a + d \in Burst /\ ~(schedule[a].start <= schedule[a + d].start)}
           Less == OpToRel(<, Nat)
<1>i. /\ Burst = 1 .. Len(schedule) /\ Len(schedule) \in Nat
      /\ \A c \in Burst : schedule[c].start \in 0 .. EndTime - 1
      /\ \A c \in Burst : c > 1 => schedule[c - 1].start <= schedule[c].start
  BY Inputs
<1>t. EndTime \in Nat
  BY TimesAssumption
<1>1. Bad = {}
  <2>1. SUFFICES ASSUME Bad # {} PROVE FALSE
    OBVIOUS
  <2>2. PICK d \in Bad : \A l \in Bad : <<l, d>> \notin Less
    BY <2>1, NatLessThanWellFounded, WFMin
  <2>3. d \in Nat /\ a + d \in Burst /\ ~(schedule[a].start <= schedule[a + d].start)
    BY <2>2
  <2>4. d # 0
    <3>1. SUFFICES ASSUME d = 0 PROVE FALSE
      OBVIOUS
    <3>2. a + d = a
      BY <1>i, <3>1
    <3> QED BY <1>i, <1>t, <2>3, <3>2
  <2>5. d - 1 \in Nat /\ a + (d - 1) \in Burst /\ a + (d - 1) = a + d - 1 /\ a + d > 1
    BY <1>i, <2>3, <2>4
  <2>6. d - 1 \notin Bad
    <3>1. SUFFICES ASSUME d - 1 \in Bad PROVE FALSE
      OBVIOUS
    <3>2. <<d - 1, d>> \in Less
      BY <2>3, <2>5 DEF OpToRel
    <3> QED BY <2>2, <3>1, <3>2
  <2>7. schedule[a].start <= schedule[a + (d - 1)].start
    BY <2>5, <2>6
  <2>8. schedule[a + d - 1].start <= schedule[a + d].start
    BY <1>i, <2>3, <2>5
  <2>9. schedule[a + d - 1].start \in 0 .. EndTime - 1
        /\ schedule[a + d].start \in 0 .. EndTime - 1
        /\ schedule[a].start \in 0 .. EndTime - 1
    BY <1>i, <2>3, <2>5
  <2> QED BY <1>t, <2>3, <2>5, <2>7, <2>8, <2>9
<1>2. b - a \in Nat /\ a + (b - a) = b
  BY <1>i
<1> HIDE DEF Less
<1> QED BY <1>1, <1>2

LEMMA FilteredFacts ==
  ASSUME schedule \in Schedules, assignment \in Assignments, NEW s \in System
  PROVE  /\ FilteredSchedule(s) \in Seq(Burst)
         /\ \A x \in 1 .. Len(FilteredSchedule(s)) :
              FilteredSchedule(s)[x] \in Burst /\ From(FilteredSchedule(s)[x]) = s
         /\ \A b \in Burst : From(b) = s =>
              \E x \in 1 .. Len(FilteredSchedule(s)) : FilteredSchedule(s)[x] = b
         /\ \A x, y \in 1 .. Len(FilteredSchedule(s)) :
              x < y => FilteredSchedule(s)[x] < FilteredSchedule(s)[y]
<1> DEFINE S == {b \in Burst : From(b) = s}
           R == Ascending(Burst)
           q == InOrder(S, R)
<1>1. IsFiniteSet(Burst) /\ Burst \subseteq Nat
  BY Inputs
<1>2. IsFiniteSet(S) /\ Cardinality(S) \in Nat
  BY <1>1, FS_Subset, FS_CardinalityType
<1>3. \A x, y \in S : <<x, y>> \in R <=> x < y
  BY DEF Ascending
<1>4. \A x \in S : x \in Nat /\ x \in Burst /\ From(x) = s
  BY <1>1
<1>5. IsStrictOrder(S, R)
  <2> HIDE DEF S, R
  <2> QED BY <1>3, <1>4 DEF IsStrictOrder
<1>6. FilteredSchedule(s) = q
  BY DEF FilteredSchedule
<1>8. \A b \in Burst : From(b) = s => b \in S
  OBVIOUS
<1> HIDE DEF S, R, q
<1>7. /\ q \in [1 .. Cardinality(S) -> S]
      /\ \A x \in S : \E k \in 1 .. Cardinality(S) : q[k] = x
      /\ \A k, l \in 1 .. Cardinality(S) : k < l => <<q[k], q[l]>> \in R
  BY <1>2, <1>5, InOrderSorts DEF q
<1>9. Len(q) = Cardinality(S) /\ q \in Seq(Burst)
  BY <1>2, <1>4, <1>7
<1> QED BY <1>3, <1>4, <1>6, <1>7, <1>8, <1>9

LEMMA IncomingFacts ==
  ASSUME schedule \in Schedules, assignment \in Assignments, NEW s \in System
  PROVE  /\ IncomingInSetupOrder(s) \in Seq(Burst)
         /\ \A x \in 1 .. Len(IncomingInSetupOrder(s)) :
              IncomingInSetupOrder(s)[x] \in Burst /\ To(IncomingInSetupOrder(s)[x]) = s
         /\ \A b \in Burst : To(b) = s =>
              \E x \in 1 .. Len(IncomingInSetupOrder(s)) : IncomingInSetupOrder(s)[x] = b
         /\ \A x, y \in 1 .. Len(IncomingInSetupOrder(s)) :
              IncomingInSetupOrder(s)[x] = IncomingInSetupOrder(s)[y] => x = y
<1> DEFINE S == {b \in Burst : To(b) = s}
           R == ByEndpoint
           q == InOrder(S, R)
<1>1. IsFiniteSet(Burst) /\ Burst \subseteq Nat /\ \A b \in Burst : schedule[b].to \in Nat
  BY Inputs
<1>2. IsFiniteSet(S) /\ Cardinality(S) \in Nat
  BY <1>1, FS_Subset, FS_CardinalityType
<1>3. \A x, y \in S : <<x, y>> \in R <=>
        \/ schedule[x].to < schedule[y].to
        \/ schedule[x].to = schedule[y].to /\ x < y
  BY DEF ByEndpoint
<1>4. \A x \in S : x \in Nat /\ schedule[x].to \in Nat /\ x \in Burst /\ To(x) = s
  BY <1>1
<1>5. IsStrictOrder(S, R)
  <2> HIDE DEF S, R
  <2> QED BY <1>3, <1>4 DEF IsStrictOrder
<1>6. IncomingInSetupOrder(s) = q
  BY DEF IncomingInSetupOrder
<1>8. \A b \in Burst : To(b) = s => b \in S
  OBVIOUS
<1> HIDE DEF S, R, q
<1>7. /\ q \in [1 .. Cardinality(S) -> S]
      /\ \A x \in S : \E k \in 1 .. Cardinality(S) : q[k] = x
      /\ \A k, l \in 1 .. Cardinality(S) : k < l => <<q[k], q[l]>> \in R
  BY <1>2, <1>5, InOrderSorts DEF q
<1>9. Len(q) = Cardinality(S) /\ q \in Seq(Burst)
  BY <1>2, <1>4, <1>7
<1>10. ASSUME NEW x \in 1 .. Len(q), NEW y \in 1 .. Len(q), q[x] = q[y] PROVE x = y
  <2>1. SUFFICES ASSUME x # y PROVE FALSE
    OBVIOUS
  <2>2. x < y \/ y < x
    BY <1>2, <1>9, <2>1
  <2>3. <<q[x], q[x]>> \in R /\ q[x] \in S
    BY <1>7, <1>9, <1>10, <2>2
  <2> QED BY <1>5, <2>3 DEF IsStrictOrder
<1> QED BY <1>4, <1>6, <1>7, <1>8, <1>9, <1>10

\* The sort of WriteResults keeps all entries and puts them in order.
LEMMA SortedIds ==
  ASSUME NEW T \in SUBSET Nat, NEW ids \in Seq(T),
         \A x, y \in 1 .. Len(ids) : ids[x] = ids[y] => x = y
  PROVE  /\ AscendingIds(ids) \in [1 .. Len(ids) -> T]
         /\ \A x \in 1 .. Len(ids) : \E y \in 1 .. Len(ids) : AscendingIds(ids)[x] = ids[y]
         /\ \A y \in 1 .. Len(ids) : \E x \in 1 .. Len(ids) : AscendingIds(ids)[x] = ids[y]
         /\ \A x, y \in 1 .. Len(ids) : x < y => AscendingIds(ids)[x] < AscendingIds(ids)[y]
<1> DEFINE S == DOMAIN ids
           R == {p \in S \X S : ids[p[1]] < ids[p[2]] \/ (ids[p[1]] = ids[p[2]] /\ p[1] < p[2])}
           q == InOrder(S, R)
           n == Len(ids)
<1>4. AscendingIds(ids) = [r \in S |-> ids[q[r]]]
  BY DEF AscendingIds
<1>0. DOMAIN ids = 1 .. Len(ids) /\ Len(ids) \in Nat /\ \A x \in 1 .. Len(ids) : ids[x] \in T
  OBVIOUS
<1>a. S = 1 .. n
  BY <1>0
<1> HIDE DEF S
<1>3. \A x, y \in S : <<x, y>> \in R <=> ids[x] < ids[y] \/ (ids[x] = ids[y] /\ x < y)
  OBVIOUS
<1> HIDE DEF R, q
<1>1. S = 1 .. n /\ n \in Nat /\ \A x \in S : ids[x] \in Nat /\ ids[x] \in T
  BY <1>0, <1>a
<1> HIDE DEF n
<1>2. IsFiniteSet(S) /\ Cardinality(S) = n
  <2>1. Cardinality(1 .. n) = IF 1 > n THEN 0 ELSE n - 1 + 1
    BY <1>1, FS_Interval
  <2>2. IsFiniteSet(1 .. n)
    BY <1>1, FS_Interval
  <2> QED BY <1>1, <2>1, <2>2
<1>b. \A x \in S : x \in Int /\ ids[x] \in Int
  BY <1>1
<1>5. IsStrictOrder(S, R)
  <2>1. \A x \in S : <<x, x>> \notin R
    BY <1>3, <1>b
  <2>2. ASSUME NEW x \in S, NEW y \in S, NEW z \in S, <<x, y>> \in R, <<y, z>> \in R
        PROVE  <<x, z>> \in R
    <3>1. /\ ids[x] < ids[y] \/ (ids[x] = ids[y] /\ x < y)
          /\ ids[y] < ids[z] \/ (ids[y] = ids[z] /\ y < z)
      BY <1>3, <2>2
    <3>2. ids[x] < ids[z] \/ (ids[x] = ids[z] /\ x < z)
      BY <1>b, <3>1
    <3> QED BY <1>3, <3>2
  <2>3. ASSUME NEW x \in S, NEW y \in S
        PROVE  x = y \/ <<x, y>> \in R \/ <<y, x>> \in R
    <3>1. x = y \/ ids[x] < ids[y] \/ ids[y] < ids[x]
          \/ (ids[x] = ids[y] /\ (x < y \/ y < x))
      BY <1>b
    <3> QED BY <1>3, <3>1
  <2> QED BY <2>1, <2>2, <2>3 DEF IsStrictOrder
<1>6. /\ q \in [S -> S]
      /\ \A x \in S : \E k \in S : q[k] = x
      /\ \A k, l \in S : k < l => <<q[k], q[l]>> \in R
  <2>1. /\ q \in [1 .. Cardinality(S) -> S]
        /\ \A x \in S : \E k \in 1 .. Cardinality(S) : q[k] = x
        /\ \A k, l \in 1 .. Cardinality(S) : k < l => <<q[k], q[l]>> \in R
    BY <1>2, <1>5, InOrderSorts DEF q
  <2>2. 1 .. Cardinality(S) = S
    BY <1>1, <1>2
  <2> QED BY <2>1, <2>2
<1>7. \A r \in S : AscendingIds(ids)[r] = ids[q[r]] /\ q[r] \in S
  BY <1>4, <1>6
<1>8. AscendingIds(ids) \in [S -> T]
  <2>1. \A r \in S : ids[q[r]] \in T
    BY <1>1, <1>7
  <2> QED BY <1>4, <2>1
<1>9. ASSUME NEW x \in S, NEW y \in S, x < y
      PROVE  AscendingIds(ids)[x] < AscendingIds(ids)[y]
  <2>1. <<q[x], q[y]>> \in R /\ q[x] \in S /\ q[y] \in S
    BY <1>6, <1>9
  <2>2. q[x] # q[y]
    BY <1>5, <2>1 DEF IsStrictOrder
  <2>3. ids[q[x]] # ids[q[y]]
    BY <1>a, <2>1, <2>2 DEF n
  <2>4. ids[q[x]] < ids[q[y]]
    BY <1>3, <2>1, <2>3
  <2>5. AscendingIds(ids)[x] = ids[q[x]] /\ AscendingIds(ids)[y] = ids[q[y]]
    BY <1>7
  <2> QED BY <2>4, <2>5
<1>10. \A x \in S : \E y \in S : AscendingIds(ids)[x] = ids[y]
  BY <1>7
<1>11. \A y \in S : \E x \in S : AscendingIds(ids)[x] = ids[y]
  BY <1>6, <1>7
<1>12. S = 1 .. Len(ids)
  BY <1>a DEF n
<1> QED BY <1>8, <1>9, <1>10, <1>11, <1>12

\* The gap is the time of a packet at the target rate, rounded up.
LEMMA Gap ==
  ASSUME NEW a \in Nat \ {0}, NEW r \in Nat \ {0}
  PROVE  LET g == (a + r - 1) \div r
         IN g \in Nat \ {0} /\ g * r >= a /\ (g - 1) * r < a
<1> DEFINE g == (a + r - 1) \div r
<1>1. g \in Int /\ g * r <= a + r - 1 /\ a + r - 1 < g * r + r
  OBVIOUS
<1>2. g >= 1
  OBVIOUS
<1>3. (g - 1) * r = g * r - r
  BY <1>1
<1> HIDE DEF g
<1>4. g \in Nat \ {0} /\ g * r >= a /\ (g - 1) * r < a
  BY <1>1, <1>2, <1>3
<1> QED BY <1>4 DEF g

----------------------------------------------------------------------------
(* The inductive invariant *)

Out(s) == m_responsible_for_outgoing_bursts[s]
In(s) == m_responsible_for_incoming_bursts[s]

HasStarted(b) == \E x \in DOMAIN Out(From(b)) : Out(From(b))[x] = b

\* When packet number m of a burst is sent.
SendTime(b, m) == schedule[b].start + m * PacketGap(b)

StartEvent(b) == <<schedule[b].start, "StartApplication", b>>
SendEvent(b) == <<SendTime(b, m_sent[b]), "Send", b>>

\* No burst is from a number that has no system.
Accepted == \A b \in Burst : From(b) \in System

\* The first bursts of a system have started, and the next one is due.
ChainInv(s) ==
  LET next == Len(Out(s)) + 1
  IN /\ next <= Len(FilteredSchedule(s)) + 1
     /\ \A x \in 1 .. Len(Out(s)) : Out(s)[x] = FilteredSchedule(s)[x]
     /\ next <= Len(FilteredSchedule(s)) =>
          <<StartOf(s, next), "StartNextUdpBurst", next>> \in queue[s]

NextStartEvent(s) ==
  <<StartOf(s, Len(Out(s)) + 1), "StartNextUdpBurst", Len(Out(s)) + 1>>

\* A burst that has started waits for its application or for its next packet.
IsBurstEvent(b, ev) ==
  /\ HasStarted(b)
  /\ \/ ev = StartEvent(b) /\ m_sent[b] = 0 /\ SendEvent(b) \notin queue[From(b)]
     \/ ev = SendEvent(b) /\ (m_sent[b] > 0 => GoesOn(b, SendTime(b, m_sent[b])))

\* What an event can be.
EventInv(s) ==
  \A ev \in queue[s] :
    \/ Len(Out(s)) < Len(FilteredSchedule(s)) /\ ev = NextStartEvent(s)
    \/ \E b \in Burst : From(b) = s /\ IsBurstEvent(b, ev)

ClientInv(b) ==
  /\ m_sent[b] > 0 => HasStarted(b)
  /\ HasStarted(b) /\ m_sent[b] = 0 =>
       StartEvent(b) \in queue[From(b)] \/ SendEvent(b) \in queue[From(b)]
  /\ outgoing[b] = [m \in 1 .. m_sent[b] |-> <<m - 1, SendTime(b, m - 1)>>]
  /\ \A m \in 1 .. m_sent[b] - 1 : GoesOn(b, SendTime(b, m))

PacketInv ==
  \A p \in wire :
    /\ p[2] < m_sent[p[1]] /\ p[3] = SendTime(p[1], p[2])
    /\ \A m \in DOMAIN incoming[p[1]] : incoming[p[1]][m][1] # p[2]

ServerInv(b) ==
  /\ schedule[b].to \in Endpoints => counter[schedule[b].to][b] = Len(incoming[b])
  /\ \A m \in 1 .. Len(incoming[b]) :
       /\ incoming[b][m][1] < m_sent[b]
       /\ SendTime(b, incoming[b][m][1]) + LinkDelay <= incoming[b][m][2]
  /\ \A m, l \in 1 .. Len(incoming[b]) :
       incoming[b][m][1] = incoming[b][l][1] => m = l

\* A socket belongs to a burst whose application has started.
SocketInv(b) ==
  b \in m_socket =>
    /\ HasStarted(b) /\ StartEvent(b) \notin queue[From(b)]
    /\ schedule[b].start <= clock[From(b)]

ResultsInv(s) ==
  Written(s) =>
    /\ clock[s] = EndTime
    /\ results[s] = [outgoing |-> OutgoingRows(AscendingIds(Out(s))),
                     incoming |-> IncomingRows(AscendingIds(In(s)))]

BurstInv ==
  /\ TypeOK /\ Accepted
  /\ OnlyScheduleAborts
  /\ \A s \in System : ChainInv(s) /\ EventInv(s) /\ ResultsInv(s)
                       /\ In(s) = IncomingInSetupOrder(s)
  /\ \A b \in Burst : ClientInv(b) /\ ServerInv(b) /\ SocketInv(b)
  /\ PacketInv

----------------------------------------------------------------------------
(* Facts about the parts of the state *)

\* The schedule and the assignment never change, nor what derives from them.
LEMMA ConstantInputs ==
  ASSUME UNCHANGED inputs
  PROVE  /\ schedule' = schedule /\ assignment' = assignment /\ Burst' = Burst
         /\ \A s : /\ FilteredSchedule(s)' = FilteredSchedule(s)
                   /\ IncomingInSetupOrder(s)' = IncomingInSetupOrder(s)
                   /\ \A x : StartOf(s, x)' = StartOf(s, x)
         /\ \A b : /\ From(b)' = From(b) /\ To(b)' = To(b)
                   /\ StartEvent(b)' = StartEvent(b)
                   /\ \A t : GoesOn(b, t)' = GoesOn(b, t)
                   /\ \A m : SendTime(b, m)' = SendTime(b, m)
         /\ \A e : Registered(e)' = Registered(e)
<1>1. schedule' = schedule /\ assignment' = assignment /\ Burst' = Burst
  BY DEF inputs, Burst
<1>2. \A b : From(b)' = From(b) /\ To(b)' = To(b) /\ PacketGap(b)' = PacketGap(b)
             /\ StartEvent(b)' = StartEvent(b)
  BY <1>1 DEF From, To, PacketGap, StartEvent
<1>3. ASSUME NEW s
      PROVE  FilteredSchedule(s)' = FilteredSchedule(s)
             /\ IncomingInSetupOrder(s)' = IncomingInSetupOrder(s)
  <2>1. {b \in Burst : From(b) = s}' = {b \in Burst : From(b) = s}
        /\ {b \in Burst : To(b) = s}' = {b \in Burst : To(b) = s}
    BY <1>1, <1>2
  <2>2. Ascending(Burst)' = Ascending(Burst) /\ ByEndpoint' = ByEndpoint
    BY <1>1 DEF Ascending, ByEndpoint
  <2> QED BY <2>1, <2>2 DEF FilteredSchedule, IncomingInSetupOrder
<1>4. \A s, x : StartOf(s, x)' = StartOf(s, x)
  BY <1>1, <1>3 DEF StartOf
<1>5. \A b, t : GoesOn(b, t)' = GoesOn(b, t)
  BY <1>1 DEF GoesOn
<1>6. \A b, m : SendTime(b, m)' = SendTime(b, m)
  BY <1>1, <1>2 DEF SendTime
<1>7. \A e : Registered(e)' = Registered(e)
  BY <1>1 DEF Registered
<1> QED BY <1>1, <1>2, <1>3, <1>4, <1>5, <1>6, <1>7

LEMMA GapOf ==
  ASSUME schedule \in Schedules, assignment \in Assignments, NEW b \in Burst
  PROVE  /\ PacketGap(b) \in Nat \ {0}
         /\ PacketGap(b) * schedule[b].rate >= SegmentTime
         /\ (PacketGap(b) - 1) * schedule[b].rate < SegmentTime
BY Inputs, TimesAssumption, Gap DEF PacketGap

\* Packets follow each other in steps of the gap, the first one at the start.
LEMMA SendTimes ==
  ASSUME schedule \in Schedules, assignment \in Assignments, NEW b \in Burst
  PROVE  /\ SendTime(b, 0) = schedule[b].start
         /\ \A m \in Nat : /\ SendTime(b, m) \in Nat
                           /\ SendTime(b, m + 1) = SendTime(b, m) + PacketGap(b)
                           /\ schedule[b].start <= SendTime(b, m)
<1>1. PacketGap(b) \in Nat /\ schedule[b].start \in 0 .. EndTime - 1 /\ EndTime \in Nat
  BY Inputs, GapOf, TimesAssumption
<1>2. 0 * PacketGap(b) = 0
  BY <1>1
<1>3. ASSUME NEW m \in Nat
      PROVE  m * PacketGap(b) \in Nat /\ (m + 1) * PacketGap(b) = m * PacketGap(b) + PacketGap(b)
  BY <1>1
<1>4. SendTime(b, 0) = schedule[b].start
  BY <1>1, <1>2 DEF SendTime
<1>5. ASSUME NEW m \in Nat
      PROVE  /\ SendTime(b, m) \in Nat
             /\ SendTime(b, m + 1) = SendTime(b, m) + PacketGap(b)
             /\ schedule[b].start <= SendTime(b, m)
  <2> DEFINE g == PacketGap(b)
             t == schedule[b].start
             p == m * g
             q == (m + 1) * g
  <2>0. g \in Nat /\ t \in Nat
    BY <1>1
  <2>1. p \in Nat /\ q = p + g
    BY <1>3
  <2>2. SendTime(b, m) = t + p /\ SendTime(b, m + 1) = t + q
    BY DEF SendTime
  <2> HIDE DEF g, t, p, q
  <2>3. SendTime(b, m) \in Nat /\ SendTime(b, m + 1) = SendTime(b, m) + g
        /\ t <= SendTime(b, m)
    BY <2>0, <2>1, <2>2
  <2> QED BY <2>3 DEF g, t
<1> QED BY <1>4, <1>5

LEMMA Types ==
  ASSUME TypeOK, Accepted
  PROVE  /\ schedule \in Schedules /\ assignment \in Assignments
         /\ Burst \subseteq Nat
         /\ \A b \in Burst : From(b) \in System
         /\ \A b \in Burst : To(b) \in System => schedule[b].to \in Endpoints
         /\ \A b \in Burst : m_sent[b] \in Nat
         /\ \A b \in Burst : outgoing[b] \in Lines /\ incoming[b] \in Lines
         /\ \A b \in Burst : b \in Registered(schedule[b].to)
         /\ \A b \in Burst : schedule[b].to \in Endpoints => counter[schedule[b].to][b] \in Nat
         /\ \A s \in System : clock[s] \in 0 .. EndTime /\ Out(s) \in Seq(Burst)
<1>1. schedule \in Schedules /\ assignment \in Assignments
  BY DEF TypeOK
<1>2. \A b \in Burst : From(b) \in System
  BY DEF Accepted
<1>3. \A b \in Burst : To(b) \in System => schedule[b].to \in Endpoints
  BY EndpointsAssumption DEF To
<1>4. \A b \in Burst : b \in Registered(schedule[b].to)
  BY DEF Registered
<1>5. \A b \in Burst : schedule[b].to \in Endpoints => counter[schedule[b].to][b] \in Nat
  BY <1>4 DEF TypeOK
<1>6. Burst \subseteq Nat
  BY <1>1, Inputs
<1> QED BY <1>1, <1>2, <1>3, <1>4, <1>5, <1>6 DEF TypeOK, Out

LEMMA OutFacts ==
  ASSUME BurstInv, NEW s \in System
  PROVE  /\ Out(s) \in Seq(Burst)
         /\ \A x \in 1 .. Len(Out(s)) : Out(s)[x] \in Burst /\ From(Out(s)[x]) = s
         /\ \A x, y \in 1 .. Len(Out(s)) : x < y => Out(s)[x] < Out(s)[y]
<1>1. Out(s) \in Seq(Burst) /\ schedule \in Schedules /\ assignment \in Assignments
  BY DEF BurstInv, TypeOK, Out
<1>2. /\ Len(Out(s)) <= Len(FilteredSchedule(s))
      /\ \A x \in 1 .. Len(Out(s)) : Out(s)[x] = FilteredSchedule(s)[x]
  <2>1. ChainInv(s)
    BY DEF BurstInv
  <2>2. Len(Out(s)) \in Nat /\ Len(FilteredSchedule(s)) \in Nat
    BY <1>1, FilteredFacts
  <2> QED BY <2>1, <2>2 DEF ChainInv
<1>3. \A x \in 1 .. Len(Out(s)) : x \in 1 .. Len(FilteredSchedule(s))
  BY <1>1, <1>2, FilteredFacts
<1> QED BY <1>1, <1>2, <1>3, FilteredFacts

LEMMA InFacts ==
  ASSUME BurstInv, NEW s \in System
  PROVE  /\ In(s) \in Seq(Burst)
         /\ \A x \in 1 .. Len(In(s)) : In(s)[x] \in Burst /\ To(In(s)[x]) = s
         /\ \A b \in Burst : To(b) = s => \E x \in 1 .. Len(In(s)) : In(s)[x] = b
         /\ \A x, y \in 1 .. Len(In(s)) : In(s)[x] = In(s)[y] => x = y
<1>1. In(s) = IncomingInSetupOrder(s) /\ schedule \in Schedules /\ assignment \in Assignments
  BY DEF BurstInv, TypeOK
<1> QED BY <1>1, IncomingFacts

\* The identifiers of the rows of the two files.
LEMMA OutgoingIds ==
  ASSUME BurstInv, NEW s \in System
  PROVE  /\ DOMAIN AscendingIds(Out(s)) = 1 .. Len(Out(s))
         /\ \A x \in 1 .. Len(Out(s)) :
              LET b == AscendingIds(Out(s))[x] IN b \in Burst /\ From(b) = s /\ HasStarted(b)
         /\ \A b \in Burst : From(b) = s /\ HasStarted(b) =>
              \E x \in 1 .. Len(Out(s)) : AscendingIds(Out(s))[x] = b
         /\ \A x, y \in 1 .. Len(Out(s)) :
              x < y => AscendingIds(Out(s))[x] < AscendingIds(Out(s))[y]
<1> DEFINE ids == Out(s)
<1>1. /\ ids \in Seq(Burst)
      /\ \A x \in 1 .. Len(ids) : ids[x] \in Burst /\ From(ids[x]) = s
      /\ \A x, y \in 1 .. Len(ids) : x < y => ids[x] < ids[y]
  BY OutFacts
<1>2. Burst \in SUBSET Nat
  BY Types DEF BurstInv
<1>h. \A b \in Burst : From(b) = s => (HasStarted(b) <=> \E x \in DOMAIN ids : ids[x] = b)
  BY DEF HasStarted
<1> HIDE DEF ids
<1>3. Len(ids) \in Nat /\ DOMAIN ids = 1 .. Len(ids)
  BY <1>1
<1>4. ASSUME NEW x \in 1 .. Len(ids), NEW y \in 1 .. Len(ids), ids[x] = ids[y]
      PROVE  x = y
  <2>1. ids[x] \in Nat /\ ids[y] \in Nat
    BY <1>1, <1>2
  <2>2. ~(x < y) /\ ~(y < x)
    BY <1>1, <1>4, <2>1
  <2> QED BY <1>3, <2>2
<1>5. /\ AscendingIds(ids) \in [1 .. Len(ids) -> Burst]
      /\ \A x \in 1 .. Len(ids) : \E y \in 1 .. Len(ids) : AscendingIds(ids)[x] = ids[y]
      /\ \A y \in 1 .. Len(ids) : \E x \in 1 .. Len(ids) : AscendingIds(ids)[x] = ids[y]
      /\ \A x, y \in 1 .. Len(ids) : x < y => AscendingIds(ids)[x] < AscendingIds(ids)[y]
  BY <1>1, <1>2, <1>4, SortedIds
<1>6. ASSUME NEW x \in 1 .. Len(ids)
      PROVE  AscendingIds(ids)[x] \in Burst /\ From(AscendingIds(ids)[x]) = s
             /\ HasStarted(AscendingIds(ids)[x])
  <2>1. PICK y \in 1 .. Len(ids) : AscendingIds(ids)[x] = ids[y]
    BY <1>5
  <2> QED BY <1>1, <1>3, <1>h, <2>1
<1>7. ASSUME NEW b \in Burst, From(b) = s, HasStarted(b)
      PROVE  \E x \in 1 .. Len(ids) : AscendingIds(ids)[x] = b
  <2>1. PICK y \in 1 .. Len(ids) : ids[y] = b
    BY <1>3, <1>7, <1>h
  <2> QED BY <1>5, <2>1
<1> QED BY <1>5, <1>6, <1>7 DEF ids

LEMMA IncomingIds ==
  ASSUME BurstInv, NEW s \in System
  PROVE  /\ DOMAIN AscendingIds(In(s)) = 1 .. Len(In(s))
         /\ \A x \in 1 .. Len(In(s)) :
              LET b == AscendingIds(In(s))[x] IN b \in Burst /\ To(b) = s
         /\ \A b \in Burst : To(b) = s =>
              \E x \in 1 .. Len(In(s)) : AscendingIds(In(s))[x] = b
         /\ \A x, y \in 1 .. Len(In(s)) :
              x < y => AscendingIds(In(s))[x] < AscendingIds(In(s))[y]
<1> DEFINE ids == In(s)
<1>1. /\ ids \in Seq(Burst)
      /\ \A x \in 1 .. Len(ids) : ids[x] \in Burst /\ To(ids[x]) = s
      /\ \A b \in Burst : To(b) = s => \E x \in 1 .. Len(ids) : ids[x] = b
      /\ \A x, y \in 1 .. Len(ids) : ids[x] = ids[y] => x = y
  BY InFacts
<1>2. Burst \in SUBSET Nat
  BY Types DEF BurstInv
<1> HIDE DEF ids
<1>5. /\ AscendingIds(ids) \in [1 .. Len(ids) -> Burst]
      /\ \A x \in 1 .. Len(ids) : \E y \in 1 .. Len(ids) : AscendingIds(ids)[x] = ids[y]
      /\ \A y \in 1 .. Len(ids) : \E x \in 1 .. Len(ids) : AscendingIds(ids)[x] = ids[y]
      /\ \A x, y \in 1 .. Len(ids) : x < y => AscendingIds(ids)[x] < AscendingIds(ids)[y]
  BY <1>1, <1>2, SortedIds
<1>6. ASSUME NEW x \in 1 .. Len(ids)
      PROVE  AscendingIds(ids)[x] \in Burst /\ To(AscendingIds(ids)[x]) = s
  <2>1. PICK y \in 1 .. Len(ids) : AscendingIds(ids)[x] = ids[y]
    BY <1>5
  <2> QED BY <1>1, <2>1
<1>7. ASSUME NEW b \in Burst, To(b) = s
      PROVE  \E x \in 1 .. Len(ids) : AscendingIds(ids)[x] = b
  <2>1. PICK y \in 1 .. Len(ids) : ids[y] = b
    BY <1>1, <1>7
  <2> QED BY <1>5, <2>1
<1> QED BY <1>5, <1>6, <1>7 DEF ids

----------------------------------------------------------------------------
(* What a step leaves alone *)

LEMMA BurstStays ==
  ASSUME NEW b \in Burst, UNCHANGED inputs, m_sent'[b] = m_sent[b]
  PROVE  /\ StartEvent(b)' = StartEvent(b) /\ SendEvent(b)' = SendEvent(b)
         /\ GoesOn(b, SendTime(b, m_sent[b]))' <=> GoesOn(b, SendTime(b, m_sent[b]))
<1>1. StartEvent(b)' = StartEvent(b) /\ \A m : SendTime(b, m)' = SendTime(b, m)
      /\ schedule' = schedule
  BY ConstantInputs
<1>2. SendEvent(b)' = SendEvent(b)
  BY <1>1 DEF SendEvent, SendTime
<1>3. GoesOn(b, SendTime(b, m_sent[b]))' <=> GoesOn(b, SendTime(b, m_sent[b]))
  BY <1>1 DEF GoesOn, SendTime
<1> QED BY <1>1, <1>2, <1>3

\* An event of a burst remains one, whatever else the system does.
LEMMA BurstEventStays ==
  ASSUME NEW b \in Burst, NEW ev, UNCHANGED inputs, m_sent'[b] = m_sent[b],
         HasStarted(b) => HasStarted(b)', IsBurstEvent(b, ev),
         SendEvent(b) \in queue'[From(b)] => SendEvent(b) \in queue[From(b)]
  PROVE  IsBurstEvent(b, ev)'
<1>1. From(b)' = From(b)
  BY ConstantInputs
<1>2. /\ StartEvent(b)' = StartEvent(b) /\ SendEvent(b)' = SendEvent(b)
      /\ GoesOn(b, SendTime(b, m_sent[b]))' <=> GoesOn(b, SendTime(b, m_sent[b]))
  BY BurstStays
<1> QED BY <1>1, <1>2 DEF IsBurstEvent

LEMMA QueueStays ==
  ASSUME BurstInv, NEW s \in System, UNCHANGED inputs,
         queue'[s] = queue[s], Out(s)' = Out(s),
         \A b \in Burst : From(b) = s => m_sent'[b] = m_sent[b]
  PROVE  ChainInv(s)' /\ EventInv(s)'
<1>1. ChainInv(s) /\ EventInv(s)
  BY DEF BurstInv
<1>2. ChainInv(s)'
  BY <1>1, ConstantInputs DEF ChainInv
<1>3. NextStartEvent(s)' = NextStartEvent(s)
  BY ConstantInputs DEF NextStartEvent
<1>4. ASSUME NEW b \in Burst, NEW ev, From(b) = s, IsBurstEvent(b, ev)
      PROVE  b \in Burst' /\ From(b)' = s /\ IsBurstEvent(b, ev)'
  <2>1. b \in Burst' /\ From(b)' = s
    BY <1>4, ConstantInputs
  <2>2. HasStarted(b)' <=> HasStarted(b)
    BY <1>4, <2>1 DEF HasStarted, Out
  <2> QED BY <1>4, <2>1, <2>2, BurstEventStays
<1>5. Len(Out(s))' = Len(Out(s)) /\ Len(FilteredSchedule(s))' = Len(FilteredSchedule(s))
  BY ConstantInputs
<1>6. EventInv(s)'
  BY <1>1, <1>3, <1>4, <1>5 DEF EventInv
<1> QED BY <1>2, <1>6

LEMMA ClientStays ==
  ASSUME BurstInv, NEW b \in Burst, UNCHANGED inputs,
         queue'[From(b)] = queue[From(b)],
         m_responsible_for_outgoing_bursts'[From(b)] = Out(From(b)),
         m_sent'[b] = m_sent[b], outgoing'[b] = outgoing[b]
  PROVE  ClientInv(b)'
<1>1. ClientInv(b)
  BY DEF BurstInv
<1>2. From(b)' = From(b) /\ StartEvent(b)' = StartEvent(b)
      /\ \A m : SendTime(b, m)' = SendTime(b, m) /\ GoesOn(b, m)' = GoesOn(b, m)
  BY ConstantInputs
<1>3. SendEvent(b)' = SendEvent(b)
  BY <1>2 DEF SendEvent, SendTime
<1>4. HasStarted(b)' <=> HasStarted(b)
  BY <1>2 DEF HasStarted, Out
<1>5. (\A m \in 1 .. m_sent[b] - 1 : GoesOn(b, SendTime(b, m)))'
  <2>1. \A m : GoesOn(b, SendTime(b, m))' <=> GoesOn(b, SendTime(b, m))
    BY <1>2, ConstantInputs DEF GoesOn
  <2> QED BY <1>1, <2>1 DEF ClientInv
<1> QED BY <1>1, <1>2, <1>3, <1>4, <1>5 DEF ClientInv

LEMMA ServerStays ==
  ASSUME BurstInv, NEW b \in Burst, UNCHANGED inputs,
         schedule[b].to \in Endpoints =>
           counter'[schedule[b].to][b] = counter[schedule[b].to][b],
         incoming'[b] = incoming[b],
         m_sent'[b] \in Nat, m_sent[b] <= m_sent'[b]
  PROVE  ServerInv(b)'
<1>1. ServerInv(b)
  BY DEF BurstInv
<1>2. schedule' = schedule /\ \A m : SendTime(b, m)' = SendTime(b, m)
  BY ConstantInputs
<1>3. incoming[b] \in Lines /\ m_sent[b] \in Nat
  BY Types DEF BurstInv
<1>4. \A m \in 1 .. Len(incoming[b]) : incoming[b][m][1] \in Nat
  BY <1>3 DEF Lines
<1> QED BY <1>1, <1>2, <1>3, <1>4 DEF ServerInv

\* A socket remains that of a burst that has started.
LEMMA SocketStays ==
  ASSUME BurstInv, NEW b \in Burst, UNCHANGED inputs,
         b \in m_socket' => b \in m_socket,
         HasStarted(b) => HasStarted(b)',
         StartEvent(b) \in queue'[From(b)] => StartEvent(b) \in queue[From(b)],
         clock'[From(b)] \in Nat, clock[From(b)] <= clock'[From(b)]
  PROVE  SocketInv(b)'
<1>1. SocketInv(b)
  BY DEF BurstInv
<1>2. From(b)' = From(b) /\ StartEvent(b)' = StartEvent(b) /\ schedule' = schedule
  BY ConstantInputs
<1>3. schedule[b].start \in Nat /\ clock[From(b)] \in Nat
  <2>1. From(b) \in System /\ schedule \in Schedules /\ assignment \in Assignments
    BY Types DEF BurstInv
  <2>2. clock[From(b)] \in 0 .. EndTime /\ EndTime \in Nat
    BY <2>1, Types, TimesAssumption DEF BurstInv
  <2>3. schedule[b].start \in 0 .. EndTime - 1
    BY <2>1, Inputs
  <2> QED BY <2>2, <2>3
<1>4. schedule[b].start <= clock[From(b)] => schedule[b].start <= clock'[From(b)]
  BY <1>3
<1> QED BY <1>1, <1>2, <1>4 DEF SocketInv

LEMMA SocketsStay ==
  ASSUME BurstInv, UNCHANGED <<inputs, queue, m_responsible_for_outgoing_bursts, m_socket>>,
         \A s \in System : clock'[s] \in Nat /\ clock[s] <= clock'[s]
  PROVE  \A b \in Burst : SocketInv(b)'
<1> SUFFICES ASSUME NEW b \in Burst PROVE SocketInv(b)'
  OBVIOUS
<1>1. From(b) \in System
  BY Types DEF BurstInv
<1>2. HasStarted(b)' <=> HasStarted(b)
  <2>1. From(b)' = From(b)
    BY ConstantInputs
  <2> QED BY <2>1 DEF HasStarted, Out
<1> QED BY <1>1, <1>2, SocketStays

\* The same when the clocks stand still.
LEMMA SocketsRemain ==
  ASSUME BurstInv, UNCHANGED <<inputs, clock, queue, m_responsible_for_outgoing_bursts, m_socket>>
  PROVE  \A b \in Burst : SocketInv(b)'
<1>1. \A s \in System : clock[s] \in Nat
  BY Types, TimesAssumption DEF BurstInv
<1>2. \A s \in System : clock'[s] \in Nat /\ clock[s] <= clock'[s]
  BY <1>1
<1> QED BY <1>2, SocketsStay

\* A run that goes on has not been aborted.
LEMMA GoesOnSound ==
  ASSUME Accepted, ~crashed, UNCHANGED <<inputs, crashed>>
  PROVE  Accepted' /\ OnlyScheduleAborts'
<1>1. Burst' = Burst /\ \A b : From(b)' = From(b)
  BY ConstantInputs
<1> QED BY <1>1 DEF Accepted, OnlyScheduleAborts

LEMMA ResultsStay ==
  ASSUME BurstInv, NEW s \in System, UNCHANGED inputs, results'[s] = results[s],
         Written(s) =>
           /\ clock'[s] = clock[s] /\ Out(s)' = Out(s) /\ In(s)' = In(s)
           /\ \A b \in Burst : From(b) = s => m_sent'[b] = m_sent[b]
           /\ \A b \in Burst : To(b) = s =>
                counter'[schedule[b].to][b] = counter[schedule[b].to][b]
  PROVE  ResultsInv(s)'
<1>1. SUFFICES ASSUME Written(s) PROVE ResultsInv(s)'
  BY DEF ResultsInv, Written
<1>2. ResultsInv(s) /\ Burst \subseteq Nat
  BY Types DEF BurstInv
<1>3. schedule' = schedule
  BY ConstantInputs
<1>4. OutgoingRows(AscendingIds(Out(s)))' = OutgoingRows(AscendingIds(Out(s)))
  <2> DEFINE ids == AscendingIds(Out(s))
  <2>2. \A x \in DOMAIN ids : ids[x] \in Burst /\ From(ids[x]) = s
    BY OutgoingIds
  <2>3. ids' = ids
    BY <1>1
  <2>4. \A x \in DOMAIN ids : m_sent'[ids[x]] = m_sent[ids[x]]
    BY <1>1, <2>2
  <2>5. OutgoingRows(ids) = [x \in DOMAIN ids |-> <<ids[x], m_sent[ids[x]]>>]
    BY DEF OutgoingRows
  <2>6. OutgoingRows(ids)' = [x \in DOMAIN ids |-> <<ids[x], m_sent'[ids[x]]>>]
    BY <2>3 DEF OutgoingRows
  <2> HIDE DEF ids
  <2>7. OutgoingRows(ids)' = OutgoingRows(ids)
    BY <2>4, <2>5, <2>6
  <2> QED BY <2>7 DEF ids
<1>5. IncomingRows(AscendingIds(In(s)))' = IncomingRows(AscendingIds(In(s)))
  <2> DEFINE ids == AscendingIds(In(s))
  <2>2. \A x \in DOMAIN ids : ids[x] \in Burst /\ To(ids[x]) = s
    BY IncomingIds
  <2>3. ids' = ids
    BY <1>1
  <2>4. \A x \in DOMAIN ids : counter'[schedule[ids[x]].to][ids[x]]
                                = counter[schedule[ids[x]].to][ids[x]]
    BY <1>1, <2>2
  <2>5. IncomingRows(ids) =
          [x \in DOMAIN ids |-> <<ids[x], counter[schedule[ids[x]].to][ids[x]]>>]
    BY DEF IncomingRows
  <2>6. IncomingRows(ids)' =
          [x \in DOMAIN ids |-> <<ids[x], counter'[schedule[ids[x]].to][ids[x]]>>]
    BY <1>3, <2>3 DEF IncomingRows
  <2> HIDE DEF ids
  <2>7. IncomingRows(ids)' = IncomingRows(ids)
    BY <2>4, <2>5, <2>6
  <2> QED BY <2>7 DEF ids
<1> QED BY <1>1, <1>2, <1>4, <1>5 DEF ResultsInv
----------------------------------------------------------------------------
(* The initial states *)

LEMMA StartTimes ==
  ASSUME schedule \in Schedules, assignment \in Assignments, NEW s \in System,
         NEW x \in 1 .. Len(FilteredSchedule(s))
  PROVE  /\ StartOf(s, x) = schedule[FilteredSchedule(s)[x]].start
         /\ StartOf(s, x) \in Nat /\ StartOf(s, x) < EndTime
         /\ \A y \in 1 .. Len(FilteredSchedule(s)) :
              x < y => StartOf(s, x) <= StartOf(s, y)
<1>1. \A y \in 1 .. Len(FilteredSchedule(s)) :
        /\ FilteredSchedule(s)[y] \in Burst
        /\ x < y => FilteredSchedule(s)[x] < FilteredSchedule(s)[y]
  BY FilteredFacts
<1>2. \A y \in 1 .. Len(FilteredSchedule(s)) :
        StartOf(s, y) = schedule[FilteredSchedule(s)[y]].start
  BY DEF StartOf
<1>3. \A b \in Burst : schedule[b].start \in Nat /\ schedule[b].start < EndTime
  BY Inputs, TimesAssumption
<1>4. ASSUME NEW y \in 1 .. Len(FilteredSchedule(s)), x < y
      PROVE  StartOf(s, x) <= StartOf(s, y)
  BY <1>1, <1>2, <1>4, StartsAscend
<1> QED BY <1>1, <1>2, <1>3, <1>4

LEMMA InitTypeOK ==
  ASSUME Init PROVE TypeOK
<1>1. schedule \in Schedules /\ assignment \in Assignments
  BY DEF Init
<1>2. EndTime \in Nat
  BY TimesAssumption
<1>3. ASSUME NEW s \in System
      PROVE  /\ queue[s] \in SUBSET (Nat \X EventKinds \X Nat)
             /\ \A ev \in queue[s] : 0 <= ev[1]
  <2>1. CASE FilteredSchedule(s) = <<>>
    BY <2>1 DEF Init
  <2>2. CASE FilteredSchedule(s) # <<>>
    <3>1. 1 \in 1 .. Len(FilteredSchedule(s))
      BY <1>1, <2>2, FilteredFacts
    <3>2. StartOf(s, 1) \in Nat
      BY <1>1, <3>1, StartTimes
    <3>3. queue[s] = {<<StartOf(s, 1), "StartNextUdpBurst", 1>>}
      BY <2>2 DEF Init
    <3> QED BY <3>2, <3>3 DEF EventKinds
  <2> QED BY <2>1, <2>2
<1>4. queue \in [System -> SUBSET (Nat \X EventKinds \X Nat)]
  BY <1>3 DEF Init
<1>5. clock \in [System -> 0 .. EndTime] /\ \A s \in System : clock[s] = 0
  BY <1>2 DEF Init
<1>6. m_responsible_for_incoming_bursts \in [System -> Seq(Burst)]
  BY <1>1, IncomingFacts DEF Init
<1>7. m_responsible_for_outgoing_bursts \in [System -> Seq(Burst)]
  BY DEF Init
<1>8. DOMAIN counter = Endpoints /\ \A e \in Endpoints : counter[e] \in [Registered(e) -> Nat]
  BY <1>2 DEF Init
<1>9. m_sent \in [Burst -> Nat] /\ outgoing \in [Burst -> Lines] /\ incoming \in [Burst -> Lines]
  BY DEF Init, Lines
<1>10. crashed \in BOOLEAN /\ m_socket \subseteq Burst /\ wire = {} /\ DOMAIN results = System
  BY DEF Init
<1> QED BY <1>1, <1>3, <1>4, <1>5, <1>6, <1>7, <1>8, <1>9, <1>10 DEF TypeOK

LEMMA InitBurstInv ==
  ASSUME Init, Accepted PROVE BurstInv
<1>1. TypeOK /\ Accepted /\ schedule \in Schedules /\ assignment \in Assignments
  BY InitTypeOK DEF Init
<1>2. ASSUME NEW s \in System
      PROVE  ChainInv(s) /\ EventInv(s) /\ ResultsInv(s) /\ In(s) = IncomingInSetupOrder(s)
  <2>1. Out(s) = <<>> /\ Len(Out(s)) = 0 /\ In(s) = IncomingInSetupOrder(s)
    BY DEF Init, Out, In
  <2>2. ResultsInv(s)
    BY DEF Init, ResultsInv, Written
  <2>3. Len(FilteredSchedule(s)) \in Nat
        /\ (FilteredSchedule(s) = <<>> <=> Len(FilteredSchedule(s)) = 0)
    BY <1>1, FilteredFacts
  <2>4. queue[s] = IF FilteredSchedule(s) = <<>> THEN {}
                   ELSE {<<StartOf(s, 1), "StartNextUdpBurst", 1>>}
    BY DEF Init
  <2>5. ChainInv(s)
    BY <2>1, <2>3, <2>4 DEF ChainInv
  <2>6. EventInv(s)
    BY <2>1, <2>3, <2>4 DEF EventInv, NextStartEvent
  <2> QED BY <2>1, <2>2, <2>5, <2>6
<1>3. ASSUME NEW b \in Burst PROVE ClientInv(b) /\ ServerInv(b) /\ SocketInv(b)
  <2>1. m_sent[b] = 0 /\ outgoing[b] = <<>> /\ incoming[b] = <<>> /\ From(b) \in System
    BY <1>1, Types DEF Init
  <2>2. ~HasStarted(b)
    <3>1. Out(From(b)) = <<>>
      BY <2>1 DEF Out, Init
    <3> QED BY <3>1 DEF HasStarted
  <2>3. ClientInv(b)
    <3>1. 1 .. m_sent[b] = {} /\ 1 .. m_sent[b] - 1 = {}
      BY <2>1
    <3>2. outgoing[b] = [m \in 1 .. m_sent[b] |-> <<m - 1, SendTime(b, m - 1)>>]
      BY <2>1, <3>1
    <3> QED BY <2>1, <2>2, <3>1, <3>2 DEF ClientInv
  <2>4. schedule[b].to \in Endpoints => counter[schedule[b].to][b] = 0
    <3>1. b \in Registered(schedule[b].to)
      BY <1>1, Types
    <3> QED BY <3>1 DEF Init
  <2>5. ServerInv(b)
    BY <2>1, <2>4 DEF ServerInv
  <2>6. SocketInv(b)
    BY DEF Init, SocketInv
  <2> QED BY <2>3, <2>5, <2>6
<1>4. PacketInv
  BY DEF Init, PacketInv
<1>5. OnlyScheduleAborts
  <2>1. ~crashed
    BY EndpointsAssumption DEF Init, Accepted
  <2> QED BY <2>1 DEF OnlyScheduleAborts
<1> QED BY <1>1, <1>2, <1>3, <1>4, <1>5 DEF BurstInv

----------------------------------------------------------------------------
(* The steps *)

LEMMA Appended ==
  ASSUME NEW S, NEW q \in Seq(S), NEW x \in S
  PROVE  /\ Append(q, x) \in Seq(S) /\ Len(q) \in Nat /\ Len(Append(q, x)) = Len(q) + 1
         /\ Append(q, x) \in [1 .. Len(q) + 1 -> S]
         /\ DOMAIN q = 1 .. Len(q) /\ DOMAIN Append(q, x) = 1 .. Len(q) + 1
         /\ Append(q, x)[Len(q) + 1] = x
         /\ \A k \in 1 .. Len(q) : Append(q, x)[k] = q[k]
         /\ \A k \in 1 .. Len(q) + 1 : k \in 1 .. Len(q) \/ k = Len(q) + 1
<1>1. /\ Append(q, x) \in Seq(S) /\ Len(q) \in Nat /\ Len(Append(q, x)) = Len(q) + 1
      /\ DOMAIN q = 1 .. Len(q) /\ DOMAIN Append(q, x) = 1 .. Len(q) + 1
      /\ Append(q, x)[Len(q) + 1] = x
      /\ \A k \in 1 .. Len(q) : Append(q, x)[k] = q[k]
      /\ \A k \in 1 .. Len(q) + 1 : k \in 1 .. Len(q) \/ k = Len(q) + 1
  OBVIOUS
<1> DEFINE a == Append(q, x)
<1>2. a \in Seq(S) /\ Len(a) = Len(q) + 1
  BY <1>1
<1> HIDE DEF a
<1>3. a \in [1 .. Len(a) -> S]
  BY <1>2
<1>4. a \in [1 .. Len(q) + 1 -> S]
  BY <1>2, <1>3
<1> QED BY <1>1, <1>4 DEF a

LEMMA RunningSystem ==
  ASSUME BurstInv, NEW s \in System, Running(s)
  PROVE  /\ ~Written(s) /\ clock[s] \in Nat /\ EndTime \in Nat /\ clock[s] < EndTime
         /\ \A r \in System : Written(r) => r # s
<1>1. ResultsInv(s) /\ clock[s] \in 0 .. EndTime /\ EndTime \in Nat
  BY Types, TimesAssumption DEF BurstInv
<1> QED BY <1>1 DEF ResultsInv, Running

LEMMA PacketStays ==
  ASSUME BurstInv, NEW p \in wire, UNCHANGED inputs,
         m_sent'[p[1]] \in Nat, m_sent[p[1]] <= m_sent'[p[1]],
         incoming'[p[1]] = incoming[p[1]]
  PROVE  /\ p[2] < m_sent'[p[1]] /\ p[3] = SendTime(p[1], p[2])'
         /\ \A m \in DOMAIN incoming'[p[1]] : incoming'[p[1]][m][1] # p[2]
<1>1. /\ p[2] < m_sent[p[1]] /\ p[3] = SendTime(p[1], p[2])
      /\ \A m \in DOMAIN incoming[p[1]] : incoming[p[1]][m][1] # p[2]
  BY DEF BurstInv, PacketInv
<1>2. p[1] \in Burst /\ p[2] \in Nat
  BY DEF BurstInv, TypeOK
<1>3. m_sent[p[1]] \in Nat
  BY <1>2, Types DEF BurstInv
<1>4. SendTime(p[1], p[2])' = SendTime(p[1], p[2])
  BY ConstantInputs
<1> QED BY <1>1, <1>2, <1>3, <1>4

LEMMA TickStep ==
  ASSUME BurstInv, NEW s \in System, Tick(s) PROVE BurstInv'
<1>1. /\ Running(s) /\ clock' = [clock EXCEPT ![s] = @ + 1]
      /\ \A ev \in queue[s] : ev[1] # clock[s]
      /\ UNCHANGED <<inputs, queue, responsible, m_socket, m_sent, counter, outgoing,
                     incoming, wire, results, crashed>>
  BY DEF Tick
<1>2. /\ Burst' = Burst /\ \A e : Registered(e)' = Registered(e)
      /\ \A r : IncomingInSetupOrder(r)' = IncomingInSetupOrder(r)
      /\ UNCHANGED inputs
  BY <1>1, ConstantInputs
<1>3. /\ clock[s] \in Nat /\ clock[s] < EndTime /\ EndTime \in Nat
      /\ \A r \in System : Written(r) => r # s
  BY <1>1, RunningSystem
<1>4. TypeOK'
  <2>1. clock' \in [System -> 0 .. EndTime]
    BY <1>1, <1>3 DEF BurstInv, TypeOK
  <2>2. ASSUME NEW r \in System, NEW ev \in queue[r] PROVE clock'[r] <= ev[1]
    <3>1. ev[1] \in Nat /\ clock[r] <= ev[1] /\ clock[r] \in 0 .. EndTime
      BY DEF BurstInv, TypeOK
    <3>2. CASE r = s
      <4>1. clock'[s] = clock[s] + 1 /\ clock[s] # ev[1]
        BY <1>1, <3>2 DEF BurstInv, TypeOK
      <4> QED BY <1>3, <3>1, <3>2, <4>1
    <3>3. CASE r # s
      <4>1. clock'[r] = clock[r]
        BY <1>1, <3>3 DEF BurstInv, TypeOK
      <4> QED BY <3>1, <4>1
    <3> QED BY <3>2, <3>3
  <2> QED BY <1>1, <1>2, <2>1, <2>2 DEF BurstInv, TypeOK, inputs, responsible
<1>5. ASSUME NEW r \in System
      PROVE  ChainInv(r)' /\ EventInv(r)' /\ ResultsInv(r)' /\ In(r)' = IncomingInSetupOrder(r)'
  <2>1. Out(r)' = Out(r) /\ In(r)' = In(r)
    BY <1>1 DEF Out, In, responsible
  <2>2. ChainInv(r)' /\ EventInv(r)'
    BY <1>1, <2>1, QueueStays
  <2>3. Written(r) => clock'[r] = clock[r]
    BY <1>1, <1>3 DEF BurstInv, TypeOK
  <2>4. ResultsInv(r)'
    BY <1>1, <2>1, <2>3, ResultsStay
  <2> QED BY <1>2, <2>1, <2>2, <2>4 DEF BurstInv
<1>6. ASSUME NEW b \in Burst PROVE ClientInv(b)' /\ ServerInv(b)' /\ SocketInv(b)'
  <2>1. m_sent[b] \in Nat
    BY Types DEF BurstInv
  <2>2. \A r \in System : clock'[r] \in Nat /\ clock[r] <= clock'[r]
    <3>1. \A r \in System : clock[r] \in Nat /\ clock'[r] \in {clock[r], clock[r] + 1}
      BY <1>1, <1>3, Types DEF BurstInv, TypeOK
    <3> QED BY <3>1
  <2>3. SocketInv(b)'
    BY <1>1, <2>2, SocketsStay DEF responsible
  <2>4. ClientInv(b)' /\ ServerInv(b)'
    BY <1>1, <2>1, ClientStays, ServerStays DEF Out, responsible
  <2> QED BY <2>3, <2>4
<1>7. PacketInv'
  <2>1. \A p \in wire : p[1] \in Burst
    BY DEF BurstInv, TypeOK
  <2>2. \A p \in wire : m_sent[p[1]] \in Nat
    BY <2>1, Types DEF BurstInv
  <2>3. wire' = wire /\ m_sent' = m_sent /\ incoming' = incoming /\ UNCHANGED inputs
    BY <1>1
  <2> QED BY <2>2, <2>3, PacketStays DEF PacketInv
<1>8. Accepted' /\ OnlyScheduleAborts'
  BY <1>1, GoesOnSound DEF BurstInv, Running
<1> QED BY <1>1, <1>2, <1>4, <1>5, <1>6, <1>7, <1>8 DEF BurstInv


LEMMA LoseStep ==
  ASSUME BurstInv, NEW p \in wire, Lose(p) PROVE BurstInv'
<1>1. /\ ~crashed
      /\ wire' = wire \ {p}
      /\ UNCHANGED <<inputs, clock, queue, responsible, m_socket, m_sent, counter,
                     outgoing, incoming, results, crashed>>
  BY DEF Lose
<1>2. /\ Burst' = Burst /\ \A e : Registered(e)' = Registered(e)
      /\ \A r : IncomingInSetupOrder(r)' = IncomingInSetupOrder(r)
      /\ UNCHANGED inputs
  BY <1>1, ConstantInputs
<1>3. TypeOK'
  BY <1>1, <1>2 DEF BurstInv, TypeOK, inputs, responsible
<1>4. ASSUME NEW r \in System
      PROVE  ChainInv(r)' /\ EventInv(r)' /\ ResultsInv(r)' /\ In(r)' = IncomingInSetupOrder(r)'
  <2>1. Out(r)' = Out(r) /\ In(r)' = In(r)
    BY <1>1 DEF Out, In, responsible
  <2>2. ChainInv(r)' /\ EventInv(r)' /\ ResultsInv(r)'
    BY <1>1, <2>1, QueueStays, ResultsStay
  <2> QED BY <1>2, <2>1, <2>2 DEF BurstInv
<1>5. ASSUME NEW b \in Burst PROVE ClientInv(b)' /\ ServerInv(b)' /\ SocketInv(b)'
  <2>1. m_sent[b] \in Nat
    BY Types DEF BurstInv
  <2>2. ClientInv(b)' /\ ServerInv(b)'
    BY <1>1, <2>1, ClientStays, ServerStays DEF Out, responsible
  <2> QED BY <1>1, <2>2, SocketsRemain DEF responsible
<1>6. PacketInv'
  <2>1. \A q \in wire : q[1] \in Burst
    BY DEF BurstInv, TypeOK
  <2>2. \A q \in wire : m_sent[q[1]] \in Nat
    BY <2>1, Types DEF BurstInv
  <2> QED BY <1>1, <2>2, PacketStays DEF PacketInv
<1>7. Accepted' /\ OnlyScheduleAborts'
  BY <1>1, GoesOnSound DEF BurstInv
<1> QED BY <1>1, <1>2, <1>3, <1>4, <1>5, <1>6, <1>7 DEF BurstInv

LEMMA WriteStep ==
  ASSUME BurstInv, NEW s \in System, WriteResults(s) PROVE BurstInv'
<1>1. /\ ~crashed /\ clock[s] = EndTime
      /\ results' = [results EXCEPT ![s] =
           [outgoing |-> OutgoingRows(AscendingIds(Out(s))),
            incoming |-> IncomingRows(AscendingIds(In(s)))]]
      /\ UNCHANGED <<inputs, clock, queue, responsible, m_socket, m_sent, counter,
                     outgoing, incoming, wire, crashed>>
  BY DEF WriteResults, Out, In
<1>2. /\ Burst' = Burst /\ \A e : Registered(e)' = Registered(e)
      /\ \A r : IncomingInSetupOrder(r)' = IncomingInSetupOrder(r)
      /\ UNCHANGED inputs /\ schedule' = schedule
  BY <1>1, ConstantInputs
<1>3. TypeOK'
  BY <1>1, <1>2 DEF BurstInv, TypeOK, inputs, responsible
<1>4. ASSUME NEW r \in System
      PROVE  ChainInv(r)' /\ EventInv(r)' /\ ResultsInv(r)' /\ In(r)' = IncomingInSetupOrder(r)'
  <2>1. Out(r)' = Out(r) /\ In(r)' = In(r)
    BY <1>1 DEF Out, In, responsible
  <2>2. ChainInv(r)' /\ EventInv(r)'
    BY <1>1, <2>1, QueueStays
  <2>3. ASSUME r = s PROVE ResultsInv(r)'
    <3>1. results'[r] = [outgoing |-> OutgoingRows(AscendingIds(Out(r))),
                         incoming |-> IncomingRows(AscendingIds(In(r)))]
      BY <1>1, <2>3 DEF BurstInv, TypeOK
    <3>2. OutgoingRows(AscendingIds(Out(r)))' = OutgoingRows(AscendingIds(Out(r)))
      BY <1>1, <2>1 DEF OutgoingRows
    <3>3. IncomingRows(AscendingIds(In(r)))' = IncomingRows(AscendingIds(In(r)))
      BY <1>1, <1>2, <2>1 DEF IncomingRows
    <3>4. clock'[r] = EndTime
      BY <1>1, <2>3
    <3>5. results'[r] = [outgoing |-> OutgoingRows(AscendingIds(Out(r)))',
                          incoming |-> IncomingRows(AscendingIds(In(r)))']
      BY <3>1, <3>2, <3>3
    <3> QED BY <3>4, <3>5 DEF ResultsInv
  <2>4. ASSUME r # s PROVE ResultsInv(r)'
    <3>1. results'[r] = results[r]
      BY <1>1, <2>4 DEF BurstInv, TypeOK
    <3> QED BY <1>1, <2>1, <3>1, ResultsStay
  <2> QED BY <1>2, <2>1, <2>2, <2>3, <2>4 DEF BurstInv
<1>5. ASSUME NEW b \in Burst PROVE ClientInv(b)' /\ ServerInv(b)' /\ SocketInv(b)'
  <2>1. m_sent[b] \in Nat
    BY Types DEF BurstInv
  <2>2. ClientInv(b)' /\ ServerInv(b)'
    BY <1>1, <2>1, ClientStays, ServerStays DEF Out, responsible
  <2> QED BY <1>1, <2>2, SocketsRemain DEF responsible
<1>6. PacketInv'
  <2>1. \A p \in wire : p[1] \in Burst
    BY DEF BurstInv, TypeOK
  <2>2. \A p \in wire : m_sent[p[1]] \in Nat
    BY <2>1, Types DEF BurstInv
  <2> QED BY <1>1, <2>2, PacketStays DEF PacketInv
<1>7. Accepted' /\ OnlyScheduleAborts'
  BY <1>1, GoesOnSound DEF BurstInv
<1> QED BY <1>1, <1>2, <1>3, <1>4, <1>5, <1>6, <1>7 DEF BurstInv

\* The run is aborted, or nothing happens at all.
LEMMA CrashStep ==
  ASSUME BurstInv, OnlyScheduleAborts', crashed' \in BOOLEAN,
         UNCHANGED <<inputs, clock, queue, responsible, m_socket, m_sent, counter,
                     outgoing, incoming, wire, results>>
  PROVE  BurstInv'
<1>1. UNCHANGED <<inputs, clock, queue, responsible, m_socket, m_sent, counter,
                  outgoing, incoming, wire, results>>
  OBVIOUS
<1>2. /\ Burst' = Burst /\ \A e : Registered(e)' = Registered(e)
      /\ \A r : IncomingInSetupOrder(r)' = IncomingInSetupOrder(r)
      /\ UNCHANGED inputs
  BY <1>1, ConstantInputs
<1>3. TypeOK'
  BY <1>1, <1>2 DEF BurstInv, TypeOK, inputs, responsible
<1>4. ASSUME NEW r \in System
      PROVE  ChainInv(r)' /\ EventInv(r)' /\ ResultsInv(r)' /\ In(r)' = IncomingInSetupOrder(r)'
  <2>1. Out(r)' = Out(r) /\ In(r)' = In(r)
    BY <1>1 DEF Out, In, responsible
  <2>2. ChainInv(r)' /\ EventInv(r)' /\ ResultsInv(r)'
    BY <1>1, <2>1, QueueStays, ResultsStay
  <2> QED BY <1>2, <2>1, <2>2 DEF BurstInv
<1>5. ASSUME NEW b \in Burst PROVE ClientInv(b)' /\ ServerInv(b)' /\ SocketInv(b)'
  <2>1. m_sent[b] \in Nat
    BY Types DEF BurstInv
  <2>2. ClientInv(b)' /\ ServerInv(b)'
    BY <1>1, <2>1, ClientStays, ServerStays DEF Out, responsible
  <2> QED BY <1>1, <2>2, SocketsRemain DEF responsible
<1>6. PacketInv'
  <2>1. \A p \in wire : p[1] \in Burst
    BY DEF BurstInv, TypeOK
  <2>2. \A p \in wire : m_sent[p[1]] \in Nat
    BY <2>1, Types DEF BurstInv
  <2> QED BY <1>1, <2>2, PacketStays DEF PacketInv
<1>7. Accepted' /\ OnlyScheduleAborts'
  BY <1>1, ConstantInputs DEF BurstInv, Accepted
<1> QED BY <1>1, <1>2, <1>3, <1>4, <1>5, <1>6, <1>7 DEF BurstInv

LEMMA StutterStep ==
  ASSUME BurstInv, UNCHANGED vars PROVE BurstInv'
<1>1. UNCHANGED <<inputs, clock, queue, responsible, m_socket, m_sent, counter,
                  outgoing, incoming, wire, results, crashed>>
  BY DEF vars
<1>2. crashed' \in BOOLEAN
  BY <1>1 DEF BurstInv, TypeOK
<1>3. OnlyScheduleAborts'
  <2>1. Burst' = Burst /\ schedule' = schedule /\ \A b : From(b)' = From(b)
    BY <1>1, ConstantInputs
  <2> QED BY <1>1, <2>1 DEF BurstInv, OnlyScheduleAborts, StartsAt
<1> QED BY <1>1, <1>2, <1>3, CrashStep

\* A packet that arrives is known to its server and new to it.
LEMMA ReadStep ==
  ASSUME BurstInv, NEW s \in System, NEW p \in wire, HandleRead(s, p) PROVE BurstInv'
<1> DEFINE b == p[1]
           e == schedule[b].to
           line == <<p[2], clock[s]>>
<1>1. /\ b \in Burst /\ p[2] \in Nat /\ p = <<b, p[2], p[3]>>
      /\ e \in Endpoints /\ b \in Registered(e) /\ counter[e] \in [Registered(e) -> Nat]
      /\ incoming[b] \in Lines /\ clock[s] \in Nat /\ m_sent[b] \in Nat
  <2>1. TypeOK /\ Accepted
    BY DEF BurstInv
  <2>2. b \in Burst /\ p[2] \in Nat /\ p = <<b, p[2], p[3]>>
    BY <2>1 DEF TypeOK
  <2> HIDE DEF b
  <2>3. /\ e \in Endpoints /\ b \in Registered(e)
        /\ incoming[b] \in Lines /\ m_sent[b] \in Nat
    <3>1. To(b) \in System
      BY DEF HandleRead, b
    <3> QED BY <2>1, <2>2, <3>1, Types
  <2>4. counter[e] \in [Registered(e) -> Nat]
    BY <2>1, <2>3 DEF TypeOK
  <2>5. clock[s] \in Nat
    BY <2>1, Types, TimesAssumption
  <2> QED BY <2>2, <2>3, <2>4, <2>5
<1>2. /\ To(b) = s /\ Running(s) /\ clock[s] >= p[3] + LinkDelay
      /\ wire' = wire \ {p}
      /\ counter' = [counter EXCEPT ![e][b] = @ + 1]
      /\ incoming' = [incoming EXCEPT ![b] = Append(@, line)]
      /\ UNCHANGED <<inputs, clock, queue, responsible, m_socket, m_sent, outgoing, results, crashed>>
  BY <1>1 DEF HandleRead
<1>3. /\ Burst' = Burst /\ \A x : Registered(x)' = Registered(x)
      /\ \A r : IncomingInSetupOrder(r)' = IncomingInSetupOrder(r)
      /\ UNCHANGED inputs /\ schedule' = schedule
  BY <1>2, ConstantInputs
<1>4. /\ DOMAIN counter' = Endpoints
      /\ \A x \in Endpoints : counter'[x] \in [Registered(x) -> Nat]
      /\ counter'[e][b] = counter[e][b] + 1
      /\ \A c \in Burst : c # b /\ schedule[c].to \in Endpoints =>
           counter'[schedule[c].to][c] = counter[schedule[c].to][c]
  <2>1. DOMAIN counter = Endpoints /\ \A x \in Endpoints : counter[x] \in [Registered(x) -> Nat]
    BY DEF BurstInv, TypeOK
  <2>2. \A c \in Burst : c \in Registered(schedule[c].to)
    BY Types DEF BurstInv
  <2> HIDE DEF b, e
  <2>3. counter' = [counter EXCEPT ![e] = [counter[e] EXCEPT ![b] = counter[e][b] + 1]]
    BY <1>2
  <2> QED BY <1>1, <2>1, <2>2, <2>3
<1>5. /\ incoming'[b] = Append(incoming[b], line)
      /\ \A c \in Burst : c # b => incoming'[c] = incoming[c]
      /\ incoming' \in [Burst -> Lines]
  <2>1. incoming \in [Burst -> Lines]
    BY DEF BurstInv, TypeOK
  <2>2. Append(incoming[b], line) \in Lines
    BY <1>1 DEF Lines
  <2> QED BY <1>1, <1>2, <2>1, <2>2
<1>6. TypeOK'
  <2>1. /\ clock \in [System -> 0 .. EndTime]
        /\ queue \in [System -> SUBSET (Nat \X EventKinds \X Nat)]
        /\ \A r \in System : \A ev \in queue[r] : clock[r] <= ev[1]
        /\ wire \subseteq Burst \X Nat \X Nat
    BY DEF BurstInv, TypeOK
  <2> QED BY <1>2, <1>3, <1>4, <1>5, <2>1 DEF BurstInv, TypeOK, inputs, responsible
<1>7. ASSUME NEW r \in System
      PROVE  ChainInv(r)' /\ EventInv(r)' /\ ResultsInv(r)' /\ In(r)' = IncomingInSetupOrder(r)'
  <2>1. Out(r)' = Out(r) /\ In(r)' = In(r)
    BY <1>2 DEF Out, In, responsible
  <2>2. ChainInv(r)' /\ EventInv(r)'
    BY <1>2, <2>1, QueueStays
  <2>3. Written(r) => \A c \in Burst : To(c) = r =>
          counter'[schedule[c].to][c] = counter[schedule[c].to][c]
    <3>1. \A c \in Burst : To(c) \in System => schedule[c].to \in Endpoints
      BY Types DEF BurstInv
    <3> HIDE DEF b, e
    <3> QED BY <1>2, <1>4, <3>1, RunningSystem
  <2>4. ResultsInv(r)'
    BY <1>2, <2>1, <2>3, ResultsStay
  <2> QED BY <1>3, <2>1, <2>2, <2>4 DEF BurstInv
<1>8. ASSUME NEW c \in Burst PROVE ClientInv(c)' /\ SocketInv(c)'
  BY <1>2, ClientStays, SocketsRemain DEF Out, responsible
<1>9. ASSUME NEW c \in Burst, c # b PROVE ServerInv(c)'
  <2>1. m_sent[c] \in Nat
    BY Types DEF BurstInv
  <2>2. /\ m_sent'[c] = m_sent[c] /\ UNCHANGED inputs /\ incoming'[c] = incoming[c]
        /\ schedule[c].to \in Endpoints =>
             counter'[schedule[c].to][c] = counter[schedule[c].to][c]
    BY <1>2, <1>4, <1>5, <1>9
  <2> QED BY <2>1, <2>2, ServerStays
<1>10. /\ p[2] < m_sent[b] /\ p[3] = SendTime(b, p[2])
       /\ \A m \in DOMAIN incoming[b] : incoming[b][m][1] # p[2]
  BY DEF BurstInv, PacketInv
<1>11. ServerInv(b)'
  <2> DEFINE n == Len(incoming[b])
             log == incoming'[b]
  <2>1. ServerInv(b)
    BY <1>1 DEF BurstInv
  <2>2. /\ n \in Nat /\ Len(log) = n + 1 /\ log[n + 1] = line
        /\ \A m \in 1 .. n : log[m] = incoming[b][m]
        /\ \A m \in 1 .. n + 1 : m \in 1 .. n \/ m = n + 1
    BY <1>1, <1>5, Appended DEF Lines
  <2>4. /\ schedule' = schedule /\ m_sent' = m_sent
        /\ \A m : SendTime(b, m)' = SendTime(b, m)
    BY <1>2, ConstantInputs
  <2>5. line[1] = p[2] /\ line[2] = clock[s] /\ \A m \in 1 .. n : incoming[b][m][1] # p[2]
    <3>1. DOMAIN incoming[b] = 1 .. n
      BY <1>1 DEF Lines
    <3>2. line[1] = p[2] /\ line[2] = clock[s]
      OBVIOUS
    <3> HIDE DEF n, line
    <3> QED BY <1>10, <3>1, <3>2
  <2>6. counter'[schedule'[b].to][b] = Len(log)
    BY <1>1, <1>4, <2>1, <2>2, <2>4 DEF ServerInv
  <2>10. /\ \A m \in 1 .. n : incoming[b][m][1] < m_sent[b]
                             /\ SendTime(b, incoming[b][m][1]) + LinkDelay <= incoming[b][m][2]
         /\ \A m, l \in 1 .. n : incoming[b][m][1] = incoming[b][l][1] => m = l
    BY <2>1 DEF ServerInv
  <2>11. SendTime(b, p[2]) + LinkDelay <= clock[s]
    <3>1. SendTime(b, p[2]) \in Nat /\ LinkDelay \in Nat
      BY <1>1, SendTimes, TimesAssumption DEF BurstInv, TypeOK
    <3> QED BY <1>1, <1>2, <1>10, <3>1
  <2>12. p[2] < m_sent[b]
    BY <1>10
  <2>13. p[2] \in Nat
    BY <1>1
  <2> HIDE DEF n, log, line, b
  <2>7. ASSUME NEW m \in 1 .. n + 1
        PROVE  log[m][1] < m_sent'[b] /\ SendTime(b, log[m][1]) + LinkDelay <= log[m][2]
    <3>1. CASE m \in 1 .. n
      BY <2>2, <2>4, <2>10, <3>1
    <3>2. CASE m = n + 1
      BY <2>2, <2>4, <2>5, <2>11, <2>12, <3>2
    <3> QED BY <2>2, <3>1, <3>2
  <2>8. ASSUME NEW m \in 1 .. n + 1, NEW l \in 1 .. n + 1, log[m][1] = log[l][1]
        PROVE  m = l
    <3>1. CASE m \in 1 .. n /\ l \in 1 .. n
      BY <2>2, <2>8, <2>10, <3>1
    <3>2. CASE m = n + 1 /\ l \in 1 .. n
      BY <2>2, <2>5, <2>8, <3>2
    <3>3. CASE m \in 1 .. n /\ l = n + 1
      BY <2>2, <2>5, <2>8, <3>3
    <3> QED BY <2>2, <3>1, <3>2, <3>3
  <2>9. counter'[schedule'[b].to][b] = Len(incoming'[b])
    BY <2>6 DEF log
  <2>14. \A m \in 1 .. Len(incoming'[b]) :
           /\ incoming'[b][m][1] < m_sent'[b]
           /\ SendTime(b, incoming[b][m][1])' + LinkDelay <= incoming'[b][m][2]
    <3>1. \A m : SendTime(b, incoming[b][m][1])' = SendTime(b, incoming'[b][m][1])
      BY <2>4
    <3> QED BY <2>2, <2>7, <3>1 DEF log
  <2>15. \A m, l \in 1 .. Len(incoming'[b]) :
           incoming'[b][m][1] = incoming'[b][l][1] => m = l
    BY <2>2, <2>8 DEF log
  <2> QED BY <2>9, <2>14, <2>15 DEF ServerInv
<1>12. PacketInv'
  <2> SUFFICES ASSUME NEW q \in wire, q # p
               PROVE  /\ q[2] < m_sent'[q[1]] /\ q[3] = SendTime(q[1], q[2])'
                      /\ \A m \in DOMAIN incoming'[q[1]] : incoming'[q[1]][m][1] # q[2]
    BY <1>2 DEF PacketInv
  <2>1. q[1] \in Burst /\ q[2] \in Nat /\ q = <<q[1], q[2], q[3]>>
    BY DEF BurstInv, TypeOK
  <2>2. m_sent[q[1]] \in Nat
    BY <2>1, Types DEF BurstInv
  <2>3. CASE q[1] # b
    BY <1>2, <1>5, <2>1, <2>2, <2>3, PacketStays
  <2>4. CASE q[1] = b
    <3>1. /\ q[2] < m_sent[b] /\ q[3] = SendTime(b, q[2])
          /\ \A m \in DOMAIN incoming[b] : incoming[b][m][1] # q[2]
      BY <2>4 DEF BurstInv, PacketInv
    <3>2. q[2] # p[2]
      BY <1>1, <1>10, <2>1, <2>4, <3>1
    <3>3. \A m : SendTime(b, m)' = SendTime(b, m)
      BY <1>2, ConstantInputs
    <3> DEFINE log == incoming[b]
    <3>l. line \in Nat \X Nat /\ line[1] = p[2] /\ log \in Seq(Nat \X Nat)
          /\ incoming'[b] = Append(log, line)
      BY <1>1, <1>5 DEF Lines
    <3> HIDE DEF log, line, b
    <3>4. \A m \in DOMAIN incoming'[b] :
            (m \in DOMAIN log /\ incoming'[b][m] = log[m]) \/ incoming'[b][m] = line
      <4> DEFINE all == Append(log, line)
                 n == Len(log)
      <4>1. /\ DOMAIN log = 1 .. n /\ DOMAIN all = 1 .. n + 1 /\ all[n + 1] = line
            /\ \A m \in 1 .. n : all[m] = log[m]
            /\ \A m \in 1 .. n + 1 : m \in 1 .. n \/ m = n + 1
        BY <3>l, Appended
      <4>2. incoming'[b] = all
        BY <3>l
      <4> HIDE DEF all, n
      <4> QED BY <4>1, <4>2
    <3>5. \A m \in DOMAIN incoming'[b] : incoming'[b][m][1] # q[2]
      BY <3>1, <3>2, <3>4, <3>l DEF log
    <3> QED BY <1>2, <2>4, <3>1, <3>3, <3>5
  <2> QED BY <2>3, <2>4
<1>13. Accepted' /\ OnlyScheduleAborts'
  BY <1>2, GoesOnSound DEF BurstInv, Running
<1> QED BY <1>2, <1>3, <1>6, <1>7, <1>8, <1>9, <1>11, <1>12, <1>13 DEF BurstInv

\* What is known of an event that is run.
LEMMA Events ==
  ASSUME BurstInv, NEW s \in System
  PROVE  /\ \A t, i : <<t, "StartNextUdpBurst", i>> \in queue[s] =>
              /\ Len(Out(s)) < Len(FilteredSchedule(s))
              /\ i = Len(Out(s)) + 1 /\ t = StartOf(s, i)
         /\ \A t, b : <<t, "StartApplication", b>> \in queue[s] =>
              /\ b \in Burst /\ From(b) = s /\ HasStarted(b)
              /\ t = schedule[b].start /\ m_sent[b] = 0 /\ SendEvent(b) \notin queue[s]
         /\ \A t, b : <<t, "Send", b>> \in queue[s] =>
              /\ b \in Burst /\ From(b) = s /\ HasStarted(b)
              /\ t = SendTime(b, m_sent[b])
              /\ m_sent[b] > 0 => GoesOn(b, SendTime(b, m_sent[b]))
<1>1. EventInv(s)
  BY DEF BurstInv
<1>2. ASSUME NEW t, NEW i, <<t, "StartNextUdpBurst", i>> \in queue[s]
      PROVE  /\ Len(Out(s)) < Len(FilteredSchedule(s))
             /\ i = Len(Out(s)) + 1 /\ t = StartOf(s, i)
  BY <1>1, <1>2 DEF EventInv, NextStartEvent, IsBurstEvent, StartEvent, SendEvent
<1>3. ASSUME NEW t, NEW b, <<t, "StartApplication", b>> \in queue[s]
      PROVE  /\ b \in Burst /\ From(b) = s /\ HasStarted(b)
             /\ t = schedule[b].start /\ m_sent[b] = 0 /\ SendEvent(b) \notin queue[s]
  <2>1. PICK c \in Burst : From(c) = s /\ IsBurstEvent(c, <<t, "StartApplication", b>>)
    BY <1>1, <1>3 DEF EventInv, NextStartEvent
  <2>2. /\ HasStarted(c) /\ m_sent[c] = 0 /\ SendEvent(c) \notin queue[From(c)]
        /\ <<t, "StartApplication", b>> = StartEvent(c)
    <3>1. <<t, "StartApplication", b>> # SendEvent(c)
      BY DEF SendEvent
    <3> QED BY <2>1, <3>1 DEF IsBurstEvent
  <2>3. c = b /\ t = schedule[b].start
    BY <2>2 DEF StartEvent
  <2> QED BY <2>1, <2>2, <2>3
<1>4. ASSUME NEW t, NEW b, <<t, "Send", b>> \in queue[s]
      PROVE  /\ b \in Burst /\ From(b) = s /\ HasStarted(b)
             /\ t = SendTime(b, m_sent[b])
             /\ m_sent[b] > 0 => GoesOn(b, SendTime(b, m_sent[b]))
  <2>1. PICK c \in Burst : From(c) = s /\ IsBurstEvent(c, <<t, "Send", b>>)
    BY <1>1, <1>4 DEF EventInv, NextStartEvent
  <2>2. /\ HasStarted(c) /\ (m_sent[c] > 0 => GoesOn(c, SendTime(c, m_sent[c])))
        /\ <<t, "Send", b>> = SendEvent(c)
    <3>1. <<t, "Send", b>> # StartEvent(c)
      BY DEF StartEvent
    <3> QED BY <2>1, <3>1 DEF IsBurstEvent
  <2>3. c = b /\ t = SendTime(c, m_sent[c])
    BY <2>2 DEF SendEvent
  <2> QED BY <2>1, <2>2, <2>3
<1> QED BY <1>2, <1>3, <1>4

\* The next burst of the schedule starts, and the chain goes on to the one after it.
LEMMA StartNextStep ==
  ASSUME BurstInv, NEW s \in System, NEW i \in Burst, StartNextUdpBurst(s, i), ~crashed'
  PROVE  BurstInv'
<1> DEFINE ev == <<clock[s], "StartNextUdpBurst", i>>
           n == Len(FilteredSchedule(s))
<1>1. TypeOK /\ Accepted /\ schedule \in Schedules /\ assignment \in Assignments
  BY DEF BurstInv, TypeOK
<1>2. Running(s) /\ ev \in queue[s]
  BY DEF StartNextUdpBurst, Due
<1>3. Len(Out(s)) < n /\ i = Len(Out(s)) + 1 /\ clock[s] = StartOf(s, i)
  BY <1>2, Events
<1>4. /\ Out(s) \in Seq(Burst) /\ Len(Out(s)) \in Nat /\ n \in Nat /\ i \in 1 .. n
      /\ FilteredSchedule(s)[i] \in Burst /\ From(FilteredSchedule(s)[i]) = s
  <2>1. Out(s) \in Seq(Burst) /\ Len(Out(s)) \in Nat
    BY OutFacts
  <2>2. n \in Nat
    BY <1>1, FilteredFacts
  <2>3. i \in 1 .. n
    BY <1>3, <2>1, <2>2
  <2> QED BY <1>1, <2>1, <2>2, <2>3, FilteredFacts
<1>b. PICK b \in Burst : b = FilteredSchedule(s)[i] /\ From(b) = s
  BY <1>4
<1> DEFINE app == <<clock[s], "StartApplication", b>>
<1>5. /\ queue' = [queue EXCEPT ![s] = (@ \ {ev}) \cup ({app} \cup NextStart(s, i))]
      /\ m_responsible_for_outgoing_bursts' =
           [m_responsible_for_outgoing_bursts EXCEPT ![s] = Append(@, b)]
      /\ UNCHANGED <<inputs, clock, m_responsible_for_incoming_bursts, m_socket, m_sent,
                     counter, outgoing, incoming, wire, results, crashed>>
  BY <1>3, <1>b DEF StartNextUdpBurst, Run
<1>a. Accepted' /\ OnlyScheduleAborts'
  BY <1>2, <1>5, GoesOnSound DEF BurstInv, Running
<1>6. /\ Burst' = Burst /\ \A e : Registered(e)' = Registered(e)
      /\ \A r : IncomingInSetupOrder(r)' = IncomingInSetupOrder(r)
      /\ \A r : FilteredSchedule(r)' = FilteredSchedule(r)
      /\ \A r, x : StartOf(r, x)' = StartOf(r, x)
      /\ \A c : From(c)' = From(c)
      /\ UNCHANGED inputs
  BY <1>5, ConstantInputs
<1>7. clock[s] \in Nat /\ clock[s] = schedule[b].start
  BY <1>1, <1>3, <1>4, <1>b, StartTimes
\* The chain: the next start is not in the past.
<1>8. /\ i = n => NextStart(s, i) = {}
      /\ i # n => /\ i < n /\ StartOf(s, i + 1) \in Nat /\ clock[s] <= StartOf(s, i + 1)
                  /\ NextStart(s, i) = {<<StartOf(s, i + 1), "StartNextUdpBurst", i + 1>>}
  <2>1. ASSUME i = n PROVE NextStart(s, i) = {}
    BY <2>1 DEF NextStart
  <2>2. ASSUME i # n
        PROVE  /\ i < n /\ StartOf(s, i + 1) \in Nat /\ clock[s] <= StartOf(s, i + 1)
               /\ NextStart(s, i) = {<<StartOf(s, i + 1), "StartNextUdpBurst", i + 1>>}
    <3>1. i < n /\ i + 1 \in 1 .. n /\ i < i + 1
      BY <1>4, <2>2
    <3>2. StartOf(s, i + 1) \in Nat /\ StartOf(s, i) <= StartOf(s, i + 1)
      BY <1>1, <1>4, <3>1, StartTimes
    <3>3. clock[s] + (StartOf(s, i + 1) - clock[s]) = StartOf(s, i + 1)
      BY <1>7, <3>2
    <3>4. NextStart(s, i) = {<<clock[s] + (StartOf(s, i + 1) - clock[s]), "StartNextUdpBurst", i + 1>>}
      BY <2>2 DEF NextStart
    <3> QED BY <1>3, <3>1, <3>2, <3>3, <3>4
  <2> QED BY <2>1, <2>2
<1>9. /\ queue'[s] = (queue[s] \ {ev}) \cup ({app} \cup NextStart(s, i))
      /\ Out(s)' = Append(Out(s), b)
      /\ \A r \in System : r # s => queue'[r] = queue[r] /\ Out(r)' = Out(r)
      /\ \A r \in System : In(r)' = In(r)
  BY <1>1, <1>5 DEF TypeOK, Out, In
<1>10. ~HasStarted(b)
  <2>1. ASSUME NEW x \in 1 .. Len(Out(s)) PROVE Out(s)[x] # b
    <3>1. x \in 1 .. n /\ x < i
      BY <1>3, <1>4
    <3>2. ChainInv(s) /\ Burst \subseteq Nat
      BY <1>1, Types DEF BurstInv
    <3>3. Out(s)[x] = FilteredSchedule(s)[x]
      BY <3>2 DEF ChainInv
    <3>4. FilteredSchedule(s)[x] < b /\ FilteredSchedule(s)[x] \in Burst
      BY <1>1, <1>4, <1>b, <3>1, FilteredFacts
    <3>5. b \in Nat /\ FilteredSchedule(s)[x] \in Nat
      BY <3>2, <3>4
    <3> QED BY <3>3, <3>4, <3>5
  <2> QED BY <1>4, <1>b, <2>1 DEF HasStarted
<1>11. HasStarted(b)' /\ \A c \in Burst : c # b => (HasStarted(c)' <=> HasStarted(c))
  <2>1. HasStarted(b)'
    <3>1. Out(s)'[Len(Out(s)) + 1] = b /\ Len(Out(s)) + 1 \in DOMAIN Out(s)'
      BY <1>4, <1>9, Appended
    <3> QED BY <1>b, <1>6, <3>1 DEF HasStarted
  <2>2. ASSUME NEW c \in Burst, c # b PROVE HasStarted(c)' <=> HasStarted(c)
    <3>1. CASE From(c) # s
      BY <1>1, <1>6, <1>9, <3>1, Types DEF HasStarted
    <3>2. CASE From(c) = s
      <4>1. \A x \in DOMAIN Out(s)' :
              (x \in DOMAIN Out(s) /\ Out(s)'[x] = Out(s)[x]) \/ Out(s)'[x] = b
        BY <1>4, <1>9, Appended
      <4>2. \A x \in DOMAIN Out(s) : x \in DOMAIN Out(s)' /\ Out(s)'[x] = Out(s)[x]
        BY <1>4, <1>9, Appended
      <4> QED BY <1>6, <2>2, <3>2, <4>1, <4>2 DEF HasStarted
    <3> QED BY <3>1, <3>2
  <2> QED BY <2>1, <2>2
<1>12. /\ m_sent' = m_sent /\ m_sent[b] = 0
       /\ StartEvent(b)' = app
       /\ \A c \in Burst : StartEvent(c)' = StartEvent(c) /\ SendEvent(c)' = SendEvent(c)
  <2>1. ClientInv(b) /\ m_sent[b] \in Nat
    BY <1>1, Types DEF BurstInv
  <2>2. m_sent[b] = 0
    BY <1>10, <2>1 DEF ClientInv
  <2> QED BY <1>5, <1>6, <1>7, <2>2, BurstStays, ConstantInputs DEF StartEvent
<1>13. \A c \in Burst : /\ SendEvent(c) \in queue'[s] <=> SendEvent(c) \in queue[s]
                        /\ StartEvent(c) \in queue[s] => StartEvent(c) \in queue'[s]
  <2>1. \A c : SendEvent(c) # ev /\ SendEvent(c) # app /\ StartEvent(c) # ev
    BY DEF SendEvent, StartEvent
  <2>2. \A c : SendEvent(c) \notin NextStart(s, i)
    BY <1>8 DEF SendEvent
  <2> HIDE DEF ev, app
  <2> QED BY <1>9, <2>1, <2>2
<1>14. SendEvent(b) \notin queue[s]
  <2>1. SendEvent(b) = <<SendTime(b, m_sent[b]), "Send", b>>
    BY DEF SendEvent
  <2> QED BY <1>10, <2>1, Events
<1>15. TypeOK'
  <2>1. m_responsible_for_outgoing_bursts' \in [System -> Seq(Burst)]
    <3>1. Append(Out(s), b) \in Seq(Burst)
      BY <1>4, Appended
    <3> QED BY <1>1, <1>5, <3>1 DEF TypeOK, Out
  <2>2. queue'[s] \in SUBSET (Nat \X EventKinds \X Nat)
        /\ \A e \in queue'[s] : clock[s] <= e[1]
    <3>1. queue[s] \in SUBSET (Nat \X EventKinds \X Nat)
          /\ \A e \in queue[s] : clock[s] <= e[1]
      BY <1>1 DEF TypeOK
    <3>2. app \in Nat \X EventKinds \X Nat /\ clock[s] <= app[1]
      <4>1. b \in Nat
        BY <1>1, <1>4, Types
      <4> QED BY <1>7, <4>1 DEF EventKinds
    <3>3. \A e \in NextStart(s, i) : e \in Nat \X EventKinds \X Nat /\ clock[s] <= e[1]
      BY <1>4, <1>8 DEF EventKinds
    <3> HIDE DEF app
    <3> QED BY <1>9, <3>1, <3>2, <3>3
  <2>3. queue' \in [System -> SUBSET (Nat \X EventKinds \X Nat)]
    BY <1>1, <1>5, <2>2 DEF TypeOK
  <2>4. \A r \in System : \A e \in queue'[r] : clock'[r] <= e[1]
    BY <1>1, <1>5, <1>9, <2>2 DEF TypeOK
  <2> QED BY <1>1, <1>5, <1>6, <2>1, <2>3, <2>4 DEF TypeOK, inputs
<1>16. ChainInv(s)'
  <2>1. Len(Out(s))' = i /\ \A x \in 1 .. i : Out(s)'[x] = FilteredSchedule(s)[x]
    <3>1. ChainInv(s)
      BY DEF BurstInv
    <3>2. \A x \in 1 .. Len(Out(s)) : Out(s)[x] = FilteredSchedule(s)[x]
      BY <3>1 DEF ChainInv
    <3> QED BY <1>3, <1>4, <1>b, <1>9, <3>2, Appended
  <2>2. i + 1 <= n => <<StartOf(s, i + 1), "StartNextUdpBurst", i + 1>> \in queue'[s]
    <3>1. i + 1 <= n => i # n
      BY <1>4
    <3> HIDE DEF n
    <3> QED BY <1>8, <1>9, <3>1
  <2>3. i + 1 <= n + 1
    BY <1>4
  <2> QED BY <1>6, <2>1, <2>2, <2>3 DEF ChainInv
<1>17. EventInv(s)'
  <2>1. Len(Out(s))' = i
    BY <1>3, <1>4, <1>9, Appended
  <2>2. ASSUME NEW e \in queue'[s]
        PROVE  \/ i < n /\ e = <<StartOf(s, i + 1), "StartNextUdpBurst", i + 1>>
               \/ \E c \in Burst : From(c) = s /\ IsBurstEvent(c, e)'
    <3>1. CASE e \in NextStart(s, i)
      <4> HIDE DEF n
      <4> QED BY <1>8, <3>1
    <3>2. CASE e = app
      <4>1. SendEvent(b)' \notin queue'[From(b)'] /\ HasStarted(b)' /\ m_sent'[b] = 0
            /\ e = StartEvent(b)'
        BY <1>b, <1>6, <1>11, <1>12, <1>13, <1>14, <3>2
      <4>2. IsBurstEvent(b, e)'
        BY <1>6, <4>1 DEF IsBurstEvent
      <4> QED BY <1>b, <4>2
    <3>3. CASE e \in queue[s] /\ e # ev
      <4>1. EventInv(s)
        BY DEF BurstInv
      <4>2. PICK c \in Burst : From(c) = s /\ IsBurstEvent(c, e)
        BY <1>3, <3>3, <4>1 DEF EventInv, NextStartEvent
      <4>3. HasStarted(c) /\ c # b
        BY <1>10, <4>2 DEF IsBurstEvent
      <4>4. IsBurstEvent(c, e)'
        BY <1>6, <1>11, <1>12, <1>13, <4>2, <4>3, BurstEventStays
      <4> QED BY <4>2, <4>4
    <3> QED BY <1>9, <3>1, <3>2, <3>3
  <2> QED BY <1>6, <2>1, <2>2 DEF EventInv, NextStartEvent
<1>22. ASSUME NEW c \in Burst PROVE SocketInv(c)'
  <2>1. clock'[From(c)] \in Nat /\ clock[From(c)] <= clock'[From(c)]
    <3>1. clock[From(c)] \in 0 .. EndTime /\ EndTime \in Nat
      BY <1>1, Types, TimesAssumption
    <3> QED BY <1>5, <3>1
  <2>2. CASE c = b
    <3>1. SocketInv(b)
      BY DEF BurstInv
    <3>2. b \notin m_socket'
      BY <1>5, <1>10, <3>1 DEF SocketInv
    <3> QED BY <2>2, <3>2 DEF SocketInv
  <2>3. CASE c # b
    <3>1. HasStarted(c) => HasStarted(c)'
      BY <1>11, <2>3
    <3>2. StartEvent(c) \in queue'[From(c)] => StartEvent(c) \in queue[From(c)]
      <4>1. StartEvent(c) # app /\ StartEvent(c) \notin NextStart(s, i)
        BY <1>8, <2>3 DEF StartEvent
      <4>2. From(c) \in System
        BY <1>1, Types
      <4> HIDE DEF app, ev
      <4> QED BY <1>9, <4>1, <4>2
    <3> QED BY <1>5, <2>1, <3>1, <3>2, SocketStays
  <2> QED BY <2>2, <2>3
<1>18. ASSUME NEW r \in System
       PROVE  ChainInv(r)' /\ EventInv(r)' /\ ResultsInv(r)' /\ In(r)' = IncomingInSetupOrder(r)'
  <2>1. ASSUME r # s PROVE ChainInv(r)' /\ EventInv(r)'
    BY <1>5, <1>9, <2>1, QueueStays
  <2>2. Written(r) => r # s
    BY <1>2, RunningSystem
  <2>3. ResultsInv(r)'
    BY <1>5, <1>9, <2>2, ResultsStay
  <2> QED BY <1>6, <1>9, <1>16, <1>17, <2>1, <2>3 DEF BurstInv
<1>19. ASSUME NEW c \in Burst PROVE ClientInv(c)'
  <2>1. ClientInv(c)
    BY DEF BurstInv
  <2>2. ASSUME From(c) = s PROVE ClientInv(c)'
    <3>1. /\ m_sent'[c] = m_sent[c] /\ outgoing'[c] = outgoing[c]
          /\ \A m : SendTime(c, m)' = SendTime(c, m)
          /\ \A m : GoesOn(c, SendTime(c, m))' <=> GoesOn(c, SendTime(c, m))
      BY <1>5, ConstantInputs DEF GoesOn
    <3>2. m_sent'[c] > 0 => HasStarted(c)'
      <4>1. HasStarted(c) => HasStarted(c)'
        BY <1>11
      <4> QED BY <2>1, <3>1, <4>1 DEF ClientInv
    <3>3. HasStarted(c)' /\ m_sent'[c] = 0 =>
            StartEvent(c)' \in queue'[From(c)'] \/ SendEvent(c)' \in queue'[From(c)']
      <4>1. CASE c = b
        BY <1>b, <1>6, <1>9, <1>12, <4>1
      <4>2. CASE c # b
        BY <1>6, <1>11, <1>12, <1>13, <2>1, <2>2, <3>1, <4>2 DEF ClientInv
      <4> QED BY <4>1, <4>2
    <3> QED BY <2>1, <3>1, <3>2, <3>3 DEF ClientInv
  <2>3. ASSUME From(c) # s PROVE ClientInv(c)'
    <3>1. From(c) \in System
      BY <1>1, Types
    <3> QED BY <1>5, <1>9, <2>3, <3>1, ClientStays DEF Out
  <2> QED BY <2>2, <2>3
<1>20. ASSUME NEW c \in Burst PROVE ServerInv(c)'
  <2>1. m_sent[c] \in Nat
    BY <1>1, Types
  <2> QED BY <1>5, <2>1, ServerStays
<1>21. PacketInv'
  <2>1. \A p \in wire : p[1] \in Burst
    BY <1>1 DEF TypeOK
  <2>2. \A p \in wire : m_sent[p[1]] \in Nat
    BY <1>1, <2>1, Types
  <2> QED BY <1>5, <2>2, PacketStays DEF PacketInv
<1> QED BY <1>5, <1>6, <1>a, <1>15, <1>18, <1>19, <1>20, <1>21, <1>22 DEF BurstInv

\* The application starts, and its first packet is due at once.
LEMMA StartApplicationStep ==
  ASSUME BurstInv, NEW s \in System, NEW b \in Burst, StartApplication(s, b), ~crashed'
  PROVE  BurstInv'
<1> DEFINE ev == <<clock[s], "StartApplication", b>>
           send == <<clock[s], "Send", b>>
<1>1. TypeOK /\ Accepted /\ schedule \in Schedules /\ assignment \in Assignments
  BY DEF BurstInv, TypeOK
<1>2. /\ Running(s) /\ ev \in queue[s]
      /\ queue' = [queue EXCEPT ![s] = (@ \ {ev}) \cup {send}]
      /\ m_socket' = m_socket \cup {b}
      /\ UNCHANGED <<inputs, clock, responsible, m_sent, counter, outgoing,
                     incoming, wire, results, crashed>>
  BY DEF StartApplication, Due, Run
<1>3. /\ From(b) = s /\ HasStarted(b) /\ clock[s] = schedule[b].start
      /\ m_sent[b] = 0 /\ SendEvent(b) \notin queue[s]
  BY <1>2, Events
<1>4. SendEvent(b) = send /\ StartEvent(b) = ev
  BY <1>1, <1>3, SendTimes DEF SendEvent, StartEvent
<1>5. /\ Burst' = Burst /\ \A e : Registered(e)' = Registered(e)
      /\ \A r : IncomingInSetupOrder(r)' = IncomingInSetupOrder(r)
      /\ \A c : From(c)' = From(c)
      /\ UNCHANGED inputs /\ m_sent' = m_sent
  BY <1>2, ConstantInputs
<1>6. /\ queue'[s] = (queue[s] \ {ev}) \cup {send}
      /\ \A r \in System : r # s => queue'[r] = queue[r]
      /\ \A r \in System : Out(r)' = Out(r) /\ In(r)' = In(r)
  BY <1>1, <1>2 DEF TypeOK, Out, In, responsible
<1>7. \A c \in Burst : /\ HasStarted(c)' <=> HasStarted(c)
                       /\ StartEvent(c)' = StartEvent(c) /\ SendEvent(c)' = SendEvent(c)
  <2>1. \A c \in Burst : From(c) \in System
    BY <1>1, Types
  <2> QED BY <1>5, <1>6, <2>1, BurstStays DEF HasStarted
<1>8. \A c \in Burst : c # b =>
        /\ SendEvent(c) \in queue'[s] <=> SendEvent(c) \in queue[s]
        /\ StartEvent(c) \in queue[s] => StartEvent(c) \in queue'[s]
  <2>1. \A c : c # b => SendEvent(c) # ev /\ SendEvent(c) # send /\ StartEvent(c) # ev
    BY DEF SendEvent, StartEvent
  <2> HIDE DEF ev, send
  <2> QED BY <1>6, <2>1
<1>9. TypeOK'
  <2>1. queue'[s] \in SUBSET (Nat \X EventKinds \X Nat)
        /\ \A e \in queue'[s] : clock[s] <= e[1]
    <3>1. queue[s] \in SUBSET (Nat \X EventKinds \X Nat)
          /\ \A e \in queue[s] : clock[s] <= e[1]
      BY <1>1 DEF TypeOK
    <3>2. send \in Nat \X EventKinds \X Nat /\ clock[s] <= send[1]
      <4>1. b \in Nat /\ clock[s] \in Nat
        BY <1>1, <1>2, Types, RunningSystem
      <4> QED BY <4>1 DEF EventKinds
    <3> HIDE DEF send
    <3> QED BY <1>6, <3>1, <3>2
  <2>2. queue' \in [System -> SUBSET (Nat \X EventKinds \X Nat)]
    BY <1>1, <1>2, <2>1 DEF TypeOK
  <2>3. \A r \in System : \A e \in queue'[r] : clock'[r] <= e[1]
    BY <1>1, <1>2, <1>6, <2>1 DEF TypeOK
  <2> QED BY <1>1, <1>2, <1>5, <2>2, <2>3 DEF TypeOK, inputs, responsible
<1>10. ChainInv(s)'
  <2>1. ChainInv(s)
    BY DEF BurstInv
  <2>2. \A t, x : <<t, "StartNextUdpBurst", x>> \in queue[s] =>
                    <<t, "StartNextUdpBurst", x>> \in queue'[s]
    BY <1>6
  <2> QED BY <1>5, <1>6, <2>1, <2>2, ConstantInputs DEF ChainInv
<1>11. EventInv(s)'
  <2>1. EventInv(s)
    BY DEF BurstInv
  <2>2. NextStartEvent(s)' = NextStartEvent(s)
        /\ Len(Out(s))' = Len(Out(s)) /\ Len(FilteredSchedule(s))' = Len(FilteredSchedule(s))
    BY <1>5, <1>6, ConstantInputs DEF NextStartEvent
  <2>3. ASSUME NEW e \in queue'[s]
        PROVE  \/ Len(Out(s)) < Len(FilteredSchedule(s)) /\ e = NextStartEvent(s)
               \/ \E c \in Burst : From(c) = s /\ IsBurstEvent(c, e)'
    <3>1. CASE e = send
      <4>1. e = SendEvent(b)' /\ HasStarted(b)' /\ ~(m_sent'[b] > 0)
        BY <1>3, <1>4, <1>5, <1>7, <3>1
      <4>2. IsBurstEvent(b, e)'
        BY <4>1 DEF IsBurstEvent
      <4> QED BY <1>3, <4>2
    <3>2. CASE e \in queue[s] /\ e # ev
      <4>1. ASSUME NEW c \in Burst, From(c) = s, IsBurstEvent(c, e) PROVE IsBurstEvent(c, e)'
        <5>1. c # b
          BY <1>3, <1>4, <3>2, <4>1 DEF IsBurstEvent
        <5> QED BY <1>5, <1>7, <1>8, <4>1, <5>1, BurstEventStays
      <4> QED BY <2>1, <3>2, <4>1 DEF EventInv
    <3> QED BY <1>6, <3>1, <3>2
  <2> QED BY <1>5, <2>2, <2>3 DEF EventInv
<1>12. ASSUME NEW r \in System
       PROVE  ChainInv(r)' /\ EventInv(r)' /\ ResultsInv(r)' /\ In(r)' = IncomingInSetupOrder(r)'
  <2>1. ASSUME r # s PROVE ChainInv(r)' /\ EventInv(r)'
    BY <1>5, <1>6, <2>1, QueueStays
  <2>2. ResultsInv(r)'
    BY <1>2, <1>6, ResultsStay
  <2> QED BY <1>5, <1>6, <1>10, <1>11, <2>1, <2>2 DEF BurstInv
<1>13. ASSUME NEW c \in Burst PROVE ClientInv(c)'
  <2>1. ClientInv(c) /\ From(c) \in System
    BY <1>1, Types DEF BurstInv
  <2>2. ASSUME From(c) = s PROVE ClientInv(c)'
    <3>1. /\ m_sent'[c] = m_sent[c] /\ outgoing'[c] = outgoing[c]
          /\ \A m : SendTime(c, m)' = SendTime(c, m)
          /\ \A m : GoesOn(c, SendTime(c, m))' <=> GoesOn(c, SendTime(c, m))
      BY <1>2, ConstantInputs DEF GoesOn
    <3>2. HasStarted(c)' /\ m_sent'[c] = 0 =>
            StartEvent(c)' \in queue'[From(c)'] \/ SendEvent(c)' \in queue'[From(c)']
      <4>1. CASE c = b
        BY <1>3, <1>4, <1>5, <1>6, <1>7, <4>1
      <4>2. CASE c # b
        BY <1>5, <1>7, <1>8, <2>1, <2>2, <3>1, <4>2 DEF ClientInv
      <4> QED BY <4>1, <4>2
    <3> QED BY <1>7, <2>1, <3>1, <3>2 DEF ClientInv
  <2>3. ASSUME From(c) # s PROVE ClientInv(c)'
    BY <1>2, <1>6, <2>1, <2>3, ClientStays DEF Out
  <2> QED BY <2>2, <2>3
<1>16. ASSUME NEW c \in Burst PROVE SocketInv(c)'
  <2>1. /\ clock' = clock /\ clock[From(c)] \in Nat /\ clock'[From(c)] \in Nat
        /\ clock[From(c)] <= clock'[From(c)]
    <3>1. clock[From(c)] \in 0 .. EndTime /\ EndTime \in Nat
      BY <1>1, Types, TimesAssumption
    <3> QED BY <1>2, <3>1
  <2>2. CASE c = b
    <3>1. StartEvent(b)' \notin queue'[From(b)'] /\ HasStarted(b)'
      <4>1. ev # send
        OBVIOUS
      <4> HIDE DEF ev, send
      <4> QED BY <1>3, <1>4, <1>5, <1>6, <1>7, <4>1
    <3>2. schedule'[b].start <= clock'[From(b)']
      BY <1>2, <1>3, <1>5, <2>1, <2>2, ConstantInputs
    <3> QED BY <2>2, <3>1, <3>2 DEF SocketInv
  <2>3. CASE c # b
    <3>1. StartEvent(c) \in queue'[From(c)] => StartEvent(c) \in queue[From(c)]
      <4>1. StartEvent(c) # send
        BY DEF StartEvent
      <4>2. From(c) \in System
        BY <1>1, Types
      <4> HIDE DEF send, ev
      <4> QED BY <1>6, <4>1, <4>2
    <3> QED BY <1>2, <1>7, <2>1, <2>3, <3>1, SocketStays
  <2> QED BY <2>2, <2>3
<1>14. ASSUME NEW c \in Burst PROVE ServerInv(c)'
  <2>1. m_sent[c] \in Nat
    BY <1>1, Types
  <2> QED BY <1>2, <2>1, ServerStays
<1>15. PacketInv'
  <2>1. \A p \in wire : p[1] \in Burst
    BY <1>1 DEF TypeOK
  <2>2. \A p \in wire : m_sent[p[1]] \in Nat
    BY <1>1, <2>1, Types
  <2> QED BY <1>2, <2>2, PacketStays DEF PacketInv
<1>17. Accepted' /\ OnlyScheduleAborts'
  BY <1>2, GoesOnSound DEF BurstInv, Running
<1> QED BY <1>2, <1>5, <1>9, <1>12, <1>13, <1>14, <1>15, <1>16, <1>17 DEF BurstInv

\* A packet is sent a whole number of gaps after the start of its burst, and
\* nothing of the same number was ever received.
LEMMA SendStep ==
  ASSUME BurstInv, NEW s \in System, NEW b \in Burst, Send(s, b)
  PROVE  BurstInv'
<1>k. PICK k : k = m_sent[b]
  OBVIOUS
<1> DEFINE ev == <<clock[s], "Send", b>>
           next == clock[s] + PacketGap(b)
           again == <<next, "Send", b>>
           new == IF GoesOn(b, next) THEN {again} ELSE {}
           line == <<k, clock[s]>>
           packet == <<b, k, clock[s]>>
<1>1. TypeOK /\ Accepted /\ schedule \in Schedules /\ assignment \in Assignments
  BY DEF BurstInv, TypeOK
<1>2. /\ Running(s) /\ ev \in queue[s]
      /\ queue' = [queue EXCEPT ![s] = (@ \ {ev}) \cup new]
      /\ m_sent' = [m_sent EXCEPT ![b] = @ + 1]
      /\ outgoing' = [outgoing EXCEPT ![b] = Append(@, line)]
      /\ wire' = wire \cup {packet}
      /\ UNCHANGED <<inputs, clock, responsible, m_socket, counter, incoming, results, crashed>>
  BY <1>k DEF Send, Due, Run, HeaderSeq
<1>3. /\ From(b) = s /\ HasStarted(b) /\ clock[s] = SendTime(b, k)
      /\ k > 0 => GoesOn(b, SendTime(b, k))
  BY <1>2, <1>k, Events
<1>4. k \in Nat /\ clock[s] \in Nat /\ b \in Nat /\ next \in Nat
      /\ next = SendTime(b, k + 1) /\ clock[s] <= next
  <2>1. k \in Nat /\ b \in Nat
    BY <1>1, <1>k, Types
  <2>2. clock[s] \in Nat
    BY <1>2, RunningSystem
  <2>3. SendTime(b, k + 1) = SendTime(b, k) + PacketGap(b) /\ PacketGap(b) \in Nat
    BY <1>1, <2>1, SendTimes, GapOf
  <2> QED BY <1>3, <2>1, <2>2, <2>3
<1>5. /\ Burst' = Burst /\ \A e : Registered(e)' = Registered(e)
      /\ \A r : IncomingInSetupOrder(r)' = IncomingInSetupOrder(r)
      /\ \A c : From(c)' = From(c)
      /\ \A c, m : SendTime(c, m)' = SendTime(c, m)
      /\ \A c, m : GoesOn(c, m)' = GoesOn(c, m)
      /\ UNCHANGED inputs /\ schedule' = schedule
  BY <1>2, ConstantInputs
<1>6. /\ m_sent'[b] = k + 1 /\ outgoing'[b] = Append(outgoing[b], line)
      /\ m_sent' \in [Burst -> Nat]
      /\ \A c \in Burst : c # b => m_sent'[c] = m_sent[c] /\ outgoing'[c] = outgoing[c]
      /\ \A c \in Burst : m_sent[c] \in Nat /\ m_sent[c] <= m_sent'[c]
  BY <1>1, <1>2, <1>k DEF TypeOK
<1>7. /\ queue'[s] = (queue[s] \ {ev}) \cup new
      /\ \A r \in System : r # s => queue'[r] = queue[r]
      /\ \A r \in System : Out(r)' = Out(r) /\ In(r)' = In(r)
  BY <1>1, <1>2 DEF TypeOK, Out, In, responsible
<1>8. SendEvent(b) = ev /\ SendEvent(b)' = again
  BY <1>3, <1>4, <1>5, <1>6, <1>k DEF SendEvent
<1>9. /\ \A c \in Burst : /\ HasStarted(c)' <=> HasStarted(c)
                          /\ StartEvent(c)' = StartEvent(c)
      /\ \A c \in Burst : c # b => SendEvent(c)' = SendEvent(c)
  <2>1. \A c \in Burst : From(c) \in System
    BY <1>1, Types
  <2> QED BY <1>5, <1>6, <1>7, <2>1, BurstStays, ConstantInputs DEF HasStarted
<1>10. \A c \in Burst : c # b =>
         /\ SendEvent(c) \in queue'[s] <=> SendEvent(c) \in queue[s]
         /\ StartEvent(c) \in queue[s] => StartEvent(c) \in queue'[s]
  <2>1. \A c : c # b => SendEvent(c) # ev /\ SendEvent(c) # again /\ StartEvent(c) # ev
    BY DEF SendEvent, StartEvent
  <2>2. \A e \in new : e = again
    OBVIOUS
  <2> HIDE DEF ev, again, new
  <2> QED BY <1>7, <2>1, <2>2
<1>11. TypeOK'
  <2>1. queue'[s] \in SUBSET (Nat \X EventKinds \X Nat)
        /\ \A e \in queue'[s] : clock[s] <= e[1]
    <3>1. queue[s] \in SUBSET (Nat \X EventKinds \X Nat)
          /\ \A e \in queue[s] : clock[s] <= e[1]
      BY <1>1 DEF TypeOK
    <3>2. again \in Nat \X EventKinds \X Nat /\ clock[s] <= again[1]
      BY <1>4 DEF EventKinds
    <3>3. \A e \in new : e = again
      OBVIOUS
    <3> HIDE DEF again, new
    <3> QED BY <1>7, <3>1, <3>2, <3>3
  <2>2. queue' \in [System -> SUBSET (Nat \X EventKinds \X Nat)]
    BY <1>1, <1>2, <2>1 DEF TypeOK
  <2>3. \A r \in System : \A e \in queue'[r] : clock'[r] <= e[1]
    BY <1>1, <1>2, <1>7, <2>1 DEF TypeOK
  <2>4. outgoing' \in [Burst -> Lines]
    <3>1. line \in Nat \X Nat /\ outgoing \in [Burst -> Lines]
      BY <1>1, <1>4 DEF TypeOK
    <3>2. Append(outgoing[b], line) \in Lines
      BY <3>1, Appended DEF Lines
    <3> QED BY <1>2, <3>1, <3>2
  <2>5. wire' \subseteq Burst \X Nat \X Nat
    <3>1. packet \in Burst \X Nat \X Nat
      BY <1>4
    <3> HIDE DEF packet
    <3> QED BY <1>1, <1>2, <3>1 DEF TypeOK
  <2> QED BY <1>1, <1>2, <1>5, <1>6, <2>2, <2>3, <2>4, <2>5 DEF TypeOK, inputs, responsible
<1>12. ChainInv(s)'
  <2>1. ChainInv(s)
    BY DEF BurstInv
  <2>2. \A t, x : <<t, "StartNextUdpBurst", x>> \in queue[s] =>
                    <<t, "StartNextUdpBurst", x>> \in queue'[s]
    BY <1>7
  <2> QED BY <1>5, <1>7, <2>1, <2>2, ConstantInputs DEF ChainInv
<1>13. EventInv(s)'
  <2>1. EventInv(s)
    BY DEF BurstInv
  <2>2. NextStartEvent(s)' = NextStartEvent(s)
        /\ Len(Out(s))' = Len(Out(s)) /\ Len(FilteredSchedule(s))' = Len(FilteredSchedule(s))
    BY <1>5, <1>7, ConstantInputs DEF NextStartEvent
  <2>3. ASSUME NEW e \in queue'[s]
        PROVE  \/ Len(Out(s)) < Len(FilteredSchedule(s)) /\ e = NextStartEvent(s)
               \/ \E c \in Burst : From(c) = s /\ IsBurstEvent(c, e)'
    <3>1. CASE e \in new
      <4>1. e = again /\ GoesOn(b, next)
        BY <3>1
      <4>2. e = SendEvent(b)' /\ HasStarted(b)' /\ GoesOn(b, SendTime(b, k + 1))
        BY <1>3, <1>4, <1>8, <1>9, <4>1
      <4>3. GoesOn(b, SendTime(b, m_sent[b]))'
        BY <1>5, <1>6, <4>2 DEF SendTime, PacketGap, GoesOn
      <4>4. IsBurstEvent(b, e)'
        BY <4>2, <4>3 DEF IsBurstEvent
      <4> QED BY <1>3, <4>4
    <3>2. CASE e \in queue[s] /\ e # ev
      <4>1. ASSUME NEW c \in Burst, From(c) = s, IsBurstEvent(c, e) PROVE IsBurstEvent(c, e)'
        <5>1. c # b
          BY <1>2, <1>3, <1>8, <3>2, <4>1 DEF IsBurstEvent
        <5> QED BY <1>5, <1>6, <1>9, <1>10, <4>1, <5>1, BurstEventStays
      <4> QED BY <2>1, <3>2, <4>1 DEF EventInv
    <3> QED BY <1>7, <3>1, <3>2
  <2> QED BY <1>5, <2>2, <2>3 DEF EventInv
<1>14. ASSUME NEW r \in System
       PROVE  ChainInv(r)' /\ EventInv(r)' /\ ResultsInv(r)' /\ In(r)' = IncomingInSetupOrder(r)'
  <2>1. r # s => \A c \in Burst : From(c) = r => m_sent'[c] = m_sent[c]
    BY <1>3, <1>6
  <2>2. ASSUME r # s PROVE ChainInv(r)' /\ EventInv(r)'
    BY <1>5, <1>7, <2>1, <2>2, QueueStays
  <2>3. Written(r) => r # s
    BY <1>2, RunningSystem
  <2>4. ResultsInv(r)'
    BY <1>2, <1>7, <2>1, <2>3, ResultsStay
  <2> QED BY <1>5, <1>7, <1>12, <1>13, <2>2, <2>4 DEF BurstInv
<1>15. ASSUME NEW c \in Burst PROVE ClientInv(c)'
  <2>1. ClientInv(c) /\ From(c) \in System
    BY <1>1, Types DEF BurstInv
  <2>2. ASSUME From(c) = s, c # b PROVE ClientInv(c)'
    <3>1. /\ m_sent'[c] = m_sent[c] /\ outgoing'[c] = outgoing[c]
          /\ \A m : SendTime(c, m)' = SendTime(c, m)
          /\ \A m : GoesOn(c, SendTime(c, m))' <=> GoesOn(c, SendTime(c, m))
      BY <1>5, <1>6, <2>2 DEF GoesOn
    <3>2. HasStarted(c)' /\ m_sent'[c] = 0 =>
            StartEvent(c)' \in queue'[From(c)'] \/ SendEvent(c)' \in queue'[From(c)']
      BY <1>5, <1>9, <1>10, <2>1, <2>2, <3>1 DEF ClientInv
    <3> QED BY <1>9, <2>1, <2>2, <3>1, <3>2 DEF ClientInv
  <2>3. ASSUME From(c) # s PROVE ClientInv(c)'
    BY <1>2, <1>3, <1>6, <1>7, <2>1, <2>3, ClientStays DEF Out
  <2>4. ASSUME c = b PROVE ClientInv(c)'
    <3>1. /\ outgoing[b] = [m \in 1 .. k |-> <<m - 1, SendTime(b, m - 1)>>]
          /\ \A m \in 1 .. k - 1 : GoesOn(b, SendTime(b, m))
      BY <1>k, <2>1, <2>4 DEF ClientInv
    <3>2. outgoing'[b] = [m \in 1 .. k + 1 |-> <<m - 1, SendTime(b, m - 1)>>]
      <4> DEFINE log == outgoing[b]
      <4>1. log \in Seq(Nat \X Nat) /\ Len(log) = k
        <5>1. log \in Seq(Nat \X Nat) /\ DOMAIN log = 1 .. k
          BY <1>1, <3>1 DEF TypeOK, Lines
        <5> HIDE DEF log
        <5> QED BY <1>4, <5>1
      <4>2. line \in Nat \X Nat /\ line = <<k, SendTime(b, k)>>
        BY <1>3, <1>4
      <4>3. \A m \in 1 .. k : log[m] = <<m - 1, SendTime(b, m - 1)>>
        BY <3>1
      <4>4. (k + 1) - 1 = k
        BY <1>4
      <4> HIDE DEF log, line
      <4>5. /\ Append(log, line) \in Seq(Nat \X Nat) /\ DOMAIN Append(log, line) = 1 .. k + 1
            /\ \A m \in 1 .. k + 1 : m \in 1 .. k \/ m = k + 1
            /\ \A m \in 1 .. k : Append(log, line)[m] = log[m]
            /\ Append(log, line)[k + 1] = line
        BY <4>1, <4>2, Appended
      <4>6. \A m \in 1 .. k + 1 : Append(log, line)[m] = <<m - 1, SendTime(b, m - 1)>>
        BY <4>2, <4>3, <4>4, <4>5
      <4>7. Append(log, line) = [m \in 1 .. k + 1 |-> <<m - 1, SendTime(b, m - 1)>>]
        <5>1. Append(log, line) \in [1 .. k + 1 -> Nat \X Nat]
          BY <4>1, <4>2, Appended
        <5> QED BY <4>6, <5>1
      <4> QED BY <1>6, <4>7 DEF log
    <3>3. \A m \in 1 .. (k + 1) - 1 : GoesOn(b, SendTime(b, m))
      <4>1. \A m \in 1 .. (k + 1) - 1 : m \in 1 .. k - 1 \/ (m = k /\ k > 0)
        BY <1>4
      <4> QED BY <1>3, <3>1, <4>1
    <3>4. m_sent'[b] > 0 /\ m_sent'[b] # 0 /\ HasStarted(b)'
      BY <1>3, <1>4, <1>6, <1>9
    <3>5. outgoing'[b] = [m \in 1 .. m_sent'[b] |-> <<m - 1, SendTime(b, m - 1)'>>]
      BY <1>5, <1>6, <3>2
    <3>6. (\A m \in 1 .. m_sent[b] - 1 : GoesOn(b, SendTime(b, m)))'
      BY <1>5, <1>6, <3>3 DEF GoesOn
    <3> QED BY <2>4, <3>4, <3>5, <3>6 DEF ClientInv
  <2> QED BY <2>2, <2>3, <2>4
<1>16. ASSUME NEW c \in Burst PROVE ServerInv(c)'
  <2>1. m_sent'[c] \in Nat /\ m_sent[c] <= m_sent'[c]
    BY <1>6
  <2> QED BY <1>2, <2>1, ServerStays
<1>18. ASSUME NEW c \in Burst PROVE SocketInv(c)'
  <2>1. clock'[From(c)] \in Nat /\ clock[From(c)] <= clock'[From(c)]
    <3>1. clock[From(c)] \in 0 .. EndTime /\ EndTime \in Nat
      BY <1>1, Types, TimesAssumption
    <3> QED BY <1>2, <3>1
  <2>2. StartEvent(c) \in queue'[From(c)] => StartEvent(c) \in queue[From(c)]
    <3>1. StartEvent(c) # again
      BY DEF StartEvent
    <3>2. StartEvent(c) \notin new
      BY <3>1
    <3>3. From(c) \in System
      BY <1>1, Types
    <3> HIDE DEF new, ev, again
    <3> QED BY <1>7, <3>2, <3>3
  <2> QED BY <1>2, <1>9, <2>1, <2>2, SocketStays
<1>19. Accepted' /\ OnlyScheduleAborts'
  BY <1>2, GoesOnSound DEF BurstInv, Running
<1>17. PacketInv'
  <2>1. ASSUME NEW p \in wire
        PROVE  /\ p[2] < m_sent'[p[1]] /\ p[3] = SendTime(p[1], p[2])'
               /\ \A m \in DOMAIN incoming'[p[1]] : incoming'[p[1]][m][1] # p[2]
    <3>1. p[1] \in Burst
      BY <1>1 DEF TypeOK
    <3>2. m_sent'[p[1]] \in Nat /\ m_sent[p[1]] <= m_sent'[p[1]]
      BY <1>6, <3>1
    <3> QED BY <1>2, <3>2, PacketStays
  <2>2. /\ k < m_sent'[b] /\ clock[s] = SendTime(b, k)'
        /\ \A m \in DOMAIN incoming'[b] : incoming'[b][m][1] # k
    <3>1. ServerInv(b) /\ incoming[b] \in Lines
      BY <1>1, Types DEF BurstInv
    <3>2. \A m \in DOMAIN incoming[b] : incoming[b][m][1] < k /\ incoming[b][m][1] \in Nat
      <4>1. /\ DOMAIN incoming[b] = 1 .. Len(incoming[b])
            /\ \A m \in 1 .. Len(incoming[b]) : incoming[b][m][1] \in Nat
        BY <3>1 DEF Lines
      <4> QED BY <1>k, <3>1, <4>1 DEF ServerInv
    <3>3. \A m \in DOMAIN incoming[b] : incoming[b][m][1] # k
      BY <1>4, <3>2
    <3> QED BY <1>2, <1>3, <1>4, <1>5, <1>6, <3>3
  <2>3. packet[1] = b /\ packet[2] = k /\ packet[3] = clock[s]
    OBVIOUS
  <2> HIDE DEF packet
  <2> QED BY <1>2, <2>1, <2>2, <2>3 DEF PacketInv
<1> QED BY <1>2, <1>5, <1>11, <1>14, <1>15, <1>16, <1>17, <1>18, <1>19 DEF BurstInv

\* A burst to or from a number that is no node ends the run when it is due.
LEMMA StartNextAborts ==
  ASSUME BurstInv, NEW s \in System, NEW i \in Burst, StartNextUdpBurst(s, i), crashed'
  PROVE  BurstInv'
<1>1. TypeOK /\ Accepted /\ schedule \in Schedules /\ assignment \in Assignments
  BY DEF BurstInv, TypeOK
<1>2. /\ Running(s) /\ <<clock[s], "StartNextUdpBurst", i>> \in queue[s]
      /\ UNCHANGED <<inputs, clock, m_responsible_for_incoming_bursts, m_socket, m_sent,
                     counter, outgoing, incoming, wire, results>>
  BY DEF StartNextUdpBurst, Due
<1>3. Len(Out(s)) < Len(FilteredSchedule(s)) /\ i = Len(Out(s)) + 1 /\ clock[s] = StartOf(s, i)
  BY <1>2, Events
<1>4. i \in 1 .. Len(FilteredSchedule(s))
  <2>1. Len(Out(s)) \in Nat /\ Len(FilteredSchedule(s)) \in Nat
    BY <1>1, OutFacts, FilteredFacts
  <2> QED BY <1>3, <2>1
<1>5. PICK b \in Burst : b = FilteredSchedule(s)[i] /\ From(b) = s
  BY <1>1, <1>4, FilteredFacts
<1>6. clock[s] = schedule[b].start /\ clock[s] \in Nat
  BY <1>1, <1>3, <1>4, <1>5, StartTimes
<1>7. /\ ~({schedule[b].from, schedule[b].to} \subseteq Endpoints) /\ crashed' = TRUE
      /\ UNCHANGED <<queue, m_responsible_for_outgoing_bursts>>
  BY <1>2, <1>3, <1>5 DEF StartNextUdpBurst, Running
<1>8. OnlyScheduleAborts'
  <2>1. Burst' = Burst /\ schedule' = schedule /\ From(b)' = From(b) /\ clock' = clock
    BY <1>2, ConstantInputs
  <2>2. schedule[b].start <= clock[From(b)]
    BY <1>5, <1>6
  <2> QED BY <1>7, <2>1, <2>2 DEF OnlyScheduleAborts
<1> QED BY <1>2, <1>7, <1>8, CrashStep DEF responsible

\* The burst that finds no port is one of more bursts than the node has ports:
\* those with a socket have started from the node before.
LEMMA StartApplicationAborts ==
  ASSUME BurstInv, NEW s \in System, NEW b \in Burst, StartApplication(s, b), crashed'
  PROVE  BurstInv'
<1> DEFINE e == schedule[b].from
           has == SocketsOf(e)
           all == StartsAt(e, clock[s])
<1>1. TypeOK /\ Accepted /\ schedule \in Schedules /\ assignment \in Assignments
  BY DEF BurstInv, TypeOK
<1>2. /\ Running(s) /\ <<clock[s], "StartApplication", b>> \in queue[s]
      /\ UNCHANGED <<inputs, clock, responsible, m_sent, counter, outgoing, incoming, wire,
                     results>>
  BY DEF StartApplication, Due
<1>3. Cardinality(has) >= Ports /\ crashed' = TRUE /\ UNCHANGED <<m_socket, queue>>
  BY <1>2 DEF StartApplication, Running
<1>4. /\ From(b) = s /\ clock[s] = schedule[b].start /\ clock[s] \in Nat
      /\ StartEvent(b) \in queue[s]
  <2>1. From(b) = s /\ clock[s] = schedule[b].start
    BY <1>2, Events
  <2> QED BY <1>2, <2>1, RunningSystem DEF StartEvent
<1>5. IsFiniteSet(all) /\ has \cup {b} \subseteq all /\ b \notin has
  <2>1. IsFiniteSet(Burst)
    BY <1>1, Inputs
  <2>2. IsFiniteSet(all)
    BY <2>1, FS_Subset DEF StartsAt
  <2>3. b \in all
    BY <1>4 DEF StartsAt
  <2>4. b \notin has
    <3>1. SocketInv(b)
      BY DEF BurstInv
    <3> QED BY <1>4, <3>1 DEF SocketInv, SocketsOf
  <2>5. ASSUME NEW c \in has PROVE c \in all
    <3>1. c \in m_socket /\ c \in Burst /\ schedule[c].from = e
      BY <1>1 DEF SocketsOf, TypeOK
    <3>2. From(c) = s
      BY <1>4, <3>1 DEF From
    <3>3. SocketInv(c)
      BY <3>1 DEF BurstInv
    <3>4. schedule[c].start <= clock[s]
      BY <3>1, <3>2, <3>3 DEF SocketInv
    <3> QED BY <3>1, <3>4 DEF StartsAt
  <2> HIDE DEF has, all
  <2> QED BY <2>2, <2>3, <2>4, <2>5
<1>6. Cardinality(all) > Ports
  <2> HIDE DEF has, all
  <2>1. IsFiniteSet(has) /\ IsFiniteSet(has \cup {b})
    BY <1>5, FS_Subset
  <2>2. Cardinality(has \cup {b}) = Cardinality(has) + 1 /\ Cardinality(has) \in Nat
    BY <1>5, <2>1, FS_AddElement, FS_CardinalityType
  <2>3. Cardinality(has \cup {b}) <= Cardinality(all) /\ Cardinality(all) \in Nat
    BY <1>5, FS_Subset, FS_CardinalityType
  <2> QED BY <1>3, <2>2, <2>3, PortsAssumption
<1>7. OnlyScheduleAborts'
  <2>1. Burst' = Burst /\ schedule' = schedule /\ From(b)' = From(b) /\ clock' = clock
    BY <1>2, ConstantInputs
  <2>2. {c \in Burst' : schedule'[c].from = schedule'[b].from
                        /\ schedule'[c].start <= clock'[From(b)']} = all
    BY <1>4, <2>1 DEF StartsAt
  <2>3. schedule[b].start <= clock[From(b)]
    BY <1>4
  <2> QED BY <1>6, <2>1, <2>2, <2>3 DEF OnlyScheduleAborts, StartsAt
<1> QED BY <1>2, <1>3, <1>7, CrashStep

LEMMA NextBurstInv ==
  ASSUME BurstInv, [Next]_vars PROVE BurstInv'
<1>1. ASSUME NEW s \in System, SystemStep(s) PROVE BurstInv'
  <2>1. CASE \E i \in Burst : StartNextUdpBurst(s, i)
    BY <2>1, StartNextStep, StartNextAborts
  <2>2. CASE \E b \in Burst : StartApplication(s, b)
    BY <2>2, StartApplicationStep, StartApplicationAborts
  <2>3. CASE \E b \in Burst : Send(s, b)
    BY <2>3, SendStep
  <2>4. CASE Tick(s) \/ WriteResults(s)
    BY <2>4, TickStep, WriteStep
  <2> QED BY <1>1, <2>1, <2>2, <2>3, <2>4 DEF SystemStep
<1>2. CASE \E s \in System : SystemStep(s)
  BY <1>1, <1>2
<1>3. CASE \E s \in System, p \in wire : HandleRead(s, p)
  BY <1>3, ReadStep
<1>4. CASE \E p \in wire : Lose(p)
  BY <1>4, LoseStep
<1>5. CASE UNCHANGED vars
  BY <1>5, StutterStep
<1> QED BY <1>2, <1>3, <1>4, <1>5 DEF Next

\* The constructor of a scheduler threw: there is no run.
Refused ==
  /\ TypeOK /\ crashed
  /\ \A b \in Burst : outgoing[b] = <<>> /\ incoming[b] = <<>>
  /\ \A s \in System : ~Written(s)

RunInv == (Accepted => BurstInv) /\ (~Accepted => Refused)

LEMMA InitRunInv ==
  ASSUME Init PROVE RunInv
<1>1. CASE Accepted
  BY <1>1, InitBurstInv DEF RunInv
<1>2. CASE ~Accepted
  <2>1. TypeOK
    BY InitTypeOK
  <2>2. PICK b \in Burst : From(b) \notin System
    BY <1>2 DEF Accepted
  <2>3. From(b) = Nobody
    <3>1. schedule[b].from \in Numbers /\ assignment \in [Numbers -> System \cup {Nobody}]
      BY Inputs, EndpointsAssumption DEF Init
    <3> QED BY <2>2, <3>1 DEF From
  <2>4. crashed
    BY <2>3 DEF Init
  <2> QED BY <1>2, <2>1, <2>4 DEF Init, RunInv, Refused, Written
<1> QED BY <1>1, <1>2

LEMMA NextRunInv ==
  ASSUME RunInv, [Next]_vars PROVE RunInv'
<1>1. Accepted' <=> Accepted
  <2>1. UNCHANGED inputs
    BY DEF Next, SystemStep, StartNextUdpBurst, StartApplication, Send, Tick, WriteResults,
           HandleRead, Lose, vars
  <2> QED BY <2>1, ConstantInputs DEF Accepted
<1>2. CASE Accepted
  BY <1>1, <1>2, NextBurstInv DEF RunInv
<1>3. CASE ~Accepted
  <2>1. Refused
    BY <1>3 DEF RunInv
  <2>2. UNCHANGED vars
    BY <2>1 DEF Refused, Next, SystemStep, StartNextUdpBurst, StartApplication, Send, Tick,
                WriteResults, HandleRead, Lose, Due, Running
  <2>3. UNCHANGED inputs
    BY <2>2 DEF vars
  <2>4. Burst' = Burst /\ \A e : Registered(e)' = Registered(e)
    BY <2>3, ConstantInputs
  <2>5. TypeOK'
    BY <2>1, <2>2, <2>4 DEF Refused, TypeOK, vars, inputs, responsible
  <2>6. Refused'
    BY <2>1, <2>2, <2>4, <2>5 DEF Refused, Written, vars
  <2> QED BY <1>1, <1>3, <2>6 DEF RunInv
<1> QED BY <1>2, <1>3

\* Everything that is known of a run in the middle of it: what is scheduled, what has been
\* sent and received, and what the files say; or that it never began.
THEOREM BurstInvariant == Spec => []RunInv
<1>1. Init => RunInv
  BY InitRunInv
<1>2. RunInv /\ [Next]_vars => RunInv'
  BY NextRunInv
<1> QED BY <1>1, <1>2, PTL DEF Spec

----------------------------------------------------------------------------
(* The properties *)

\* Values have their types, and no event of a system is in its past.
THEOREM BurstTypes == Spec => []TypeOK
<1>1. RunInv => TypeOK
  BY DEF RunInv, Refused, BurstInv
<1> QED BY <1>1, BurstInvariant, PTL

\* The run dies only of its schedule: every event of the chain comes at the
\* start time of its burst, every server knows the bursts whose packets reach
\* it, and a burst is refused a port only if too many are due at its node.
THEOREM OnlyTheScheduleAborts == Spec => []OnlyScheduleAborts
<1>1. RunInv => OnlyScheduleAborts
  <2>1. CASE Accepted
    BY <2>1 DEF RunInv, BurstInv
  <2>2. ASSUME RunInv, ~Accepted PROVE OnlyScheduleAborts
    <3>1. TypeOK
      BY <2>2 DEF RunInv, Refused
    <3>2. PICK b \in Burst : From(b) \notin System
      BY <2>2 DEF Accepted
    <3>3. schedule[b].from \in Numbers /\ assignment \in [Numbers -> System \cup {Nobody}]
      BY <3>1, Inputs, EndpointsAssumption DEF TypeOK
    <3>4. From(b) = Nobody
      BY <3>2, <3>3 DEF From
    <3> QED BY <3>4 DEF OnlyScheduleAborts
  <2> QED BY <2>1, <2>2
<1> QED BY <1>1, BurstInvariant, PTL

\* At the end of the simulation all bursts of a system have been started: an
\* event of the chain that was left would be before the end.
LEMMA AllStarted ==
  ASSUME BurstInv, NEW s \in System, clock[s] = EndTime,
         NEW b \in Burst, From(b) = s
  PROVE  HasStarted(b) /\ m_sent[b] > 0
<1>1. TypeOK /\ Accepted /\ schedule \in Schedules /\ assignment \in Assignments
  BY DEF BurstInv, TypeOK
<1>2. \A t, k, x : <<t, k, x>> \in queue[s] => EndTime <= t
  BY <1>1 DEF TypeOK
<1>3. ChainInv(s) /\ ClientInv(b)
  BY DEF BurstInv
<1>4. Len(Out(s)) \in Nat /\ Len(FilteredSchedule(s)) \in Nat /\ EndTime \in Nat
      /\ DOMAIN Out(s) = 1 .. Len(Out(s))
  BY <1>1, OutFacts, FilteredFacts, TimesAssumption
<1>5. Len(Out(s)) = Len(FilteredSchedule(s))
  <2>1. SUFFICES ASSUME Len(Out(s)) # Len(FilteredSchedule(s)) PROVE FALSE
    OBVIOUS
  <2> DEFINE n == Len(Out(s)) + 1
  <2>2. n \in 1 .. Len(FilteredSchedule(s))
    BY <1>3, <1>4, <2>1 DEF ChainInv
  <2>3. <<StartOf(s, n), "StartNextUdpBurst", n>> \in queue[s]
    BY <1>3, <1>4, <2>2 DEF ChainInv
  <2>4. StartOf(s, n) \in Nat /\ StartOf(s, n) < EndTime
    BY <1>1, <2>2, StartTimes
  <2> HIDE DEF n
  <2> QED BY <1>2, <1>4, <2>3, <2>4
<1>6. HasStarted(b)
  <2>1. PICK x \in 1 .. Len(FilteredSchedule(s)) : FilteredSchedule(s)[x] = b
    BY <1>1, FilteredFacts
  <2>2. x \in DOMAIN Out(s) /\ Out(s)[x] = b
    BY <1>3, <1>4, <1>5, <2>1 DEF ChainInv
  <2> QED BY <2>2 DEF HasStarted
<1>7. m_sent[b] # 0
  <2>1. SUFFICES ASSUME m_sent[b] = 0 PROVE FALSE
    OBVIOUS
  <2>2. StartEvent(b) \in queue[s] \/ SendEvent(b) \in queue[s]
    BY <1>3, <1>6, <2>1 DEF ClientInv
  <2>3. SendTime(b, 0) = schedule[b].start /\ schedule[b].start \in 0 .. EndTime - 1
    BY <1>1, SendTimes, Inputs
  <2>4. EndTime <= schedule[b].start
    BY <1>2, <2>1, <2>2, <2>3 DEF StartEvent, SendEvent
  <2> QED BY <1>4, <2>3, <2>4
<1> QED BY <1>1, <1>6, <1>7, Types

LEMMA RowsOf ==
  ASSUME BurstInv, NEW s \in System, Written(s)
  PROVE  /\ clock[s] = EndTime
         /\ DOMAIN results[s].outgoing = 1 .. Len(Out(s))
         /\ \A r \in 1 .. Len(Out(s)) :
              LET b == AscendingIds(Out(s))[r] IN results[s].outgoing[r] = <<b, m_sent[b]>>
         /\ DOMAIN results[s].incoming = 1 .. Len(In(s))
         /\ \A r \in 1 .. Len(In(s)) :
              LET b == AscendingIds(In(s))[r]
              IN results[s].incoming[r] = <<b, counter[schedule[b].to][b]>>
         /\ Len(results[s].outgoing) = Len(Out(s)) /\ Len(results[s].incoming) = Len(In(s))
<1>1. clock[s] = EndTime
      /\ results[s].outgoing = OutgoingRows(AscendingIds(Out(s)))
      /\ results[s].incoming = IncomingRows(AscendingIds(In(s)))
  <2>1. ResultsInv(s)
    BY DEF BurstInv
  <2> DEFINE out == OutgoingRows(AscendingIds(Out(s)))
             in == IncomingRows(AscendingIds(In(s)))
  <2>2. clock[s] = EndTime /\ results[s] = [outgoing |-> out, incoming |-> in]
    BY <2>1 DEF ResultsInv
  <2> HIDE DEF out, in
  <2>3. clock[s] = EndTime /\ results[s].outgoing = out /\ results[s].incoming = in
    BY <2>2
  <2> QED BY <2>3 DEF out, in
<1>2. DOMAIN AscendingIds(Out(s)) = 1 .. Len(Out(s)) /\ DOMAIN AscendingIds(In(s)) = 1 .. Len(In(s))
      /\ Len(Out(s)) \in Nat /\ Len(In(s)) \in Nat
  BY OutgoingIds, IncomingIds, OutFacts, InFacts
<1>3. results[s].outgoing = [r \in 1 .. Len(Out(s)) |->
        <<AscendingIds(Out(s))[r], m_sent[AscendingIds(Out(s))[r]]>>]
  BY <1>1, <1>2 DEF OutgoingRows
<1>4. results[s].incoming = [r \in 1 .. Len(In(s)) |->
        <<AscendingIds(In(s))[r],
          counter[schedule[AscendingIds(In(s))[r]].to][AscendingIds(In(s))[r]]>>]
  BY <1>1, <1>2 DEF IncomingRows
<1>5. Len(results[s].outgoing) = Len(Out(s))
  BY <1>2, <1>3
<1>6. Len(results[s].incoming) = Len(In(s))
  BY <1>2, <1>4
<1> QED BY <1>1, <1>3, <1>4, <1>5, <1>6

\* Each burst is reported by the system it starts in and by the one it ends
\* in, by no other, and in the order of the schedule.
THEOREM BurstsReportedOnce == Spec => []EveryBurstIsReportedOnce
<1>1. BurstInv => EveryBurstIsReportedOnce
  <2> SUFFICES ASSUME BurstInv, NEW s \in System, Written(s)
               PROVE  /\ \A r \in 2 .. Len(results[s].outgoing) :
                           results[s].outgoing[r - 1][1] < results[s].outgoing[r][1]
                      /\ \A r \in 2 .. Len(results[s].incoming) :
                           results[s].incoming[r - 1][1] < results[s].incoming[r][1]
                      /\ \A b \in Burst : (\E r \in DOMAIN results[s].outgoing :
                                             results[s].outgoing[r][1] = b) <=> From(b) = s
                      /\ \A b \in Burst : (\E r \in DOMAIN results[s].incoming :
                                             results[s].incoming[r][1] = b) <=> To(b) = s
    BY DEF EveryBurstIsReportedOnce
  <2>1. /\ DOMAIN results[s].outgoing = 1 .. Len(Out(s)) /\ clock[s] = EndTime
        /\ \A r \in 1 .. Len(Out(s)) : results[s].outgoing[r][1] = AscendingIds(Out(s))[r]
        /\ DOMAIN results[s].incoming = 1 .. Len(In(s))
        /\ \A r \in 1 .. Len(In(s)) : results[s].incoming[r][1] = AscendingIds(In(s))[r]
        /\ Len(results[s].outgoing) = Len(Out(s)) /\ Len(results[s].incoming) = Len(In(s))
    BY RowsOf
  <2>2. Len(Out(s)) \in Nat /\ Len(In(s)) \in Nat
    BY OutFacts, InFacts
  <2>3. \A r \in 2 .. Len(results[s].outgoing) :
          results[s].outgoing[r - 1][1] < results[s].outgoing[r][1]
    <3> SUFFICES ASSUME NEW r \in 2 .. Len(Out(s))
                 PROVE  results[s].outgoing[r - 1][1] < results[s].outgoing[r][1]
      BY <2>1
    <3>1. r - 1 \in 1 .. Len(Out(s)) /\ r \in 1 .. Len(Out(s)) /\ r - 1 < r
      BY <2>2
    <3>2. AscendingIds(Out(s))[r - 1] < AscendingIds(Out(s))[r]
      BY <3>1, OutgoingIds
    <3> QED BY <2>1, <3>1, <3>2
  <2>4. \A r \in 2 .. Len(results[s].incoming) :
          results[s].incoming[r - 1][1] < results[s].incoming[r][1]
    <3> SUFFICES ASSUME NEW r \in 2 .. Len(In(s))
                 PROVE  results[s].incoming[r - 1][1] < results[s].incoming[r][1]
      BY <2>1
    <3>1. r - 1 \in 1 .. Len(In(s)) /\ r \in 1 .. Len(In(s)) /\ r - 1 < r
      BY <2>2
    <3>2. AscendingIds(In(s))[r - 1] < AscendingIds(In(s))[r]
      BY <3>1, IncomingIds
    <3> QED BY <2>1, <3>1, <3>2
  <2>5. ASSUME NEW b \in Burst
        PROVE  (\E r \in DOMAIN results[s].outgoing : results[s].outgoing[r][1] = b) <=> From(b) = s
    <3>1. From(b) = s => HasStarted(b)
      BY <2>1, AllStarted
    <3>2. From(b) = s => \E r \in 1 .. Len(Out(s)) : AscendingIds(Out(s))[r] = b
      BY <3>1, OutgoingIds
    <3>3. \A r \in 1 .. Len(Out(s)) : From(AscendingIds(Out(s))[r]) = s
      BY OutgoingIds
    <3> QED BY <2>1, <3>2, <3>3
  <2>6. ASSUME NEW b \in Burst
        PROVE  (\E r \in DOMAIN results[s].incoming : results[s].incoming[r][1] = b) <=> To(b) = s
    <3>2. To(b) = s => \E r \in 1 .. Len(In(s)) : AscendingIds(In(s))[r] = b
      BY IncomingIds
    <3>3. \A r \in 1 .. Len(In(s)) : To(AscendingIds(In(s))[r]) = s
      BY IncomingIds
    <3> QED BY <2>1, <3>2, <3>3
  <2> QED BY <2>3, <2>4, <2>5, <2>6
<1>2. Refused => EveryBurstIsReportedOnce
  BY DEF Refused, EveryBurstIsReportedOnce
<1>3. RunInv => EveryBurstIsReportedOnce
  BY <1>1, <1>2 DEF RunInv
<1> QED BY <1>3, BurstInvariant, PTL

\* m gaps are at least m packets' worth of time at the target rate.
LEMMA GapsCover ==
  ASSUME NEW m \in Nat, NEW g \in Nat, NEW r \in Nat, NEW a \in Nat, g * r >= a
  PROVE  (m * g) * r >= m * a
<1>1. (m * g) * r = m * (g * r) /\ m * (g * r) - m * a = m * (g * r - a)
  OBVIOUS
<1>2. g * r - a \in Nat
  OBVIOUS
<1>3. m * (g * r - a) >= 0
  BY <1>2
<1>4. m * (g * r) \in Nat /\ m * a \in Nat
  OBVIOUS
<1> QED BY <1>1, <1>3, <1>4

\* Whatever the size of the packets and the rate: no packet ahead of the
\* rate, none later than the rounding of the gap makes it.
THEOREM BurstsKeepTheirRate == Spec => []TargetRateIsKept
<1>1. BurstInv => TargetRateIsKept
  <2> SUFFICES ASSUME BurstInv, NEW b \in Burst, NEW m \in DOMAIN outgoing[b]
               PROVE  LET sinceStart == outgoing[b][m][2] - schedule[b].start
                      IN /\ sinceStart * schedule[b].rate >= (m - 1) * SegmentTime
                         /\ m > 1 =>
                              /\ sinceStart < schedule[b].duration
                              /\ (outgoing[b][m][2] - outgoing[b][m - 1][2] - 1) * schedule[b].rate
                                   < SegmentTime
    BY DEF TargetRateIsKept
  <2> DEFINE g == PacketGap(b)
             start == schedule[b].start
             rate == schedule[b].rate
             duration == schedule[b].duration
  <2>1. TypeOK /\ Accepted /\ schedule \in Schedules /\ assignment \in Assignments /\ ClientInv(b)
    BY DEF BurstInv, TypeOK
  <2>2. /\ g \in Nat /\ g * rate >= SegmentTime /\ (g - 1) * rate < SegmentTime
        /\ start \in Nat /\ rate \in Nat /\ duration \in Nat /\ SegmentTime \in Nat
        /\ m_sent[b] \in Nat
    BY <2>1, GapOf, Inputs, Types, TimesAssumption
  <2>3. m \in 1 .. m_sent[b] /\ outgoing[b][m][2] = SendTime(b, m - 1)
    BY <2>1 DEF ClientInv
  <2>4. m \in Nat /\ m - 1 \in Nat /\ SendTime(b, m - 1) = start + (m - 1) * g
    BY <2>2, <2>3 DEF SendTime
  <2>5. (m - 1) * g \in Nat
    BY <2>2, <2>4
  <2>6. outgoing[b][m][2] - start = (m - 1) * g
    <3> DEFINE p == (m - 1) * g
    <3>1. p \in Nat /\ outgoing[b][m][2] = start + p
      BY <2>3, <2>4, <2>5
    <3> HIDE DEF p, start
    <3>2. start \in Nat
      BY <2>2
    <3>3. outgoing[b][m][2] - start = p
      BY <3>1, <3>2
    <3> QED BY <3>3 DEF p
  <2>7. ((m - 1) * g) * rate >= (m - 1) * SegmentTime
    <3> HIDE DEF g, rate
    <3> QED BY <2>2, <2>4, GapsCover
  <2>8. ASSUME m > 1
        PROVE  /\ outgoing[b][m][2] - start < duration
               /\ (outgoing[b][m][2] - outgoing[b][m - 1][2] - 1) * rate < SegmentTime
    <3>1. m - 1 \in 1 .. m_sent[b] /\ m - 1 \in 1 .. m_sent[b] - 1
      BY <2>2, <2>3, <2>8
    <3>2. GoesOn(b, SendTime(b, m - 1)) /\ outgoing[b][m - 1][2] = SendTime(b, (m - 1) - 1)
      BY <2>1, <3>1 DEF ClientInv
    <3>3. m - 2 \in Nat /\ (m - 1) - 1 = m - 2 /\ (m - 2) + 1 = m - 1
      BY <2>4, <2>8
    <3>4. SendTime(b, m - 1) = SendTime(b, m - 2) + g /\ SendTime(b, m - 2) \in Nat
      BY <2>1, <3>3, SendTimes
    <3>5. SendTime(b, m - 1) < start + duration
      BY <3>2 DEF GoesOn
    <3> HIDE DEF g, start, duration, rate
    <3>6. outgoing[b][m][2] - start < duration
      BY <2>2, <2>3, <3>4, <3>5
    <3>7. outgoing[b][m][2] - outgoing[b][m - 1][2] - 1 = g - 1
      BY <2>2, <2>3, <3>2, <3>3, <3>4
    <3> QED BY <2>2, <3>6, <3>7
  <2> QED BY <2>6, <2>7, <2>8
<1>2. Refused => TargetRateIsKept
  BY DEF Refused, TargetRateIsKept
<1>3. RunInv => TargetRateIsKept
  BY <1>1, <1>2 DEF RunInv
<1> QED BY <1>3, BurstInvariant, PTL

\* Whatever is lost, delayed or overtaken: what is received was sent, once,
\* and the rows are what the logs of the burst count.
THEOREM BurstRowsAgree == Spec => []RowsAgreeWithLogs
<1>1. BurstInv => RowsAgreeWithLogs
  <2> SUFFICES ASSUME BurstInv PROVE RowsAgreeWithLogs
    OBVIOUS
  <2>1. TypeOK /\ Accepted /\ schedule \in Schedules /\ assignment \in Assignments
    BY DEF BurstInv, TypeOK
  <2>2. ASSUME NEW b \in Burst
        PROVE  /\ m_sent[b] \in Nat /\ DOMAIN outgoing[b] = 1 .. m_sent[b]
               /\ \A m \in 1 .. m_sent[b] : outgoing[b][m] = <<m - 1, SendTime(b, m - 1)>>
               /\ Len(outgoing[b]) = m_sent[b]
    <3>1. ClientInv(b) /\ m_sent[b] \in Nat
      BY <2>1, Types DEF BurstInv
    <3>2. outgoing[b] = [m \in 1 .. m_sent[b] |-> <<m - 1, SendTime(b, m - 1)>>]
      BY <3>1 DEF ClientInv
    <3> QED BY <3>1, <3>2
  <2>3. ASSUME NEW b \in Burst
        PROVE  /\ \A m \in DOMAIN outgoing[b] : outgoing[b][m][1] = m - 1
               /\ \A m, l \in DOMAIN incoming[b] :
                    incoming[b][m][1] = incoming[b][l][1] => m = l
               /\ \A m \in DOMAIN incoming[b] :
                    \E l \in DOMAIN outgoing[b] :
                      /\ outgoing[b][l][1] = incoming[b][m][1]
                      /\ outgoing[b][l][2] + LinkDelay <= incoming[b][m][2]
    <3>1. \A m \in DOMAIN outgoing[b] : outgoing[b][m][1] = m - 1
      BY <2>2
    <3>2. ServerInv(b) /\ DOMAIN incoming[b] = 1 .. Len(incoming[b])
          /\ \A m \in 1 .. Len(incoming[b]) : incoming[b][m][1] \in Nat
      <4>1. incoming[b] \in Lines
        BY <2>1, Types
      <4> QED BY <4>1 DEF BurstInv, Lines
    <3>3. ASSUME NEW m \in DOMAIN incoming[b]
          PROVE  \E l \in DOMAIN outgoing[b] :
                   /\ outgoing[b][l][1] = incoming[b][m][1]
                   /\ outgoing[b][l][2] + LinkDelay <= incoming[b][m][2]
      <4> DEFINE q == incoming[b][m][1]
      <4>1. q \in Nat /\ q < m_sent[b] /\ SendTime(b, q) + LinkDelay <= incoming[b][m][2]
        BY <3>2 DEF ServerInv
      <4> HIDE DEF q
      <4>2. q + 1 \in 1 .. m_sent[b] /\ (q + 1) - 1 = q
        BY <2>2, <4>1
      <4>3. outgoing[b][q + 1] = <<q, SendTime(b, q)>> /\ q + 1 \in DOMAIN outgoing[b]
        BY <2>2, <4>2
      <4> QED BY <4>1, <4>3 DEF q
    <3> QED BY <3>1, <3>2, <3>3 DEF ServerInv
  <2>4. ASSUME NEW s \in System, Written(s), NEW r \in DOMAIN results[s].outgoing
        PROVE  LET row == results[s].outgoing[r]
               IN row[2] = Len(outgoing[row[1]]) /\ row[2] > 0
    <3> DEFINE b == AscendingIds(Out(s))[r]
    <3>1. results[s].outgoing[r] = <<b, m_sent[b]>> /\ clock[s] = EndTime /\ r \in 1 .. Len(Out(s))
      BY <2>4, RowsOf
    <3>2. b \in Burst /\ From(b) = s
      BY <3>1, OutgoingIds
    <3> HIDE DEF b
    <3>3. m_sent[b] > 0 /\ Len(outgoing[b]) = m_sent[b]
      BY <2>2, <3>1, <3>2, AllStarted
    <3> QED BY <3>1, <3>3
  <2>5. ASSUME NEW s \in System, Written(s), NEW r \in DOMAIN results[s].incoming
        PROVE  LET row == results[s].incoming[r]
               IN row[2] = Len(incoming[row[1]])
    <3> DEFINE b == AscendingIds(In(s))[r]
    <3>1. results[s].incoming[r] = <<b, counter[schedule[b].to][b]>> /\ r \in 1 .. Len(In(s))
      BY <2>5, RowsOf
    <3>2. b \in Burst /\ schedule[b].to \in Endpoints
      <4>1. b \in Burst /\ To(b) = s
        BY <3>1, IncomingIds
      <4> HIDE DEF b
      <4> QED BY <2>1, <4>1, Types
    <3> HIDE DEF b
    <3>3. counter[schedule[b].to][b] = Len(incoming[b])
      BY <3>2 DEF BurstInv, ServerInv
    <3> QED BY <3>1, <3>3
  <2> QED BY <2>3, <2>4, <2>5 DEF RowsAgreeWithLogs
<1>2. Refused => RowsAgreeWithLogs
  BY DEF Refused, RowsAgreeWithLogs
<1>3. RunInv => RowsAgreeWithLogs
  BY <1>1, <1>2 DEF RunInv
<1> QED BY <1>3, BurstInvariant, PTL
=============================================================================
