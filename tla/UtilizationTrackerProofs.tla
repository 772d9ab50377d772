---------------------- MODULE UtilizationTrackerProofs ----------------------
(***************************************************************************)
(* The utilization intervals are exact for every interval length and every *)
(* pattern of transmissions.                                               *)
(***************************************************************************)
EXTENDS UtilizationTracker, SequenceTheorems, TLAPS

Interval == Times \X Times \X (0 .. m_interval_ns)

\* The counters account for the time between the start of the interval and
\* the previous call, which lies in the interval.
Accounting ==
  /\ m_current_interval_end = m_current_interval_start + m_interval_ns
  /\ m_current_interval_start <= m_prev_time_ns
  /\ m_prev_time_ns < m_current_interval_end
  /\ m_prev_time_ns <= now
  /\ m_idle_time_counter_ns + m_busy_time_counter_ns
       = m_prev_time_ns - m_current_interval_start
  /\ m_busy_time_counter_ns
       = busyBefore[m_prev_time_ns] - busyBefore[m_current_interval_start]

\* Since the previous call the device did what the tracker believes, and a
\* call always reports the opposite of it.
StateIsKnown ==
  /\ \A t \in Times : m_prev_time_ns <= t /\ t <= now =>
       busyBefore[t] = busyBefore[m_prev_time_ns]
                         + IF m_current_state_is_on THEN t - m_prev_time_ns ELSE 0
  /\ \A t \in Times : now <= t =>
       busyBefore[t] = busyBefore[now] + IF transmitting THEN t - now ELSE 0
  /\ stage = "running" /\ call = "none" => transmitting = m_current_state_is_on
  /\ call = "on" => ~m_current_state_is_on /\ (stage = "running" => transmitting)
  /\ call = "off" => m_current_state_is_on /\ (stage = "running" => ~transmitting)
  /\ stage \in {"writing", "written", "threw"} => call = "none"
  /\ stage = "finalizing" /\ call = "none" => m_prev_time_ns = now

\* While intervals are completed, the last one ends where the next starts.
NextInterval ==
  stage \in {"running", "finalizing"} =>
    IF m_intervals = << >> THEN m_current_interval_start = 0
    ELSE m_intervals[Len(m_intervals)][2] = m_current_interval_start

UtilIInv == TypeOK /\ Accounting /\ StateIsKnown /\ NextInterval /\ IntervalsAreExact

----------------------------------------------------------------------------
LEMMA IntervalEnds ==
  ASSUME TypeOK, NEW i \in 1 .. Len(m_intervals)
  PROVE  /\ m_intervals[i][1] \in Times /\ m_intervals[i][2] \in Times
         /\ m_intervals[i][1] \in Int /\ m_intervals[i][2] \in Int
PROOF
<1>1. m_intervals \in Seq(Interval)
  BY DEF TypeOK, Interval
<1>2. m_intervals[i] \in Interval
  BY <1>1, LenProperties
<1> QED  BY <1>2, HorizonAssumption DEF Interval, Times

\* IntervalsAreExact depends on the history only up to now.
LEMMA ExactKept ==
  ASSUME TypeOK, IntervalsAreExact, m_intervals' = m_intervals,
         now' >= now, now' \in Times,
         stage' \in {"running", "finalizing"} => stage \in {"running", "finalizing"},
         \A t \in Times : t <= now => busyBefore'[t] = busyBefore[t]
  PROVE  IntervalsAreExact'
PROOF
<1>1. ASSUME NEW i \in 1 .. Len(m_intervals)
      PROVE  /\ m_intervals[i][1] \in Times /\ m_intervals[i][2] \in Times
             /\ m_intervals[i][1] \in Int /\ m_intervals[i][2] \in Int
  BY <1>1, IntervalEnds
<1>2. now \in Int /\ now' \in Int
  BY HorizonAssumption DEF TypeOK, Times
<1>3. ASSUME NEW i \in 1 .. Len(m_intervals)
      PROVE  /\ m_intervals[i][1] <= now
             /\ busyBefore'[m_intervals[i][1]] = busyBefore[m_intervals[i][1]]
             /\ busyBefore'[m_intervals[i][2]] = busyBefore[m_intervals[i][2]]
  BY <1>1, <1>2 DEF IntervalsAreExact
<1>4. ASSUME NEW i \in 1 .. Len(m_intervals)
      PROVE  m_intervals[i][2] <= now'
  BY <1>1, <1>2 DEF IntervalsAreExact
<1> QED  BY <1>3, <1>4 DEF IntervalsAreExact, TrueBusyTime

\* Appending an interval that starts where the last one ends, is exact and has
\* ended by now.
LEMMA ExactExtended ==
  ASSUME TypeOK, IntervalsAreExact, NextInterval,
         stage \in {"running", "finalizing"},
         NEW end \in Times, NEW busy \in 0 .. m_interval_ns,
         m_intervals' = Append(m_intervals, <<m_current_interval_start, end, busy>>),
         m_current_interval_start < end, end <= now,
         busy = busyBefore[end] - busyBefore[m_current_interval_start],
         now' = now, busyBefore' = busyBefore,
         stage' \in {"running", "finalizing"} =>
           end = m_current_interval_start + m_interval_ns
  PROVE  /\ m_intervals' \in Seq(Interval)
         /\ m_intervals' # << >>
         /\ m_intervals'[Len(m_intervals')][2] = end
         /\ IntervalsAreExact'
PROOF
<1> DEFINE x == <<m_current_interval_start, end, busy>>
<1>1. x \in Interval /\ m_intervals \in Seq(Interval)
  BY DEF TypeOK, Interval
<1>2. x[1] = m_current_interval_start /\ x[2] = end /\ x[3] = busy
  OBVIOUS
<1> HIDE DEF x
<1>3. /\ m_intervals' \in Seq(Interval)
      /\ m_intervals' # << >>
      /\ Len(m_intervals') = Len(m_intervals) + 1
      /\ \A i \in 1 .. Len(m_intervals) : m_intervals'[i] = m_intervals[i]
      /\ m_intervals'[Len(m_intervals) + 1] = x
  BY <1>1, AppendProperties DEF x
<1>4. Len(m_intervals) \in Nat /\ end \in Int /\ m_interval_ns \in Int
      /\ m_current_interval_start \in Int
  BY <1>1, LenProperties, HorizonAssumption, IntervalAssumption DEF TypeOK, Times
<1>5. m_intervals'[1][1] = 0
  <2>1. CASE m_intervals = << >>
    BY <2>1, <1>2, <1>3, <1>4 DEF NextInterval
  <2>2. CASE m_intervals # << >>
    <3>1. 1 \in 1 .. Len(m_intervals)
      BY <2>2, <1>1, <1>4, EmptySeq
    <3> QED  BY <3>1, <2>2, <1>3 DEF IntervalsAreExact
  <2> QED  BY <2>1, <2>2
<1>6. ASSUME NEW i \in 1 .. Len(m_intervals')
      PROVE  /\ m_intervals'[i][1] < m_intervals'[i][2] /\ m_intervals'[i][2] <= now'
             /\ m_intervals'[i][3] = TrueBusyTime(m_intervals[i][1], m_intervals[i][2])'
             /\ i < Len(m_intervals') => m_intervals'[i][2] = m_intervals'[i + 1][1]
             /\ i < Len(m_intervals') \/ stage' \in {"running", "finalizing"} =>
                  m_intervals'[i][2] - m_intervals'[i][1] = m_interval_ns
  <2>1. CASE i = Len(m_intervals) + 1
    <3>1. m_intervals'[i] = x /\ ~(i < Len(m_intervals'))
      BY <2>1, <1>3, <1>4
    <3>2. x[1] < x[2] /\ x[2] <= now' /\ x[3] = busyBefore'[x[2]] - busyBefore'[x[1]]
      BY <1>2
    <3>3. stage' \in {"running", "finalizing"} => x[2] - x[1] = m_interval_ns
      BY <1>2, <1>4
    <3> QED  BY <3>1, <3>2, <3>3 DEF TrueBusyTime
  <2>2. CASE i # Len(m_intervals) + 1
    <3>1. i \in 1 .. Len(m_intervals) /\ m_intervals'[i] = m_intervals[i]
      BY <2>2, <1>3, <1>4
    <3>2. /\ m_intervals[i][1] < m_intervals[i][2] /\ m_intervals[i][2] <= now
          /\ m_intervals[i][3] = TrueBusyTime(m_intervals[i][1], m_intervals[i][2])
          /\ m_intervals[i][2] - m_intervals[i][1] = m_interval_ns
      BY <3>1 DEF IntervalsAreExact
    <3>3. m_intervals'[i][2] = m_intervals'[i + 1][1]
      <4>1. CASE i = Len(m_intervals)
        <5>1. m_intervals # << >>
          BY <3>1, <4>1, <1>4, EmptySeq
        <5> QED  BY <5>1, <3>1, <4>1, <1>2, <1>3 DEF NextInterval
      <4>2. CASE i # Len(m_intervals)
        <5>1. i < Len(m_intervals) /\ i + 1 \in 1 .. Len(m_intervals)
          BY <3>1, <4>2, <1>4
        <5> QED  BY <5>1, <3>1, <1>3 DEF IntervalsAreExact
      <4> QED  BY <4>1, <4>2
    <3>4. m_intervals'[i][2] <= now' /\ m_intervals'[i][1] < m_intervals'[i][2]
      BY <3>1, <3>2
    <3>5. m_intervals'[i][3] = TrueBusyTime(m_intervals[i][1], m_intervals[i][2])'
      BY <3>1, <3>2 DEF TrueBusyTime
    <3>6. m_intervals'[i][2] - m_intervals'[i][1] = m_interval_ns
      BY <3>1, <3>2
    <3> QED  BY <3>3, <3>4, <3>5, <3>6
  <2> QED  BY <2>1, <2>2
<1> QED
  BY <1>2, <1>3, <1>4, <1>5, <1>6 DEF IntervalsAreExact, TrueBusyTime

----------------------------------------------------------------------------
\* The times and counters as numbers, for arithmetic.
Numbers ==
  /\ now \in Int /\ now >= 0 /\ now <= Horizon /\ Horizon \in Int
  /\ m_prev_time_ns \in Int /\ m_prev_time_ns >= 0
  /\ m_current_interval_start \in Int /\ m_current_interval_start >= 0
  /\ m_current_interval_end \in Int
  /\ m_idle_time_counter_ns \in Int /\ m_idle_time_counter_ns >= 0
  /\ m_busy_time_counter_ns \in Int /\ m_busy_time_counter_ns >= 0
  /\ m_interval_ns \in Int /\ m_interval_ns > 0
  /\ now \in Times /\ m_prev_time_ns \in Times
  /\ m_current_interval_start \in Times
  /\ \A t \in Times : t \in Int /\ busyBefore[t] \in Int

LEMMA NumbersTyped == TypeOK => Numbers
BY HorizonAssumption, IntervalAssumption DEF TypeOK, Times, Numbers

LEMMA Parts ==
  ASSUME UtilIInv
  PROVE  /\ TypeOK /\ Accounting /\ StateIsKnown
         /\ NextInterval /\ IntervalsAreExact /\ Numbers
BY NumbersTyped DEF UtilIInv

LEMMA StepTimePasses ==
  ASSUME UtilIInv, NEW t \in Times, TimePasses(t)
  PROVE  UtilIInv'
PROOF
<1>p. /\ TypeOK /\ Accounting /\ StateIsKnown
      /\ NextInterval /\ IntervalsAreExact /\ Numbers
  BY Parts
<1>1. /\ now' = t /\ t > now /\ stage = "running" /\ call = "none"
      /\ UNCHANGED <<transmitting, busyBefore, m_prev_time_ns,
                     m_current_interval_start, m_current_interval_end,
                     m_idle_time_counter_ns, m_busy_time_counter_ns,
                     m_current_state_is_on, m_intervals, call, stage, j,
                     interval_left_side_ns, running_busy_sum_ns, compressed>>
  BY DEF TimePasses, tracker, writer
<1>2. TypeOK'
  BY <1>1 DEF UtilIInv, TypeOK
<1>3. Accounting'
  BY <1>1, <1>p DEF Numbers, Accounting
<1>4. StateIsKnown'
  <2>1. \A s \in Times : m_prev_time_ns <= s /\ s <= t =>
          busyBefore[s] = busyBefore[m_prev_time_ns]
                            + IF m_current_state_is_on THEN s - m_prev_time_ns ELSE 0
    <3> TAKE s \in Times
    <3>1. CASE s <= now
      BY <3>1 DEF UtilIInv, StateIsKnown
    <3>2. CASE s > now
      <4>1. busyBefore[s] = busyBefore[now] + IF m_current_state_is_on THEN s - now ELSE 0
        BY <1>1, <3>2, <1>p DEF Numbers, StateIsKnown
      <4>2. busyBefore[now] = busyBefore[m_prev_time_ns]
                  + IF m_current_state_is_on THEN now - m_prev_time_ns ELSE 0
        BY <1>p DEF Numbers, StateIsKnown, Accounting, TypeOK
      <4>3. /\ s \in Int /\ now \in Int /\ m_prev_time_ns \in Int
            /\ busyBefore[s] \in Int /\ busyBefore[now] \in Int
            /\ busyBefore[m_prev_time_ns] \in Int
        BY <1>p DEF Numbers
      <4>4. transmitting = m_current_state_is_on
        BY <1>1, <1>p DEF StateIsKnown
      <4>5. CASE m_current_state_is_on
        BY <4>1, <4>2, <4>3, <4>4, <4>5
      <4>6. CASE ~m_current_state_is_on
        BY <4>1, <4>2, <4>3, <4>4, <4>6
      <4> QED  BY <4>5, <4>6
    <3> QED  BY <3>1, <3>2, <1>p DEF Numbers
  <2>2. \A s \in Times : t <= s =>
          busyBefore[s] = busyBefore[t] + IF transmitting THEN s - t ELSE 0
    BY <1>1, <1>p DEF Numbers, StateIsKnown
  <2> QED  BY <1>1, <2>1, <2>2 DEF UtilIInv, StateIsKnown
<1>5. NextInterval'
  BY <1>1 DEF UtilIInv, NextInterval
<1>6. IntervalsAreExact'
  BY <1>1, ExactKept, <1>p DEF Numbers
<1> QED  BY <1>2, <1>3, <1>4, <1>5, <1>6 DEF UtilIInv

LEMMA StepCallback ==
  ASSUME UtilIInv, NetDevicePhyTxBeginCallback \/ NetDevicePhyTxEndCallback
  PROVE  UtilIInv'
PROOF
<1>p. /\ TypeOK /\ Accounting /\ StateIsKnown
      /\ NextInterval /\ IntervalsAreExact /\ Numbers
  BY Parts
<1>0. /\ stage = "running" /\ call = "none"
      /\ UNCHANGED <<now, m_prev_time_ns,
                     m_current_interval_start, m_current_interval_end,
                     m_idle_time_counter_ns, m_busy_time_counter_ns,
                     m_current_state_is_on, m_intervals, stage, j,
                     interval_left_side_ns, running_busy_sum_ns, compressed>>
  BY DEF NetDevicePhyTxBeginCallback, NetDevicePhyTxEndCallback, tracker, writer
<1>1. /\ transmitting' \in BOOLEAN /\ call' \in {"on", "off"}
      /\ call' = "on" => ~m_current_state_is_on /\ transmitting'
      /\ call' = "off" => m_current_state_is_on /\ ~transmitting'
  <2>1. transmitting = m_current_state_is_on
    BY <1>0, <1>p DEF StateIsKnown
  <2>2. CASE NetDevicePhyTxBeginCallback
    BY <2>1, <2>2 DEF NetDevicePhyTxBeginCallback
  <2>3. CASE NetDevicePhyTxEndCallback
    BY <2>1, <2>3 DEF NetDevicePhyTxEndCallback
  <2> QED  BY <2>2, <2>3
<1>1a. /\ busyBefore' \in [Times -> Nat]
       /\ \A t \in Times : t <= now => busyBefore'[t] = busyBefore[t]
       /\ \A t \in Times : now <= t =>
            busyBefore'[t] = busyBefore'[now] + IF transmitting' THEN t - now ELSE 0
  <2>1. \A t \in Times : /\ busyBefore[t] \in Nat /\ busyBefore[now] \in Nat
                         /\ t > now => t - now \in Nat
    BY <1>p DEF Numbers, TypeOK
  <2>2. CASE NetDevicePhyTxBeginCallback
    <3>1. /\ transmitting' = TRUE
          /\ busyBefore' = [t \in Times |-> IF t <= now THEN busyBefore[t]
                                            ELSE busyBefore[now] + (t - now)]
      BY <2>2 DEF NetDevicePhyTxBeginCallback
    <3> QED  BY <3>1, <2>1, <1>p DEF Numbers
  <2>3. CASE NetDevicePhyTxEndCallback
    <3>1. /\ transmitting' = FALSE
          /\ busyBefore' = [t \in Times |-> IF t <= now THEN busyBefore[t]
                                            ELSE busyBefore[now]]
      BY <2>3 DEF NetDevicePhyTxEndCallback
    <3> QED  BY <3>1, <2>1, <1>p DEF Numbers
  <2> QED  BY <2>2, <2>3
<1>2. TypeOK'
  BY <1>0, <1>1, <1>1a, <1>p DEF TypeOK
<1>3. Accounting'
  <2>1. /\ busyBefore'[m_prev_time_ns] = busyBefore[m_prev_time_ns]
        /\ busyBefore'[m_current_interval_start] = busyBefore[m_current_interval_start]
    BY <1>1a, <1>p DEF Numbers, Accounting
  <2> QED  BY <2>1, <1>0, <1>p DEF Accounting
<1>4. StateIsKnown'
  <2>1. \A t \in Times : m_prev_time_ns <= t /\ t <= now =>
          busyBefore'[t] = busyBefore'[m_prev_time_ns]
                            + IF m_current_state_is_on THEN t - m_prev_time_ns ELSE 0
    BY <1>1a, <1>p DEF Numbers, Accounting, StateIsKnown
  <2> QED  BY <2>1, <1>0, <1>1, <1>1a DEF StateIsKnown
<1>5. NextInterval'
  BY <1>0, <1>p DEF NextInterval
<1>6. IntervalsAreExact'
  BY <1>0, <1>1a, ExactKept, <1>p DEF Numbers
<1> QED  BY <1>2, <1>3, <1>4, <1>5, <1>6 DEF UtilIInv

\* The time of the open interval goes to one of two counters, and
\* the second one, b, grows with the true busy time.
LEMMA Split ==
  ASSUME NEW a \in Int, NEW b \in Int, NEW p \in Int, NEW s \in Int,
         NEW u \in Int, NEW fs \in Int, NEW fp \in Int,
         a >= 0, b >= 0, p <= u, a + b = p - s, b = fp - fs
  PROVE  /\ a + (u - p) \in Int /\ a + (u - p) >= 0
         /\ b + (u - p) \in Int /\ b + (u - p) >= 0
         /\ (a + (u - p)) + b = u - s /\ a + (b + (u - p)) = u - s
         /\ b + (u - p) = (fp + (u - p)) - fs
OBVIOUS

\* Completing an interval counts the rest of it for the state that was on.
LEMMA CountedUntil ==
  ASSUME UtilIInv, call # "none", NEW until \in Times,
         m_prev_time_ns <= until, until <= now
  PROVE  /\ Idle(until) \in Int /\ Idle(until) >= 0
         /\ Busy(until) \in Int /\ Busy(until) >= 0
         /\ Idle(until) + Busy(until) = until - m_current_interval_start
         /\ Busy(until) = busyBefore[until] - busyBefore[m_current_interval_start]
PROOF
<1>p. TypeOK /\ Accounting /\ StateIsKnown /\ Numbers
  BY Parts
<1>1. call = "on" \/ call = "off"
  BY <1>p DEF TypeOK
<1>2. busyBefore[until] = busyBefore[m_prev_time_ns]
                            + IF m_current_state_is_on THEN until - m_prev_time_ns ELSE 0
  BY DEF UtilIInv, StateIsKnown
<1>3. /\ until \in Int /\ m_prev_time_ns \in Int /\ m_current_interval_start \in Int
      /\ busyBefore[until] \in Int /\ busyBefore[m_prev_time_ns] \in Int
      /\ busyBefore[m_current_interval_start] \in Int
      /\ m_idle_time_counter_ns \in Int /\ m_idle_time_counter_ns >= 0
      /\ m_busy_time_counter_ns \in Int /\ m_busy_time_counter_ns >= 0
  BY <1>p DEF Numbers
<1>a. /\ m_idle_time_counter_ns + m_busy_time_counter_ns
           = m_prev_time_ns - m_current_interval_start
      /\ m_busy_time_counter_ns
           = busyBefore[m_prev_time_ns] - busyBefore[m_current_interval_start]
  BY <1>p DEF Accounting
<1>b. /\ m_idle_time_counter_ns + (until - m_prev_time_ns) \in Int
      /\ m_idle_time_counter_ns + (until - m_prev_time_ns) >= 0
      /\ m_busy_time_counter_ns + (until - m_prev_time_ns) \in Int
      /\ m_busy_time_counter_ns + (until - m_prev_time_ns) >= 0
      /\ (m_idle_time_counter_ns + (until - m_prev_time_ns)) + m_busy_time_counter_ns
           = until - m_current_interval_start
      /\ m_idle_time_counter_ns + (m_busy_time_counter_ns + (until - m_prev_time_ns))
           = until - m_current_interval_start
      /\ m_busy_time_counter_ns + (until - m_prev_time_ns)
           = (busyBefore[m_prev_time_ns] + (until - m_prev_time_ns))
               - busyBefore[m_current_interval_start]
  BY <1>3, <1>a, Split
<1>4. CASE call = "on"
  <2>1. /\ Idle(until) = m_idle_time_counter_ns + (until - m_prev_time_ns)
        /\ Busy(until) = m_busy_time_counter_ns
    BY <1>3, <1>4 DEF Idle, Busy
  <2>2. busyBefore[until] = busyBefore[m_prev_time_ns]
    BY <1>2, <1>3, <1>4, <1>p DEF StateIsKnown
  <2> QED  BY <2>1, <2>2, <1>3, <1>a, <1>b
<1>5. CASE call = "off"
  <2>1. /\ Idle(until) = m_idle_time_counter_ns
        /\ Busy(until) = m_busy_time_counter_ns + (until - m_prev_time_ns)
    BY <1>3, <1>5 DEF Idle, Busy
  <2>2. busyBefore[until] = busyBefore[m_prev_time_ns] + (until - m_prev_time_ns)
    BY <1>2, <1>5, <1>p DEF StateIsKnown
  <2> QED  BY <2>1, <2>2, <1>3, <1>b
<1> QED  BY <1>1, <1>4, <1>5

LEMMA StepCompleteInterval ==
  ASSUME UtilIInv, CompleteInterval
  PROVE  UtilIInv'
PROOF
<1>p. /\ TypeOK /\ Accounting /\ StateIsKnown
      /\ NextInterval /\ IntervalsAreExact /\ Numbers
  BY Parts
<1> DEFINE end == m_current_interval_end
<1>0. TypeOK
  BY DEF UtilIInv
<1>1. /\ call # "none" /\ now >= end
      /\ m_intervals' = Append(m_intervals,
                               <<m_current_interval_start, end, Busy(end)>>)
      /\ m_idle_time_counter_ns' = 0 /\ m_busy_time_counter_ns' = 0
      /\ m_prev_time_ns' = end
      /\ m_current_interval_start' = m_current_interval_start + m_interval_ns
      /\ m_current_interval_end' = end + m_interval_ns
      /\ UNCHANGED <<now, transmitting, busyBefore, m_current_state_is_on,
                     call, stage, j, interval_left_side_ns,
                     running_busy_sum_ns, compressed>>
  BY DEF CompleteInterval, device, writer
<1>2. /\ end \in Times /\ m_prev_time_ns <= end
      /\ end = m_current_interval_start + m_interval_ns
      /\ m_current_interval_start < end
  BY <1>0, <1>1, <1>p DEF Numbers, Accounting, Times, TypeOK
<1>3. stage \in {"running", "finalizing"}
  BY <1>1 DEF UtilIInv, StateIsKnown, TypeOK
<1>4. /\ Busy(end) \in 0 .. m_interval_ns
      /\ Busy(end) = busyBefore[end] - busyBefore[m_current_interval_start]
  BY <1>0, <1>1, <1>2, CountedUntil, <1>p DEF Numbers
<1>5. /\ m_intervals' \in Seq(Interval)
      /\ m_intervals' # << >>
      /\ m_intervals'[Len(m_intervals')][2] = end
      /\ IntervalsAreExact'
  <2>1. /\ TypeOK /\ IntervalsAreExact /\ NextInterval
        /\ now' = now /\ busyBefore' = busyBefore
    BY <1>1 DEF UtilIInv
  <2> HIDE DEF end
  <2> QED  BY <2>1, <1>1, <1>2, <1>3, <1>4, ExactExtended
<1>6. TypeOK'
  BY <1>1, <1>2, <1>5, <1>p DEF Numbers, TypeOK, Interval
<1>7. Accounting'
  BY <1>0, <1>1, <1>2, <1>p DEF Numbers, Accounting, TypeOK
<1>8. StateIsKnown'
  <2>1. \A t \in Times : end <= t /\ t <= now =>
          busyBefore[t] = busyBefore[end]
                            + IF m_current_state_is_on THEN t - end ELSE 0
    <3> TAKE t \in Times
    <3> SUFFICES ASSUME end <= t, t <= now
                 PROVE  busyBefore[t] = busyBefore[end]
                                  + IF m_current_state_is_on THEN t - end ELSE 0
      OBVIOUS
    <3>1. /\ busyBefore[t] = busyBefore[m_prev_time_ns]
                  + IF m_current_state_is_on THEN t - m_prev_time_ns ELSE 0
          /\ busyBefore[end] = busyBefore[m_prev_time_ns]
                  + IF m_current_state_is_on THEN end - m_prev_time_ns ELSE 0
      BY <1>1, <1>2, <1>p DEF Numbers, StateIsKnown
    <3> QED  BY <3>1, <1>2, <1>p DEF Numbers
  <2> QED  BY <2>1, <1>1 DEF UtilIInv, StateIsKnown
<1>9. NextInterval'
  BY <1>1, <1>2, <1>5 DEF NextInterval
<1> QED  BY <1>5, <1>6, <1>7, <1>8, <1>9 DEF UtilIInv

LEMMA StepFinishCall ==
  ASSUME UtilIInv, FinishCall
  PROVE  UtilIInv'
PROOF
<1>p. /\ TypeOK /\ Accounting /\ StateIsKnown
      /\ NextInterval /\ IntervalsAreExact /\ Numbers
  BY Parts
<1>0. TypeOK /\ now \in Times
  BY DEF UtilIInv, TypeOK
<1>1. /\ call # "none" /\ now < m_current_interval_end
      /\ m_idle_time_counter_ns' = Idle(now)
      /\ m_busy_time_counter_ns' = Busy(now)
      /\ m_current_state_is_on' = (call = "on")
      /\ m_prev_time_ns' = now
      /\ call' = "none"
      /\ UNCHANGED <<now, transmitting, busyBefore, m_current_interval_start,
                     m_current_interval_end, m_intervals, stage, j,
                     interval_left_side_ns, running_busy_sum_ns, compressed>>
  BY DEF FinishCall, device, writer
<1>2. /\ Idle(now) \in Int /\ Idle(now) >= 0
      /\ Busy(now) \in Int /\ Busy(now) >= 0
      /\ Idle(now) + Busy(now) = now - m_current_interval_start
      /\ Busy(now) = busyBefore[now] - busyBefore[m_current_interval_start]
  BY <1>0, <1>1, CountedUntil, <1>p DEF Numbers, Accounting
<1>3. TypeOK'
  <2>1. Idle(now) \in 0 .. m_interval_ns /\ Busy(now) \in 0 .. m_interval_ns
    BY <1>1, <1>2, <1>p DEF Numbers, Accounting
  <2> QED  BY <2>1, <1>0, <1>1 DEF TypeOK
<1>4. Accounting'
  BY <1>0, <1>1, <1>2, <1>p DEF Numbers, Accounting
<1>5. StateIsKnown'
  <2>1. \A t \in Times : now <= t /\ t <= now =>
          busyBefore[t] = busyBefore[now] + IF m_current_state_is_on' THEN t - now ELSE 0
    <3> TAKE t \in Times
    <3> SUFFICES ASSUME now <= t, t <= now
                 PROVE  busyBefore[t] = busyBefore[now]
                          + IF m_current_state_is_on' THEN t - now ELSE 0
      OBVIOUS
    <3>1. t = now /\ t - now = 0 /\ busyBefore[now] + 0 = busyBefore[now]
      BY <1>p DEF Numbers
    <3> QED  BY <3>1
  <2>2. stage = "running" => transmitting = (call = "on")
    BY <1>1, <1>p DEF StateIsKnown, TypeOK
  <2> QED  BY <2>1, <2>2, <1>1, <1>p DEF StateIsKnown
<1>6. NextInterval'
  BY <1>1 DEF UtilIInv, NextInterval
<1>7. IntervalsAreExact'
  BY <1>0, <1>1, ExactKept, <1>p DEF Numbers
<1> QED  BY <1>3, <1>4, <1>5, <1>6, <1>7 DEF UtilIInv

LEMMA StepFinalize ==
  ASSUME UtilIInv, FinalizeUtilization
  PROVE  UtilIInv'
PROOF
<1>p. /\ TypeOK /\ Accounting /\ StateIsKnown
      /\ NextInterval /\ IntervalsAreExact /\ Numbers
  BY Parts
<1>1. /\ stage = "running" /\ stage' = "finalizing"
      /\ call' \in {"on", "off"}
      /\ call' = "on" => ~m_current_state_is_on
      /\ call' = "off" => m_current_state_is_on
      /\ UNCHANGED <<now, transmitting, busyBefore, m_prev_time_ns,
                     m_current_interval_start, m_current_interval_end,
                     m_idle_time_counter_ns, m_busy_time_counter_ns,
                     m_current_state_is_on, m_intervals, j,
                     interval_left_side_ns, running_busy_sum_ns, compressed>>
  BY DEF FinalizeUtilization, device, tracker, writer
<1>2. TypeOK'
  BY <1>1, <1>p DEF TypeOK
<1>3. Accounting'
  BY <1>1, <1>p DEF Accounting
<1>4. StateIsKnown'
  BY <1>1, <1>p DEF StateIsKnown
<1>5. NextInterval'
  BY <1>1, <1>p DEF NextInterval
<1>6. IntervalsAreExact'
  BY <1>1, <1>p, ExactKept DEF Numbers
<1> QED  BY <1>2, <1>3, <1>4, <1>5, <1>6 DEF UtilIInv

LEMMA StepIncludeIncompleteInterval ==
  ASSUME UtilIInv, IncludeIncompleteInterval
  PROVE  UtilIInv'
PROOF
<1>p. /\ TypeOK /\ Accounting /\ StateIsKnown
      /\ NextInterval /\ IntervalsAreExact /\ Numbers
  BY Parts
<1>1. /\ stage = "finalizing" /\ stage' = "writing" /\ call = "none"
      /\ UNCHANGED <<now, transmitting, busyBefore, m_prev_time_ns,
                     m_current_interval_start, m_current_interval_end,
                     m_idle_time_counter_ns, m_busy_time_counter_ns,
                     m_current_state_is_on, call, j,
                     interval_left_side_ns, running_busy_sum_ns, compressed>>
  BY DEF IncludeIncompleteInterval, device, tracker, writer
<1>2. m_prev_time_ns = now => m_intervals' \in Seq(Interval) /\ IntervalsAreExact'
  <2> SUFFICES ASSUME m_prev_time_ns = now
               PROVE  m_intervals' \in Seq(Interval) /\ IntervalsAreExact'
    OBVIOUS
  <2>1. CASE now = m_current_interval_start
    <3>1. m_intervals' = m_intervals
      BY <2>1 DEF IncludeIncompleteInterval
    <3> QED  BY <3>1, <1>1, <1>p, ExactKept DEF Numbers, TypeOK, Interval
  <2>2. CASE now # m_current_interval_start
    <3>1. m_intervals' = Append(m_intervals, <<m_current_interval_start, now,
                                               m_busy_time_counter_ns>>)
      BY <2>2 DEF IncludeIncompleteInterval
    <3>2. /\ m_current_interval_start < now
          /\ m_busy_time_counter_ns \in 0 .. m_interval_ns
          /\ m_busy_time_counter_ns
               = busyBefore[now] - busyBefore[m_current_interval_start]
      BY <2>2, <1>p DEF Numbers, Accounting, TypeOK
    <3>3. /\ now \in Times /\ now <= now
          /\ stage \in {"running", "finalizing"}
          /\ ~(stage' \in {"running", "finalizing"})
      BY <1>1, <1>p DEF Numbers
    <3> QED  BY <3>1, <3>2, <3>3, <1>1, <1>p, ExactExtended
  <2> QED  BY <2>1, <2>2
<1>3. m_prev_time_ns = now
  BY <1>1, <1>p DEF StateIsKnown
<1>4. TypeOK'
  BY <1>1, <1>2, <1>3, <1>p DEF TypeOK, Interval
<1>5. Accounting'
  BY <1>1, <1>p DEF Accounting
<1>6. StateIsKnown'
  BY <1>1, <1>p DEF StateIsKnown
<1>7. NextInterval'
  BY <1>1 DEF NextInterval
<1> QED  BY <1>2, <1>3, <1>4, <1>5, <1>6, <1>7 DEF UtilIInv

LEMMA StepWrite ==
  ASSUME UtilIInv, WriteInterval \/ EndOfWriting
  PROVE  UtilIInv'
PROOF
<1>p. /\ TypeOK /\ Accounting /\ StateIsKnown
      /\ NextInterval /\ IntervalsAreExact /\ Numbers
  BY Parts
<1>1. /\ stage = "writing" /\ stage' \in {"writing", "written", "threw"}
      /\ UNCHANGED <<now, transmitting, busyBefore, m_prev_time_ns,
                     m_current_interval_start, m_current_interval_end,
                     m_idle_time_counter_ns, m_busy_time_counter_ns,
                     m_current_state_is_on, m_intervals, call>>
  BY DEF WriteInterval, EndOfWriting, device, tracker
<1>2. TypeOK'
  <2>1. CASE WriteInterval
    <3> DEFINE sum == running_busy_sum_ns + m_intervals[j][3]
               line == <<interval_left_side_ns, m_intervals[j][2], sum>>
    <3>1. /\ j \in 1 .. Len(m_intervals) /\ m_intervals \in Seq(Interval)
          /\ j \in Nat \ {0} /\ running_busy_sum_ns \in Nat
          /\ interval_left_side_ns \in Times
          /\ compressed \in Seq(Times \X Times \X Nat)
      BY <2>1, <1>p, LenProperties DEF WriteInterval, TypeOK, Interval
    <3>2. m_intervals[j] \in Interval
      BY <3>1, LenProperties
    <3>3. m_intervals[j][2] \in Times /\ m_intervals[j][3] \in Nat
      BY <3>2, <1>p DEF Interval, Numbers
    <3>4. sum \in Nat
      BY <3>1, <3>3
    <3>5. line \in Times \X Times \X Nat
      BY <3>1, <3>3, <3>4
    <3> HIDE DEF line
    <3>6. Append(compressed, line) \in Seq(Times \X Times \X Nat)
      BY <3>1, <3>5, AppendProperties
    <3>7. /\ j' = j + 1 /\ running_busy_sum_ns' \in {0, sum}
          /\ interval_left_side_ns' \in {interval_left_side_ns, m_intervals[j][2]}
          /\ compressed' \in {compressed, Append(compressed, line)}
      BY <2>1 DEF WriteInterval, line
    <3> HIDE DEF sum
    <3>8. /\ j' \in Nat \ {0} /\ running_busy_sum_ns' \in Nat
          /\ interval_left_side_ns' \in Times
          /\ compressed' \in Seq(Times \X Times \X Nat)
      <4>1. j' \in Nat \ {0}
        BY <3>1, <3>7
      <4>2. running_busy_sum_ns' \in Nat
        BY <3>4, <3>7
      <4>3. interval_left_side_ns' \in Times
        BY <3>1, <3>3, <3>7
      <4>4. compressed' \in Seq(Times \X Times \X Nat)
        BY <3>1, <3>6, <3>7
      <4> QED  BY <4>1, <4>2, <4>3, <4>4
    <3> QED  BY <3>8, <1>1, <1>p DEF TypeOK
  <2>2. CASE EndOfWriting
    BY <2>2, <1>1, <1>p DEF EndOfWriting, writer, TypeOK
  <2> QED  BY <2>1, <2>2
<1>3. Accounting'
  BY <1>1, <1>p DEF Accounting
<1>4. StateIsKnown'
  BY <1>1, <1>p DEF StateIsKnown
<1>5. NextInterval'
  BY <1>1 DEF NextInterval
<1>6. IntervalsAreExact'
  BY <1>1, <1>p, ExactKept DEF Numbers
<1> QED  BY <1>2, <1>3, <1>4, <1>5, <1>6 DEF UtilIInv

THEOREM UtilInvariant == Spec => []UtilIInv
PROOF
<1>1. Init => UtilIInv
  <2> SUFFICES ASSUME Init PROVE UtilIInv
    OBVIOUS
  <2>1. TypeOK
    <3>1. 0 \in Times /\ m_interval_ns \in Nat /\ 0 \in 0 .. m_interval_ns
      BY HorizonAssumption, IntervalAssumption DEF Times
    <3>2. busyBefore \in [Times -> Nat]
      BY DEF Init
    <3>3. m_intervals = << >> /\ compressed = << >>
      BY DEF Init
    <3>4. /\ m_intervals \in Seq(Times \X Times \X (0 .. m_interval_ns))
          /\ compressed \in Seq(Times \X Times \X Nat)
      BY <3>3
    <3> QED  BY <3>1, <3>2, <3>4 DEF Init, TypeOK
  <2>2. Accounting
    BY HorizonAssumption, IntervalAssumption DEF Init, Accounting, Times
  <2>3. StateIsKnown
    <3>1. \A t \in Times : busyBefore[t] = 0
      BY DEF Init
    <3>2. 0 \in Times
      BY HorizonAssumption DEF Times
    <3> QED  BY <3>1, <3>2 DEF Init, StateIsKnown
  <2>4. NextInterval /\ IntervalsAreExact
    BY DEF Init, NextInterval, IntervalsAreExact
  <2> QED  BY <2>1, <2>2, <2>3, <2>4 DEF UtilIInv
<1>2. UtilIInv /\ [Next]_vars => UtilIInv'
  <2> SUFFICES ASSUME UtilIInv, [Next]_vars PROVE UtilIInv'
    OBVIOUS
  <2>1. ASSUME NEW t \in Times, TimePasses(t) PROVE UtilIInv'
    BY <2>1, StepTimePasses
  <2>2. CASE NetDevicePhyTxBeginCallback \/ NetDevicePhyTxEndCallback
    BY <2>2, StepCallback
  <2>3. CASE CompleteInterval
    BY <2>3, StepCompleteInterval
  <2>4. CASE FinishCall
    BY <2>4, StepFinishCall
  <2>5. CASE FinalizeUtilization
    BY <2>5, StepFinalize
  <2>6. CASE IncludeIncompleteInterval
    BY <2>6, StepIncludeIncompleteInterval
  <2>7. CASE WriteInterval \/ EndOfWriting
    BY <2>7, StepWrite
  <2>8. CASE UNCHANGED vars
    <3>1. UNCHANGED <<now, transmitting, busyBefore, m_prev_time_ns,
                      m_current_interval_start, m_current_interval_end,
                      m_idle_time_counter_ns, m_busy_time_counter_ns,
                      m_current_state_is_on, m_intervals, call, stage, j,
                      interval_left_side_ns, running_busy_sum_ns, compressed>>
      BY <2>8 DEF vars, device, tracker, writer
    <3> QED
      BY <3>1 DEF UtilIInv, TypeOK, Accounting, StateIsKnown, NextInterval,
                  IntervalsAreExact, TrueBusyTime
  <2> QED
    BY <2>1, <2>2, <2>3, <2>4, <2>5, <2>6, <2>7, <2>8 DEF Next
<1> QED  BY <1>1, <1>2, PTL DEF Spec

\* The counters stay within the interval and every field keeps its type.
THEOREM TypeCorrect == Spec => []TypeOK
PROOF
<1>1. UtilIInv => TypeOK
  BY DEF UtilIInv
<1> QED  BY <1>1, UtilInvariant, PTL

\* Every recorded interval says exactly how long the device transmitted in it,
\* for any interval length and any pattern of transmissions.
THEOREM IntervalsCorrect == Spec => []IntervalsAreExact
PROOF
<1>1. UtilIInv => IntervalsAreExact
  BY DEF UtilIInv
<1> QED  BY <1>1, UtilInvariant, PTL

\* The assertion in the loop of TrackUtilization never fails.
THEOREM AssertionHolds == Spec => []IdleAndBusyMatchUp
PROOF
<1>1. UtilIInv => IdleAndBusyMatchUp
  <2> SUFFICES ASSUME UtilIInv, call # "none", now >= m_current_interval_end
               PROVE  Idle(m_current_interval_end) + Busy(m_current_interval_end)
                        = m_interval_ns
    BY DEF IdleAndBusyMatchUp
  <2> DEFINE end == m_current_interval_end
  <2>1. Accounting /\ Numbers
    BY Parts
  <2>2. end \in Times /\ m_prev_time_ns <= end /\ end <= now
        /\ end - m_current_interval_start = m_interval_ns
    BY <2>1 DEF Accounting, Numbers, Times
  <2>3. Idle(end) + Busy(end) = end - m_current_interval_start
    BY <2>2, CountedUntil
  <2> QED  BY <2>2, <2>3
<1> QED  BY <1>1, UtilInvariant, PTL

----------------------------------------------------------------------------
(* The whole run is covered *)

\* Every way in which a step leaves the recorded intervals and the time alone.
LEMMA RecordKept ==
  ASSUME Next, stage \in {"writing", "written", "threw"}, StateIsKnown
  PROVE  /\ UNCHANGED <<now, busyBefore, m_intervals>>
         /\ stage' \in {"writing", "written", "threw"}
         /\ WriteInterval \/ EndOfWriting
PROOF
<1>1. call = "none"
  BY DEF StateIsKnown
<1>2. WriteInterval \/ EndOfWriting
  BY <1>1 DEF Next, TimePasses, NetDevicePhyTxBeginCallback,
     NetDevicePhyTxEndCallback, CompleteInterval, FinishCall,
     FinalizeUtilization, IncludeIncompleteInterval
<1> QED  BY <1>2 DEF WriteInterval, EndOfWriting, device

\* The only step that ends the recording includes the incomplete interval.
LEMMA RecordEnds ==
  ASSUME Next, stage \notin {"writing", "written", "threw"},
         stage' \in {"writing", "written", "threw"}
  PROVE  IncludeIncompleteInterval
PROOF
  BY DEF Next, TimePasses, NetDevicePhyTxBeginCallback,
     NetDevicePhyTxEndCallback, CompleteInterval, FinishCall,
     FinalizeUtilization, IncludeIncompleteInterval, WriteInterval, EndOfWriting

\* Once no more is recorded, the intervals reach to the end of the simulation.
RecordReachesNow ==
  stage \in {"writing", "written", "threw"} =>
    IF m_intervals = << >> THEN now = 0
    ELSE m_intervals[Len(m_intervals)][2] = now

\* A step keeps that.
LEMMA ReachKept ==
  ASSUME UtilIInv, RecordReachesNow, [Next]_vars
  PROVE  RecordReachesNow'
PROOF
<1> SUFFICES ASSUME stage' \in {"writing", "written", "threw"}
             PROVE  IF m_intervals' = << >> THEN now' = 0
                    ELSE m_intervals'[Len(m_intervals')][2] = now'
  BY DEF RecordReachesNow
<1>p. /\ TypeOK /\ StateIsKnown /\ NextInterval
  BY DEF UtilIInv
<1>1. CASE UNCHANGED vars
  <2>1. UNCHANGED <<now, m_intervals, stage>>
    BY <1>1 DEF vars, device
  <2> QED  BY <2>1 DEF RecordReachesNow
<1>2. CASE Next /\ stage \in {"writing", "written", "threw"}
  <2>1. UNCHANGED <<now, m_intervals>>
    BY <1>2, <1>p, RecordKept
  <2> QED  BY <1>2, <2>1 DEF RecordReachesNow
<1>3. CASE Next /\ stage \notin {"writing", "written", "threw"}
  <2>1. IncludeIncompleteInterval
    BY <1>3, RecordEnds
  <2>2. stage = "finalizing" /\ now' = now
    BY <2>1 DEF IncludeIncompleteInterval, device
  <2>3. CASE now # m_current_interval_start
    <3> DEFINE x == <<m_current_interval_start, now, m_busy_time_counter_ns>>
    <3>1. m_intervals' = Append(m_intervals, x)
      BY <2>1, <2>3 DEF IncludeIncompleteInterval
    <3>2. x \in Interval /\ m_intervals \in Seq(Interval) /\ x[2] = now
      BY <1>p DEF TypeOK, Interval
    <3> HIDE DEF x
    <3>3. m_intervals' # << >> /\ m_intervals'[Len(m_intervals')] = x
      BY <3>1, <3>2, AppendProperties
    <3> QED  BY <2>2, <3>2, <3>3
  <2>4. CASE now = m_current_interval_start
    <3>1. m_intervals' = m_intervals
      BY <2>1, <2>4 DEF IncludeIncompleteInterval
    <3> QED  BY <3>1, <2>2, <2>4, <1>p DEF NextInterval
  <2> QED  BY <2>3, <2>4
<1> QED  BY <1>1, <1>2, <1>3

\* An interval has an extent, so a simulation that has one lasts.
LEMMA RecordHasExtent ==
  ASSUME UtilIInv, m_intervals # << >>, m_intervals[Len(m_intervals)][2] = now
  PROVE  now > 0
PROOF
<1>1. TypeOK /\ IntervalsAreExact /\ m_intervals \in Seq(Interval)
  BY DEF UtilIInv, TypeOK, Interval
<1>2. Len(m_intervals) \in 1 .. Len(m_intervals)
  BY <1>1, LenProperties, EmptySeq
<1>3. /\ m_intervals[Len(m_intervals)][1] < now
      /\ m_intervals[Len(m_intervals)][1] \in Times /\ now \in Times
  BY <1>1, <1>2, IntervalEnds DEF IntervalsAreExact, TypeOK
<1> QED  BY <1>3, HorizonAssumption DEF Times

\* The final intervals reach from 0 to the end of the simulation, whenever it
\* ends and whatever the device was doing then, and only a simulation that
\* ends at time 0 makes the writing of the results throw.
THEOREM RunIsCovered == Spec => []IntervalsCoverRun
PROOF
<1> DEFINE Covered == RecordReachesNow /\ IntervalsCoverRun
<1>1. Init => Covered
  BY DEF Init, IntervalsCoverRun, RecordReachesNow
<1>2. UtilIInv /\ Covered /\ [Next]_vars => Covered'
  <2> SUFFICES ASSUME UtilIInv, RecordReachesNow, IntervalsCoverRun, [Next]_vars
               PROVE  Covered'
    OBVIOUS
  <2>1. RecordReachesNow'
    BY ReachKept
  <2>2. CASE EndOfWriting
    <3>1. /\ stage = "writing" /\ now' = now
          /\ m_intervals = << >> => stage' = "threw"
          /\ m_intervals # << >> => stage' = "written"
      BY <2>2 DEF EndOfWriting, device
    <3>2. m_intervals = << >> => now = 0
      BY <3>1 DEF RecordReachesNow
    <3>3. m_intervals # << >> => now > 0
      BY <3>1, RecordHasExtent DEF RecordReachesNow
    <3> QED  BY <2>1, <3>1, <3>2, <3>3 DEF IntervalsCoverRun, RecordReachesNow
  <2>3. CASE UNCHANGED <<stage, now>>
    BY <2>1, <2>3 DEF IntervalsCoverRun, RecordReachesNow
  <2>4. CASE stage' \notin {"written", "threw"}
    BY <2>1, <2>4 DEF IntervalsCoverRun, RecordReachesNow
  <2>5. CASE Next /\ ~EndOfWriting /\ stage' \in {"written", "threw"}
    <3>1. UNCHANGED <<stage, now>>
      BY <2>5 DEF Next, TimePasses, NetDevicePhyTxBeginCallback,
         NetDevicePhyTxEndCallback, CompleteInterval, FinishCall,
         FinalizeUtilization, IncludeIncompleteInterval, WriteInterval, device
    <3> QED  BY <2>3, <3>1
  <2>6. CASE UNCHANGED vars
    BY <2>3, <2>6 DEF vars, device
  <2> QED  BY <2>2, <2>4, <2>5, <2>6
<1>3. Covered => IntervalsCoverRun
  OBVIOUS
<1> HIDE DEF Covered
<1> QED  BY <1>1, <1>2, <1>3, UtilInvariant, PTL DEF Spec

----------------------------------------------------------------------------
(* The compressed file *)

\* An interval ends before any later one starts.
IntervalsOrdered ==
  \A i, k \in 1 .. Len(m_intervals) : i < k => m_intervals[i][2] <= m_intervals[k][1]

LEMMA OrderExtended ==
  ASSUME UtilIInv, IntervalsOrdered, stage \in {"running", "finalizing"},
         NEW end \in Times, NEW busy \in 0 .. m_interval_ns,
         m_intervals' = Append(m_intervals, <<m_current_interval_start, end, busy>>)
  PROVE  IntervalsOrdered'
PROOF
<1> DEFINE x == <<m_current_interval_start, end, busy>>
<1>1. /\ TypeOK /\ IntervalsAreExact /\ NextInterval
      /\ x \in Interval /\ m_intervals \in Seq(Interval)
      /\ x[1] = m_current_interval_start
  BY DEF UtilIInv, TypeOK, Interval
<1> HIDE DEF x
<1>2. /\ Len(m_intervals') = Len(m_intervals) + 1
      /\ \A i \in 1 .. Len(m_intervals) : m_intervals'[i] = m_intervals[i]
      /\ m_intervals'[Len(m_intervals) + 1] = x
      /\ Len(m_intervals) \in Nat
  BY <1>1, AppendProperties, LenProperties DEF x
<1>3. ASSUME NEW i \in 1 .. Len(m_intervals')  , NEW k \in 1 .. Len(m_intervals'), i < k
      PROVE  m_intervals'[i][2] <= m_intervals'[k][1]
  <2>1. i \in 1 .. Len(m_intervals) /\ m_intervals'[i] = m_intervals[i]
    BY <1>2, <1>3
  <2>2. CASE k \in 1 .. Len(m_intervals)
    BY <2>1, <2>2, <1>2, <1>3 DEF IntervalsOrdered
  <2>3. CASE k \notin 1 .. Len(m_intervals)
    <3> DEFINE n == Len(m_intervals)
    <3>1. m_intervals'[k] = x /\ n \in 1 .. Len(m_intervals)
      BY <2>1, <2>3, <1>2
    <3>2. m_intervals # << >>
      BY <3>1, <1>1, EmptySeq
    <3>3. m_intervals[n][2] = m_current_interval_start
      BY <3>2, <1>1 DEF NextInterval
    <3>4. /\ m_intervals[i][2] \in Int /\ m_intervals[n][1] \in Int
          /\ m_intervals[n][2] \in Int
          /\ m_intervals[n][1] < m_intervals[n][2]
      BY <2>1, <3>1, <1>1, IntervalEnds DEF IntervalsAreExact
    <3>5. m_intervals[i][2] <= m_intervals[n][2]
      <4>1. CASE i = n
        BY <4>1, <3>4
      <4>2. CASE i # n
        <5>1. i < n
          BY <4>2, <2>1, <1>2
        <5>2. m_intervals[i][2] <= m_intervals[n][1]
          BY <5>1, <2>1, <3>1 DEF IntervalsOrdered
        <5> QED  BY <5>2, <3>4
      <4> QED  BY <4>1, <4>2
    <3> QED  BY <3>1, <3>3, <3>5, <2>1, <1>1
  <2> QED  BY <2>2, <2>3
<1> QED  BY <1>3 DEF IntervalsOrdered

LEMMA OrderInvariant == Spec => []IntervalsOrdered
PROOF
<1>1. Init => IntervalsOrdered
  BY DEF Init, IntervalsOrdered
<1>2. UtilIInv /\ IntervalsOrdered /\ [Next]_vars => IntervalsOrdered'
  <2> SUFFICES ASSUME UtilIInv, IntervalsOrdered, [Next]_vars PROVE IntervalsOrdered'
    OBVIOUS
  <2>1. CASE CompleteInterval
    <3> DEFINE end == m_current_interval_end
    <3>p. /\ TypeOK /\ Accounting /\ StateIsKnown /\ Numbers
      BY Parts
    <3>1. /\ call # "none" /\ now >= end
          /\ m_intervals' = Append(m_intervals,
                                   <<m_current_interval_start, end, Busy(end)>>)
      BY <2>1 DEF CompleteInterval
    <3>2. end \in Times /\ m_prev_time_ns <= end
          /\ end = m_current_interval_start + m_interval_ns
      BY <3>1, <3>p DEF Numbers, Accounting, Times, TypeOK
    <3>3. Busy(end) \in 0 .. m_interval_ns
      BY <3>1, <3>2, CountedUntil, <3>p DEF Numbers
    <3>4. stage \in {"running", "finalizing"}
      BY <3>1, <3>p DEF StateIsKnown, TypeOK
    <3> HIDE DEF end
    <3> QED  BY <3>1, <3>2, <3>3, <3>4, OrderExtended
  <2>2. CASE IncludeIncompleteInterval
    <3>1. \/ m_intervals' = m_intervals
          \/ m_intervals' = Append(m_intervals, <<m_current_interval_start, now,
                                                 m_busy_time_counter_ns>>)
      BY <2>2 DEF IncludeIncompleteInterval
    <3>2. /\ stage \in {"running", "finalizing"} /\ now \in Times
          /\ m_busy_time_counter_ns \in 0 .. m_interval_ns
      BY <2>2 DEF IncludeIncompleteInterval, UtilIInv, TypeOK
    <3>3. CASE m_intervals' = m_intervals
      BY <3>3 DEF IntervalsOrdered
    <3> QED  BY <3>1, <3>2, <3>3, OrderExtended
  <2>3. ASSUME ~CompleteInterval, ~IncludeIncompleteInterval PROVE m_intervals' = m_intervals
    BY <2>3 DEF Next, vars, TimePasses, NetDevicePhyTxBeginCallback,
       NetDevicePhyTxEndCallback, FinishCall, FinalizeUtilization,
       WriteInterval, EndOfWriting
  <2>4. CASE m_intervals' = m_intervals
    BY <2>4 DEF IntervalsOrdered
  <2> QED  BY <2>1, <2>2, <2>3, <2>4
<1> QED  BY <1>1, <1>2, UtilInvariant, PTL DEF Spec

\* Where the intervals dealt with so far end.
WrittenEnd == IF j = 1 THEN 0 ELSE m_intervals[j - 1][2]

\* Compressed lines up to interval_left_side_ns are final and faithful; the
\* open line has the busy time since then and joins only similar intervals.
LinesAreFaithful ==
  /\ compressed = << >> => interval_left_side_ns = 0
  /\ compressed # << >> => /\ compressed[1][1] = 0
                           /\ compressed[Len(compressed)][2] = interval_left_side_ns
  /\ \A c \in 1 .. Len(compressed) :
       /\ compressed[c][3] = TrueBusyTime(compressed[c][1], compressed[c][2])
       /\ c < Len(compressed) => compressed[c][2] = compressed[c + 1][1]
       /\ \A i \in 1 .. Len(m_intervals) - 1 :
            compressed[c][1] <= m_intervals[i][1]
              /\ m_intervals[i][2] < compressed[c][2] =>
                ~UtilizationDiffers(m_intervals[i], m_intervals[i + 1])

OpenLine ==
  /\ j <= Len(m_intervals) + 1
  /\ stage \in {"written", "threw"} => j = Len(m_intervals) + 1
  /\ running_busy_sum_ns = TrueBusyTime(interval_left_side_ns, WrittenEnd)
  /\ \A i \in 1 .. Len(m_intervals) - 1 :
       i < j /\ interval_left_side_ns <= m_intervals[i][1] =>
         ~UtilizationDiffers(m_intervals[i], m_intervals[i + 1])
  /\ j = Len(m_intervals) + 1 => interval_left_side_ns = WrittenEnd

WriterIInv ==
  IF stage \in {"running", "finalizing"}
  THEN /\ j = 1 /\ interval_left_side_ns = 0
       /\ running_busy_sum_ns = 0 /\ compressed = << >>
  ELSE LinesAreFaithful /\ OpenLine

\* The interval being written continues where the previous one ended.
LEMMA CurrentInterval ==
  ASSUME UtilIInv, j \in 1 .. Len(m_intervals)
  PROVE  /\ m_intervals[j][1] = WrittenEnd
         /\ m_intervals[j][1] \in Times /\ m_intervals[j][2] \in Times
         /\ m_intervals[j][1] < m_intervals[j][2]
         /\ m_intervals[j][3] = TrueBusyTime(WrittenEnd, m_intervals[j][2])
PROOF
<1>1. TypeOK /\ IntervalsAreExact /\ m_intervals \in Seq(Interval)
      /\ Len(m_intervals) \in Nat
  BY LenProperties DEF UtilIInv, TypeOK, Interval
<1>2. /\ m_intervals[j][1] \in Times /\ m_intervals[j][2] \in Times
      /\ m_intervals[j][1] < m_intervals[j][2]
      /\ m_intervals[j][3] = TrueBusyTime(m_intervals[j][1], m_intervals[j][2])
  BY <1>1, IntervalEnds DEF IntervalsAreExact
<1>3. m_intervals[j][1] = WrittenEnd
  <2>1. CASE j = 1
    <3>1. m_intervals # << >>
      BY <1>1, EmptySeq
    <3> QED  BY <3>1, <2>1, <1>1 DEF IntervalsAreExact, WrittenEnd
  <2>2. CASE j # 1
    <3>1. j - 1 \in 1 .. Len(m_intervals) /\ j - 1 < Len(m_intervals)
          /\ (j - 1) + 1 = j
      BY <2>2, <1>1
    <3>2. m_intervals[j - 1][2] = m_intervals[(j - 1) + 1][1]
      BY <3>1, <1>1 DEF IntervalsAreExact
    <3> QED  BY <2>2, <3>1, <3>2 DEF WrittenEnd
  <2> QED  BY <2>1, <2>2
<1> QED  BY <1>2, <1>3

\* What an iteration of WriteResults gathers.
LEMMA Gathered ==
  ASSUME UtilIInv, OpenLine, j \in 1 .. Len(m_intervals)
  PROVE  running_busy_sum_ns + m_intervals[j][3]
           = TrueBusyTime(interval_left_side_ns, m_intervals[j][2])
PROOF
<1>1. /\ m_intervals[j][1] = WrittenEnd
      /\ m_intervals[j][1] \in Times /\ m_intervals[j][2] \in Times
      /\ m_intervals[j][3] = TrueBusyTime(WrittenEnd, m_intervals[j][2])
  BY CurrentInterval
<1>2. /\ interval_left_side_ns \in Times
      /\ \A t \in Times : busyBefore[t] \in Int
  BY DEF UtilIInv, TypeOK
<1>3. /\ busyBefore[m_intervals[j][2]] \in Int /\ busyBefore[WrittenEnd] \in Int
      /\ busyBefore[interval_left_side_ns] \in Int
  BY <1>1, <1>2
<1>4. /\ running_busy_sum_ns = busyBefore[WrittenEnd] - busyBefore[interval_left_side_ns]
      /\ m_intervals[j][3] = busyBefore[m_intervals[j][2]] - busyBefore[WrittenEnd]
  BY <1>1 DEF OpenLine, TrueBusyTime
<1> QED  BY <1>3, <1>4 DEF TrueBusyTime

\* A line that is not yet due: the open line grows by one interval.
LEMMA StepJoin ==
  ASSUME UtilIInv, WriterIInv, WriteInterval, ~PrintCompressedLine(j)
  PROVE  WriterIInv'
PROOF
<1>1. /\ stage = "writing" /\ stage' = "writing" /\ j' = j + 1
      /\ j \in 1 .. Len(m_intervals) /\ Len(m_intervals) \in Nat
      /\ j \in Nat
      /\ UNCHANGED <<m_intervals, busyBefore, interval_left_side_ns, compressed>>
      /\ running_busy_sum_ns' = running_busy_sum_ns + m_intervals[j][3]
  BY LenProperties DEF WriteInterval, UtilIInv, TypeOK, device
<1>2. LinesAreFaithful /\ OpenLine
  BY <1>1 DEF WriterIInv
<1>3. j # Len(m_intervals)
      /\ ~UtilizationDiffers(m_intervals[j], m_intervals[j + 1])
  BY DEF PrintCompressedLine
<1>4. WrittenEnd' = m_intervals[j][2]
  <2>1. j' # 1 /\ j' - 1 = j
    BY <1>1
  <2> QED  BY <2>1, <1>1 DEF WrittenEnd
<1>5. running_busy_sum_ns' = TrueBusyTime(interval_left_side_ns, WrittenEnd)'
  BY <1>1, <1>2, <1>4, Gathered DEF TrueBusyTime
<1>6. LinesAreFaithful'
  BY <1>1, <1>2 DEF LinesAreFaithful, TrueBusyTime
<1>7. ASSUME NEW i \in 1 .. Len(m_intervals) - 1, i < j + 1,
             interval_left_side_ns <= m_intervals[i][1]
      PROVE  ~UtilizationDiffers(m_intervals[i], m_intervals[i + 1])
  <2>1. CASE i = j
    BY <2>1, <1>3
  <2>2. CASE i # j
    <3>1. i < j
      BY <2>2, <1>1, <1>7
    <3> QED  BY <3>1, <1>2, <1>7 DEF OpenLine
  <2> QED  BY <2>1, <2>2
<1>8. j' # Len(m_intervals') + 1 /\ j' <= Len(m_intervals') + 1
  BY <1>1, <1>3
<1>9. OpenLine'
  BY <1>1, <1>5, <1>7, <1>8 DEF OpenLine
<1> QED  BY <1>1, <1>6, <1>9 DEF WriterIInv

\* A line is written: it ends with the interval, and a new one is opened there.
LEMMA StepLine ==
  ASSUME UtilIInv, IntervalsOrdered, WriterIInv, WriteInterval,
         PrintCompressedLine(j)
  PROVE  WriterIInv'
PROOF
<1> DEFINE left == interval_left_side_ns
           end == m_intervals[j][2]
           sum == running_busy_sum_ns + m_intervals[j][3]
           line == <<left, end, sum>>
           n == Len(compressed)
<1>1. /\ stage = "writing" /\ stage' = "writing" /\ j' = j + 1
      /\ j \in 1 .. Len(m_intervals) /\ Len(m_intervals) \in Nat
      /\ j \in Nat
      /\ UNCHANGED <<m_intervals, busyBefore>>
      /\ interval_left_side_ns' = end
      /\ running_busy_sum_ns' = 0
      /\ compressed' = Append(compressed, line)
  <2>1. /\ stage = "writing" /\ stage' = "writing" /\ j' = j + 1
        /\ j <= Len(m_intervals) /\ UNCHANGED <<m_intervals, busyBefore>>
    BY DEF WriteInterval, device
  <2>2. j \in Nat \ {0} /\ Len(m_intervals) \in Nat
    BY LenProperties DEF UtilIInv, TypeOK
  <2>3. /\ interval_left_side_ns' = end
        /\ running_busy_sum_ns' = 0
        /\ compressed' = Append(compressed, line)
    BY DEF WriteInterval
  <2> HIDE DEF end, line
  <2> QED  BY <2>1, <2>2, <2>3
<1>2. LinesAreFaithful /\ OpenLine
  BY <1>1 DEF WriterIInv
<1>3. /\ end \in Times /\ left \in Times /\ end \in Int /\ left \in Int
      /\ m_intervals[j][1] < end
      /\ sum = TrueBusyTime(left, end)
      /\ sum \in Nat
  <2>1. /\ left \in Times /\ running_busy_sum_ns \in Nat
        /\ m_intervals \in Seq(Interval)
    BY DEF UtilIInv, TypeOK, Interval
  <2>2. m_intervals[j] \in Interval
    BY <2>1, <1>1, LenProperties
  <2>3. m_intervals[j][3] \in Nat
    BY <2>2, IntervalAssumption DEF Interval
  <2>4. end \in Times /\ m_intervals[j][1] < end /\ sum = TrueBusyTime(left, end)
    BY <1>1, <1>2, CurrentInterval, Gathered
  <2> QED  BY <2>1, <2>3, <2>4, HorizonAssumption DEF Times
<1>4. WrittenEnd' = end
  <2>1. j' # 1 /\ j' - 1 = j
    BY <1>1
  <2> QED  BY <2>1, <1>1 DEF WrittenEnd
<1>5. /\ line[1] = left /\ line[2] = end /\ line[3] = sum
      /\ line \in Times \X Times \X Nat
      /\ compressed \in Seq(Times \X Times \X Nat)
  BY <1>3 DEF UtilIInv, TypeOK
<1> HIDE DEF line, sum, end, left
<1>6. /\ Len(compressed') = n + 1 /\ n \in Nat /\ compressed' # << >>
      /\ \A c \in 1 .. n : compressed'[c] = compressed[c]
      /\ compressed'[n + 1] = line
  BY <1>1, <1>5, AppendProperties, LenProperties
<1> HIDE DEF n
<1>7. compressed'[1][1] = 0 /\ compressed'[Len(compressed')][2] = end
  <2>1. CASE compressed = << >>
    <3>1. n = 0
      BY <2>1 DEF n
    <3>2. left = 0
      BY <2>1, <1>2 DEF LinesAreFaithful, left
    <3> QED  BY <3>1, <3>2, <1>5, <1>6
  <2>2. CASE compressed # << >>
    <3>1. 1 \in 1 .. n
      BY <2>2, <1>5, <1>6, EmptySeq DEF n
    <3>2. compressed[1][1] = 0
      BY <2>2, <1>2 DEF LinesAreFaithful
    <3> QED  BY <3>1, <3>2, <1>5, <1>6
  <2> QED  BY <2>1, <2>2
<1>8. ASSUME NEW i \in 1 .. Len(m_intervals) - 1,
             left <= m_intervals[i][1], m_intervals[i][2] < end
      PROVE  ~UtilizationDiffers(m_intervals[i], m_intervals[i + 1])
  <2>1. i \in 1 .. Len(m_intervals)
    BY <1>1
  <2>2. /\ m_intervals[i][2] \in Int /\ m_intervals[i][1] \in Int
        /\ m_intervals[i][1] < m_intervals[i][2]
        /\ m_intervals[j][1] \in Int
    BY <2>1, <1>1, IntervalEnds DEF UtilIInv, IntervalsAreExact
  <2>3. i < j
    <3>1. CASE j < i
      <4>1. end <= m_intervals[i][1]
        BY <3>1, <2>1, <1>1 DEF IntervalsOrdered, end
      <4> QED  BY <4>1, <2>2, <1>3, <1>8
    <3>2. CASE i = j
      BY <3>2, <2>2, <1>3, <1>8 DEF end
    <3> QED  BY <3>1, <3>2, <2>1, <1>1
  <2> QED  BY <2>3, <1>2, <1>8 DEF OpenLine, left
<1>9. ASSUME NEW c \in 1 .. Len(compressed')
      PROVE  /\ compressed'[c][3] = TrueBusyTime(compressed[c][1], compressed[c][2])'
             /\ c < Len(compressed') => compressed'[c][2] = compressed'[c + 1][1]
             /\ \A i \in 1 .. Len(m_intervals') - 1 :
                  compressed'[c][1] <= m_intervals'[i][1]
                    /\ m_intervals'[i][2] < compressed'[c][2] =>
                      ~UtilizationDiffers(m_intervals[i], m_intervals[i + 1])'
  <2>1. CASE c = n + 1
    <3>1. compressed'[c] = line /\ ~(c < Len(compressed'))
      BY <2>1, <1>6
    <3>2. compressed'[c][3] = TrueBusyTime(compressed[c][1], compressed[c][2])'
      BY <3>1, <1>1, <1>3, <1>5 DEF TrueBusyTime
    <3>3. \A i \in 1 .. Len(m_intervals) - 1 :
            left <= m_intervals[i][1] /\ m_intervals[i][2] < end =>
              ~UtilizationDiffers(m_intervals[i], m_intervals[i + 1])
      BY <1>8
    <3>4. UNCHANGED m_intervals
      BY <1>1
    <3> QED  BY <3>1, <3>2, <3>3, <3>4, <1>5
  <2>2. CASE c # n + 1
    <3>1. c \in 1 .. n /\ compressed'[c] = compressed[c] /\ c \in 1 .. Len(compressed)
      BY <2>2, <1>6 DEF n
    <3>2. compressed'[c][2] = compressed'[c + 1][1]
      <4>1. CASE c = n
        <5>1. compressed # << >>
          BY <3>1, <1>6 DEF n
        <5>2. compressed[n][2] = left
          BY <5>1, <1>2 DEF LinesAreFaithful, left, n
        <5> QED  BY <5>2, <4>1, <3>1, <1>5, <1>6
      <4>2. CASE c # n
        <5>1. c < n /\ c + 1 \in 1 .. n
          BY <4>2, <3>1, <1>6
        <5>2. compressed[c][2] = compressed[c + 1][1]
          BY <5>1, <3>1, <1>2 DEF LinesAreFaithful, n
        <5> QED  BY <5>1, <5>2, <3>1, <1>6
      <4> QED  BY <4>1, <4>2
    <3>3. compressed[c][3] = TrueBusyTime(compressed[c][1], compressed[c][2])
      BY <3>1, <1>2 DEF LinesAreFaithful
    <3>4. \A i \in 1 .. Len(m_intervals) - 1 :
            compressed[c][1] <= m_intervals[i][1]
              /\ m_intervals[i][2] < compressed[c][2] =>
                ~UtilizationDiffers(m_intervals[i], m_intervals[i + 1])
      BY <3>1, <1>2 DEF LinesAreFaithful
    <3>5. UNCHANGED <<m_intervals, busyBefore>>
      BY <1>1
    <3> QED  BY <3>1, <3>2, <3>3, <3>4, <3>5 DEF TrueBusyTime
  <2> QED  BY <2>1, <2>2
<1>10. LinesAreFaithful'
  BY <1>1, <1>6, <1>7, <1>9 DEF LinesAreFaithful
<1>11. running_busy_sum_ns' = TrueBusyTime(interval_left_side_ns, WrittenEnd)'
  <2>1. busyBefore[end] \in Int
    BY <1>3 DEF UtilIInv, TypeOK
  <2> QED  BY <2>1, <1>1, <1>4 DEF TrueBusyTime
<1>12. ASSUME NEW i \in 1 .. Len(m_intervals) - 1, i < j + 1
       PROVE  ~(end <= m_intervals[i][1])
  <2>1. i \in 1 .. Len(m_intervals)
    BY <1>1
  <2>2. /\ m_intervals[i][2] \in Int /\ m_intervals[i][1] \in Int
        /\ m_intervals[i][1] < m_intervals[i][2]
        /\ m_intervals[j][1] \in Int
    BY <2>1, <1>1, IntervalEnds DEF UtilIInv, IntervalsAreExact
  <2>3. CASE i = j
    BY <2>3, <2>2, <1>3
  <2>4. CASE i # j
    <3>1. i < j
      BY <2>4, <1>1, <1>12
    <3>2. m_intervals[i][2] <= m_intervals[j][1]
      BY <3>1, <2>1, <1>1 DEF IntervalsOrdered
    <3> QED  BY <3>2, <2>2, <1>3
  <2> QED  BY <2>3, <2>4
<1>13. j' <= Len(m_intervals') + 1 /\ stage' \notin {"written", "threw"}
  BY <1>1
<1>14. OpenLine'
  BY <1>1, <1>4, <1>11, <1>12, <1>13 DEF OpenLine
<1> QED  BY <1>1, <1>10, <1>14 DEF WriterIInv

LEMMA WriterInvariant == Spec => []WriterIInv
PROOF
<1>1. Init => WriterIInv
  BY DEF Init, WriterIInv
<1>2. UtilIInv /\ IntervalsOrdered /\ WriterIInv /\ [Next]_vars => WriterIInv'
  <2> SUFFICES ASSUME UtilIInv, IntervalsOrdered, WriterIInv, [Next]_vars
               PROVE  WriterIInv'
    OBVIOUS
  <2>p. TypeOK /\ StateIsKnown
    BY DEF UtilIInv
  <2>1. CASE UNCHANGED vars
    <3>1. UNCHANGED <<busyBefore, m_intervals, stage, j, interval_left_side_ns,
                      running_busy_sum_ns, compressed>>
      BY <2>1 DEF vars, device, writer
    <3> QED  BY <3>1 DEF WriterIInv, LinesAreFaithful, OpenLine, WrittenEnd,
                         TrueBusyTime
  <2>2. CASE Next /\ stage \in {"writing", "written", "threw"}
    <3>1. WriteInterval \/ EndOfWriting
      BY <2>2, <2>p, RecordKept
    <3>2. CASE EndOfWriting
      <4>1. /\ UNCHANGED <<busyBefore, m_intervals, j, interval_left_side_ns,
                           running_busy_sum_ns, compressed>>
            /\ stage = "writing" /\ stage' \in {"written", "threw"} /\ j > Len(m_intervals)
        BY <3>2 DEF EndOfWriting, device, writer
      <4>2. LinesAreFaithful /\ OpenLine
        BY <4>1 DEF WriterIInv
      <4>3. j = Len(m_intervals) + 1
        BY <4>1, <4>2, <2>p, LenProperties DEF OpenLine, TypeOK
      <4>4. LinesAreFaithful' /\ OpenLine'
        BY <4>1, <4>2, <4>3 DEF LinesAreFaithful, OpenLine, WrittenEnd, TrueBusyTime
      <4> QED  BY <4>1, <4>4 DEF WriterIInv
    <3> QED  BY <3>1, <3>2, StepJoin, StepLine
  <2>3. CASE Next /\ stage \notin {"writing", "written", "threw"}
    <3>1. /\ UNCHANGED <<j, interval_left_side_ns, running_busy_sum_ns, compressed>>
          /\ stage \in {"running", "finalizing"}
          /\ stage' \in {"running", "finalizing", "writing"}
      BY <2>3, <2>p DEF TypeOK, Next, TimePasses, NetDevicePhyTxBeginCallback,
         NetDevicePhyTxEndCallback, CompleteInterval, FinishCall,
         FinalizeUtilization, IncludeIncompleteInterval, WriteInterval,
         EndOfWriting, writer
    <3>2. j = 1 /\ interval_left_side_ns = 0 /\ running_busy_sum_ns = 0
          /\ compressed = << >>
      BY <3>1 DEF WriterIInv
    <3>3. CASE stage' \in {"running", "finalizing"}
      BY <3>1, <3>2, <3>3 DEF WriterIInv
    <3>4. CASE stage' = "writing"
      <4>1. IncludeIncompleteInterval
        BY <2>3, <3>4, RecordEnds
      <4>2. busyBefore' = busyBefore /\ 0 \in Times
        BY <4>1, HorizonAssumption DEF IncludeIncompleteInterval, device, Times
      <4>3. busyBefore[0] \in Int
        BY <4>2, <2>p DEF TypeOK
      <4>4. WrittenEnd' = 0
        BY <3>1, <3>2 DEF WrittenEnd
      <4>5. LinesAreFaithful'
        BY <3>1, <3>2 DEF LinesAreFaithful
      <4>6. Len(m_intervals') \in Nat
        <5>1. UtilIInv'
          BY <4>1, StepIncludeIncompleteInterval
        <5> QED  BY <5>1, LenProperties DEF UtilIInv, TypeOK
      <4>7. OpenLine'
        BY <3>1, <3>2, <3>4, <4>2, <4>3, <4>4, <4>6 DEF OpenLine, TrueBusyTime
      <4> QED  BY <3>4, <4>5, <4>7 DEF WriterIInv
    <3> QED  BY <3>1, <3>3, <3>4
  <2> QED  BY <2>1, <2>2, <2>3
<1> QED  BY <1>1, <1>2, UtilInvariant, OrderInvariant, PTL DEF Spec

\* The compressed file says the same of the whole run as the uncompressed one,
\* for every threshold and every pattern of transmissions.
THEOREM CompressionCorrect == Spec => []CompressionIsFaithful
PROOF
<1>1. UtilIInv /\ WriterIInv /\ IntervalsCoverRun => CompressionIsFaithful
  <2> SUFFICES ASSUME UtilIInv, WriterIInv, IntervalsCoverRun, stage = "written"
               PROVE  CompressionIsFaithful
    BY DEF CompressionIsFaithful
  <2> DEFINE n == Len(m_intervals)
  <2>1. LinesAreFaithful /\ OpenLine /\ j = n + 1
    BY DEF WriterIInv, OpenLine
  <2>2. /\ compressed # << >>
        /\ compressed[1][1] = 0
        /\ compressed[Len(compressed)][2] = now
    <3>0. m_intervals # << >>
      <4>1. now > 0 /\ (m_intervals = << >> => now = 0)
        BY DEF IntervalsCoverRun
      <4> QED  BY <4>1
    <3>1. TypeOK /\ IntervalsAreExact /\ m_intervals \in Seq(Interval) /\ n \in Nat
      BY LenProperties DEF UtilIInv, TypeOK, Interval
    <3>2. n \in 1 .. Len(m_intervals)
      BY <3>0, <3>1, EmptySeq
    <3>3. m_intervals[n][2] = now
      BY <3>0 DEF IntervalsCoverRun
    <3>4. WrittenEnd = now
      <4>1. j # 1 /\ j - 1 = n
        BY <2>1, <3>1, <3>2
      <4> QED  BY <4>1, <3>3 DEF WrittenEnd
    <3>5. interval_left_side_ns = now
      BY <2>1, <3>4 DEF OpenLine
    <3>6. m_intervals[n][1] < now /\ m_intervals[n][1] \in Times /\ now \in Times
      BY <3>1, <3>2, <3>3, IntervalEnds DEF IntervalsAreExact, TypeOK
    <3>7. now # 0
      BY <3>6, HorizonAssumption DEF Times
    <3> QED  BY <2>1, <3>5, <3>7 DEF LinesAreFaithful
  <2> QED  BY <2>1, <2>2 DEF CompressionIsFaithful, LinesAreFaithful
<1> QED  BY <1>1, UtilInvariant, WriterInvariant, RunIsCovered, PTL
=============================================================================
