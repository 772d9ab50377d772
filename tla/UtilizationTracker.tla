------------------------- MODULE UtilizationTracker -------------------------
(***************************************************************************)
(* NetDeviceUtilizationTracker: how long a network device transmitted in   *)
(* each interval of fixed length, and PtopLinkNetDeviceUtilizationTracking *)
(* ::WriteResults, which writes the intervals and a compressed version.    *)
(*                                                                         *)
(* The device calls back when it starts and when it stops transmitting;    *)
(* the tracker is told only the state that begins, so the time since the   *)
(* previous call belongs to the other state.  A call that comes after the  *)
(* end of one or more intervals first completes them, one per iteration.   *)
(* While a call is under way nothing else runs: there is one thread, and   *)
(* simulated time stands still.                                            *)
(***************************************************************************)
EXTENDS Integers, Sequences

CONSTANTS
  m_interval_ns,    \* length of an interval
  Horizon,          \* bound: the latest possible end of the simulation
  Threshold         \* UTILIZATION_TRACKER_COMPRESSION_APPROXIMATELY_NOT_EQUAL
                    \* is 1 / Threshold

ASSUME IntervalAssumption == m_interval_ns \in Nat \ {0}
ASSUME HorizonAssumption == Horizon \in Nat
ASSUME ThresholdAssumption == Threshold \in Nat \ {0}

VARIABLES
  now,                      \* Simulator::Now()
  transmitting,             \* what the device is doing
  m_prev_time_ns,
  m_current_interval_start,
  m_current_interval_end,
  m_idle_time_counter_ns,
  m_busy_time_counter_ns,
  m_current_state_is_on,
  m_intervals,              \* <<start, end, busy time>>
  call,                     \* TrackUtilization under way: "on", "off" or "none"
  stage,                    \* "running", "finalizing", "writing", "written",
                            \* or "threw": the results could not be written
  j,                        \* loop index of WriteResults
  interval_left_side_ns,    \* start of the compressed line being gathered
  running_busy_sum_ns,      \* busy time gathered for it
  compressed,               \* compressed lines <<start, end, busy time>>
  busyBefore                \* history: busyBefore[t] is how long the device
                            \* transmits before t if it goes on as it is

tracker == <<m_prev_time_ns, m_current_interval_start, m_current_interval_end,
             m_idle_time_counter_ns, m_busy_time_counter_ns,
             m_current_state_is_on>>
device == <<now, transmitting, busyBefore>>
writer == <<j, interval_left_side_ns, running_busy_sum_ns, compressed>>
vars == <<device, tracker, m_intervals, call, stage, writer>>

Times == 0 .. Horizon

----------------------------------------------------------------------------
Init ==
  /\ now = 0
  /\ transmitting = FALSE
  /\ busyBefore = [t \in Times |-> 0]
  /\ m_prev_time_ns = 0
  /\ m_current_interval_start = 0
  /\ m_current_interval_end = m_interval_ns
  /\ m_idle_time_counter_ns = 0
  /\ m_busy_time_counter_ns = 0
  /\ m_current_state_is_on = FALSE
  /\ m_intervals = << >>
  /\ call = "none"
  /\ stage = "running"
  /\ j = 1
  /\ interval_left_side_ns = 0
  /\ running_busy_sum_ns = 0
  /\ compressed = << >>

TimePasses(t) ==
  /\ stage = "running"
  /\ call = "none"
  /\ t > now
  /\ now' = t
  /\ UNCHANGED <<transmitting, busyBefore, tracker, m_intervals, call, stage, writer>>

\* PhyTxBegin and PhyTxEnd: the device calls them in turn.
NetDevicePhyTxBeginCallback ==
  /\ stage = "running"
  /\ call = "none"
  /\ ~transmitting
  /\ transmitting' = TRUE
  /\ call' = "on"
  /\ busyBefore' = [t \in Times |-> IF t <= now THEN busyBefore[t]
                                    ELSE busyBefore[now] + (t - now)]
  /\ UNCHANGED <<now, tracker, m_intervals, stage, writer>>

NetDevicePhyTxEndCallback ==
  /\ stage = "running"
  /\ call = "none"
  /\ transmitting
  /\ transmitting' = FALSE
  /\ call' = "off"
  /\ busyBefore' = [t \in Times |-> IF t <= now THEN busyBefore[t]
                                    ELSE busyBefore[now]]
  /\ UNCHANGED <<now, tracker, m_intervals, stage, writer>>

\* The counters once the time up to `until` is added to the one of the state
\* that the call ends.
Idle(until) ==
  m_idle_time_counter_ns + IF call = "on" THEN until - m_prev_time_ns ELSE 0
Busy(until) ==
  m_busy_time_counter_ns + IF call = "off" THEN until - m_prev_time_ns ELSE 0

\* Fault: the counters of the completed interval are carried over.
CompleteWithoutReset ==
  /\ call # "none"
  /\ now >= m_current_interval_end
  /\ m_intervals' = Append(m_intervals, <<m_current_interval_start,
                                          m_current_interval_end,
                                          Busy(m_current_interval_end)>>)
  /\ m_idle_time_counter_ns' = Idle(m_current_interval_end)
  /\ m_busy_time_counter_ns' = Busy(m_current_interval_end)
  /\ m_prev_time_ns' = m_current_interval_end
  /\ m_current_interval_start' = m_current_interval_start + m_interval_ns
  /\ m_current_interval_end' = m_current_interval_end + m_interval_ns
  /\ UNCHANGED <<device, m_current_state_is_on, call, stage, writer>>

\* One iteration of the loop of TrackUtilization.
CompleteInterval ==
  /\ call # "none"
  /\ now >= m_current_interval_end
  /\ m_intervals' = Append(m_intervals, <<m_current_interval_start,
                                          m_current_interval_end,
                                          Busy(m_current_interval_end)>>)
  /\ m_idle_time_counter_ns' = 0
  /\ m_busy_time_counter_ns' = 0
  /\ m_prev_time_ns' = m_current_interval_end
  /\ m_current_interval_start' = m_current_interval_start + m_interval_ns
  /\ m_current_interval_end' = m_current_interval_end + m_interval_ns
  /\ UNCHANGED <<device, m_current_state_is_on, call, stage, writer>>

\* The rest of TrackUtilization, after its loop.
FinishCall ==
  /\ call # "none"
  /\ now < m_current_interval_end
  /\ m_idle_time_counter_ns' = Idle(now)
  /\ m_busy_time_counter_ns' = Busy(now)
  /\ m_current_state_is_on' = (call = "on")
  /\ m_prev_time_ns' = now
  /\ call' = "none"
  /\ UNCHANGED <<device, m_current_interval_start, m_current_interval_end,
                 m_intervals, stage, writer>>

\* Fault: the current state is passed on as it is.
FinalizeWithSameState ==
  /\ stage = "running"
  /\ call = "none"
  /\ stage' = "finalizing"
  /\ call' = IF m_current_state_is_on THEN "on" ELSE "off"
  /\ UNCHANGED <<device, tracker, m_intervals, writer>>

\* FinalizeUtilization, called by WriteResults when the simulation has ended:
\* it pretends that the device changes its state now.
FinalizeUtilization ==
  /\ stage = "running"
  /\ call = "none"
  /\ stage' = "finalizing"
  /\ call' = IF m_current_state_is_on THEN "off" ELSE "on"
  /\ UNCHANGED <<device, tracker, m_intervals, writer>>

\* Fault: an incomplete interval counts only if something was sent in it.
IncludeIfBusy ==
  /\ stage = "finalizing"
  /\ call = "none"
  /\ stage' = "writing"
  /\ m_intervals' = IF m_busy_time_counter_ns > 0
                    THEN Append(m_intervals, <<m_current_interval_start, now,
                                               m_busy_time_counter_ns>>)
                    ELSE m_intervals
  /\ UNCHANGED <<device, tracker, call, writer>>

\* The incomplete interval is included, if it has any extent.
IncludeIncompleteInterval ==
  /\ stage = "finalizing"
  /\ call = "none"
  /\ stage' = "writing"
  /\ m_intervals' = IF now # m_current_interval_start
                    THEN Append(m_intervals, <<m_current_interval_start, now,
                                               m_busy_time_counter_ns>>)
                    ELSE m_intervals
  /\ UNCHANGED <<device, tracker, call, writer>>

----------------------------------------------------------------------------
(* WriteResults: one iteration per interval.  Each interval also makes a     *)
(* line of the uncompressed file, which therefore is m_intervals itself.     *)

Abs(n) == IF n < 0 THEN -n ELSE n

\* |busy_j / length_j - busy_next / length_next| >= 1 / Threshold
UtilizationDiffers(a, b) ==
  LET length(i) == i[2] - i[1]
  IN  Abs(a[3] * length(b) - b[3] * length(a)) * Threshold
        >= length(a) * length(b)

PrintCompressedLine(k) ==
  \/ k = Len(m_intervals)
  \/ UtilizationDiffers(m_intervals[k], m_intervals[k + 1])

\* Fault: the sum of the line just written goes on into the next line.
WriteWithoutReset ==
  /\ stage = "writing"
  /\ j <= Len(m_intervals)
  /\ LET sum == running_busy_sum_ns + m_intervals[j][3]
     IN  IF PrintCompressedLine(j)
         THEN /\ compressed' = Append(compressed, <<interval_left_side_ns,
                                                    m_intervals[j][2], sum>>)
              /\ interval_left_side_ns' = m_intervals[j][2]
              /\ running_busy_sum_ns' = sum
         ELSE /\ running_busy_sum_ns' = sum
              /\ UNCHANGED <<interval_left_side_ns, compressed>>
  /\ j' = j + 1
  /\ UNCHANGED <<device, tracker, m_intervals, call, stage>>

WriteInterval ==
  /\ stage = "writing"
  /\ j <= Len(m_intervals)
  /\ LET sum == running_busy_sum_ns + m_intervals[j][3]
     IN  IF PrintCompressedLine(j)
         THEN /\ compressed' = Append(compressed, <<interval_left_side_ns,
                                                    m_intervals[j][2], sum>>)
              /\ interval_left_side_ns' = m_intervals[j][2]
              /\ running_busy_sum_ns' = 0
         ELSE /\ running_busy_sum_ns' = sum
              /\ UNCHANGED <<interval_left_side_ns, compressed>>
  /\ j' = j + 1
  /\ UNCHANGED <<device, tracker, m_intervals, call, stage>>

\* The line of the summary, which asks for the end of the last interval: a
\* simulation that ended at time 0 has none, and at() throws.
EndOfWriting ==
  /\ stage = "writing"
  /\ j > Len(m_intervals)
  /\ stage' = IF m_intervals = << >> THEN "threw" ELSE "written"
  /\ UNCHANGED <<device, tracker, m_intervals, call, writer>>

Next ==
  \/ \E t \in Times : TimePasses(t)
  \/ NetDevicePhyTxBeginCallback
  \/ NetDevicePhyTxEndCallback
  \/ CompleteInterval
  \/ FinishCall
  \/ FinalizeUtilization
  \/ IncludeIncompleteInterval
  \/ WriteInterval
  \/ EndOfWriting

Spec == Init /\ [][Next]_vars

----------------------------------------------------------------------------
(* Properties *)

\* Type invariant; idle and busy time never exceed the interval length.
TypeOK ==
  /\ now \in Times
  /\ transmitting \in BOOLEAN
  /\ busyBefore \in [Times -> Nat]
  /\ m_prev_time_ns \in Times
  /\ m_current_interval_start \in Times
  /\ m_current_interval_end \in Nat
  /\ m_idle_time_counter_ns \in 0 .. m_interval_ns
  /\ m_busy_time_counter_ns \in 0 .. m_interval_ns
  /\ m_current_state_is_on \in BOOLEAN
  /\ m_intervals \in Seq(Times \X Times \X (0 .. m_interval_ns))
  /\ call \in {"none", "on", "off"}
  /\ stage \in {"running", "finalizing", "writing", "written", "threw"}
  /\ j \in Nat \ {0}
  /\ interval_left_side_ns \in Times
  /\ running_busy_sum_ns \in Nat
  /\ compressed \in Seq(Times \X Times \X Nat)

\* How long the device transmitted in [from, to).
TrueBusyTime(from, to) == busyBefore[to] - busyBefore[from]

\* The intervals follow each other from time 0 without gap or overlap, all of
\* full length but the last one written, and each says exactly how long the
\* device transmitted in it, whatever the number of intervals between two
\* callbacks and whether a callback falls on a boundary.
IntervalsAreExact ==
  /\ m_intervals # << >> => m_intervals[1][1] = 0
  /\ \A i \in 1 .. Len(m_intervals) :
       /\ m_intervals[i][1] < m_intervals[i][2] /\ m_intervals[i][2] <= now
       /\ m_intervals[i][3] = TrueBusyTime(m_intervals[i][1], m_intervals[i][2])
       /\ i < Len(m_intervals) => m_intervals[i][2] = m_intervals[i + 1][1]
       /\ i < Len(m_intervals) \/ stage \in {"running", "finalizing"} =>
            m_intervals[i][2] - m_intervals[i][1] = m_interval_ns

\* The NS_ASSERT of the loop: idle and busy time of a completed interval add
\* up to its length.
IdleAndBusyMatchUp ==
  call # "none" /\ now >= m_current_interval_end =>
    Idle(m_current_interval_end) + Busy(m_current_interval_end) = m_interval_ns

\* Once the intervals are final they cover the whole simulation, so the
\* summary divides the total busy time by the whole simulated time, and
\* writing the results fails for a simulation of no extent and for no other.
IntervalsCoverRun ==
  /\ stage \in {"writing", "written", "threw"} =>
       IF m_intervals = << >> THEN now = 0
       ELSE m_intervals[Len(m_intervals)][2] = now
  /\ stage = "written" => now > 0
  /\ stage = "threw" => now = 0

\* The compressed file covers the same time with the same busy time, and a line
\* joins intervals only when each has nearly the utilization of the next.
CompressionIsFaithful ==
  stage = "written" =>
    /\ compressed # << >>
    /\ compressed[1][1] = 0
    /\ compressed[Len(compressed)][2] = now
    /\ \A c \in 1 .. Len(compressed) :
         /\ compressed[c][3] = TrueBusyTime(compressed[c][1], compressed[c][2])
         /\ c < Len(compressed) => compressed[c][2] = compressed[c + 1][1]
         /\ \A i \in 1 .. Len(m_intervals) - 1 :
              compressed[c][1] <= m_intervals[i][1]
                /\ m_intervals[i][2] < compressed[c][2] =>
                  ~UtilizationDiffers(m_intervals[i], m_intervals[i + 1])
=============================================================================
