----------------------------- MODULE MCUdpPing -----------------------------
EXTENDS UdpPing, TLC

Entry(from, to, interval, start, duration, wait) ==
  [from |-> from, to |-> to, interval |-> interval, start |-> start,
   duration |-> duration, wait |-> wait]

\* Two pings of one node, one after the other or at the same time; an interval
\* that divides the duration or not; with and without waiting for late replies.
SomeSchedules ==
  {<<Entry(1, 2, i, 0, 2, w), Entry(1, 3, 1, t, 2, 0)>> :
     i \in {1, 2, 3}, w \in {0, 1}, t \in {0, 2, 3}}

\* Nothing tells one port from another.
PortSymmetry == Permutations(Ports)
=============================================================================
